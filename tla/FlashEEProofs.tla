---------------------------- MODULE FlashEEProofs ----------------------------
(***************************************************************************)
(* Proofs about the flash-emulated EEPROM backend, for every number of     *)
(* lines, windows and slots, and every set of contents: type correctness   *)
(* whatever the flash port does, and, for a tolerable port, the inductive  *)
(* invariant IInv and what it gives.                                       *)
(***************************************************************************)
EXTENDS FlashEE, FiniteSetTheorems, WellFoundedInduction, TLAPS

-----------------------------------------------------------------------------
(* Least and greatest elements: First, Last and ScanEnd are well defined.  *)

\* A nonempty set of naturals has a least element.
LEMMA NatMin ==
  ASSUME NEW S \in SUBSET Nat, S # {}
  PROVE  \E m \in S : \A k \in S : m <= k
<1> DEFINE R == OpToRel(<, Nat)
<1>1. IsWellFoundedOn(R, Nat)
  BY NatLessThanWellFounded
<1>2. \A i, j \in Nat : i < j => <<i, j>> \in R
  BY DEF OpToRel
<1> HIDE DEF R
<1>3. PICK m \in S : \A k \in S : <<k, m>> \notin R
  BY <1>1, WFMin
<1>4. \A k \in S : ~ (k < m)
  BY <1>2, <1>3
<1>5. QED
  BY <1>4

\* A bounded nonempty set of naturals has a greatest element.
LEMMA NatMax ==
  ASSUME NEW S \in SUBSET Nat, S # {}, NEW b \in Nat, \A k \in S : k <= b
  PROVE  \E m \in S : \A k \in S : k <= m
<1> DEFINE T == {b - k : k \in S}
<1>1. T \in SUBSET Nat
  OBVIOUS
<1>2. T # {}
  OBVIOUS
<1>3. \A k \in S : b - k \in T
  OBVIOUS
<1>4. \A d \in T : b - d \in S
  OBVIOUS
<1> HIDE DEF T
<1>5. PICK d \in T : \A e \in T : d <= e
  BY <1>1, <1>2, NatMin
<1>6. \A k \in S : k <= b - d
  BY <1>1, <1>3, <1>5
<1>7. QED
  BY <1>4, <1>6

\* First picks the least of a set of lines.
LEMMA FirstOf ==
  ASSUME NEW S \in SUBSET Lines, S # {}
  PROVE  First(S) \in S /\ \A k \in S : First(S) <= k
<1>1. S \in SUBSET Nat
  BY GeometryAssumption DEF Lines
<1>2. \E m \in S : \A k \in S : m <= k
  BY <1>1, NatMin
<1>3. QED
  BY <1>2 DEF First

\* Last picks the greatest of a set of slots.
LEMMA LastOf ==
  ASSUME NEW S \in SUBSET Slots, S # {}
  PROVE  Last(S) \in S /\ \A k \in S : Last(S) >= k
<1>1. S \in SUBSET Nat /\ NumSlots \in Nat /\ \A k \in S : k <= NumSlots
  BY GeometryAssumption DEF Slots
<1>2. \E m \in S : \A k \in S : k <= m
  BY <1>1, NatMax
<1>3. \E m \in S : \A k \in S : m >= k
  BY <1>1, <1>2
<1>4. QED
  BY <1>3 DEF Last

\* The scan stops somewhere, at the first slot never programmed.
LEMMA ScanEndOf ==
  ASSUME NEW b \in Bank
  PROVE  /\ ScanEnd(b) \in 1 .. NumSlots + 1
         /\ ScanEnd(b) \in Slots => slot[b][ScanEnd(b)].st = "free"
         /\ \A i \in 1 .. ScanEnd(b) - 1 : slot[b][i].st # "free"
<1> DEFINE T == {n \in Slots : slot[b][n].st = "free"} \cup {NumSlots + 1}
           P(n) == /\ n \in Slots => slot[b][n].st = "free"
                   /\ \A i \in 1 .. n - 1 : slot[b][i].st # "free"
<1>1. T \in SUBSET Nat /\ T # {}
  BY GeometryAssumption DEF Slots
<1>2. PICK m \in T : \A k \in T : m <= k
  BY <1>1, NatMin
<1>3. m \in 1 .. NumSlots + 1 /\ P(m)
  BY <1>2, GeometryAssumption DEF Slots
<1>4. ScanEnd(b) = CHOOSE n \in 1 .. NumSlots + 1 : P(n)
  BY DEF ScanEnd
<1>5. QED
  BY <1>3, <1>4
-----------------------------------------------------------------------------
(* Type correctness, whatever the flash port does.                         *)

FlashType ==
  /\ hdr \in [Bank -> HeaderState]
  /\ bseq \in [Bank -> Nat]
  /\ slot \in [Bank -> [Slots -> Record]]

\* TypeOK, and while a record is in flight the cursor is on its line and the
\* append position is past its slot.
IType ==
  /\ TypeOK
  /\ pc \in {"flushCommit", "copyCommit"} => cursor \in Lines
  /\ pc = "flushCommit" => next > 1
  /\ pc = "copyCommit" => copied > 1

LEMMA TargetType ==
  ASSUME TypeOK
  PROVE  Target \in Bank /\ TargetSeq \in Nat
BY DEF TypeOK, Target, TargetSeq, Other, Bank

LEMMA MarkedType ==
  ASSUME NEW st \in {"free", "torn", "open", "closed", "bad"}
  PROVE  Marked(st) \in Record
BY GeometryAssumption DEF Marked, Record, Lines, Content

\* What a line reads as is a content.
LEMMA LineOfType ==
  ASSUME TypeOK, NEW b \in Bank, NEW n \in 1 .. NumSlots + 1, NEW l \in Lines
  PROVE  LineOf(b, n, l) \in Content
<1>1. CASE Hits(b, n, l) = {}
  BY <1>1 DEF LineOf, Content
<1>2. CASE Hits(b, n, l) # {}
  <2>1. Hits(b, n, l) \in SUBSET Slots
    BY GeometryAssumption DEF Hits, Slots
  <2>2. Last(Hits(b, n, l)) \in Slots
    BY <1>2, <2>1, LastOf
  <2>3. slot[b][Last(Hits(b, n, l))].val \in Content
    BY <2>2 DEF TypeOK, Record
  <2>4. QED
    BY <1>2, <2>3 DEF LineOf
<1>3. QED
  BY <1>1, <1>2

LEMMA CommittedType ==
  ASSUME TypeOK, NEW l \in Lines
  PROVE  CommittedLine(l) \in Content
BY LineOfType DEF CommittedLine, TypeOK

LEMMA LiveType ==
  ASSUME TypeOK, NEW l \in Lines
  PROVE  LiveLine(l) \in Content
BY CommittedType DEF LiveLine, TypeOK

LEMMA EraseType ==
  ASSUME FlashType, NEW b \in Bank, NEW e \in Effects, EraseBank(b, e)
  PROVE  FlashType'
<1>1. CASE e = "none"
  BY <1>1 DEF EraseBank, FlashType, flash
<1>2. CASE e = "partial"
  <2>1. HalfErase(b)
    BY <1>2 DEF EraseBank
  <2>2. CASE /\ hdr' = [hdr EXCEPT ![b] = "torn"]
             /\ bseq' = [bseq EXCEPT ![b] = 0]
             /\ slot' = [slot EXCEPT ![b] = [i \in Slots |-> Marked("torn")]]
    BY <2>2, MarkedType DEF FlashType, HeaderState
  <2>3. CASE \E f \in [Slots -> {"keep", "free", "bad"}] :
               /\ slot' = [slot EXCEPT ![b] =
                    [i \in Slots |-> IF f[i] = "keep" THEN slot[b][i] ELSE Marked(f[i])]]
               /\ UNCHANGED <<hdr, bseq>>
    <3>1. PICK f \in [Slots -> {"keep", "free", "bad"}] :
               /\ slot' = [slot EXCEPT ![b] =
                    [i \in Slots |-> IF f[i] = "keep" THEN slot[b][i] ELSE Marked(f[i])]]
               /\ UNCHANGED <<hdr, bseq>>
      BY <2>3
    <3>2. \A i \in Slots : f[i] # "keep" => Marked(f[i]) \in Record
      BY MarkedType
    <3>3. QED
      BY <3>1, <3>2 DEF FlashType
  <2>4. QED
    BY <2>1, <2>2, <2>3 DEF HalfErase
<1>3. CASE e = "full"
  <2>1. [i \in Slots |-> Marked("free")] \in [Slots -> Record]
    BY MarkedType
  <2>2. /\ hdr' = [hdr EXCEPT ![b] = "erased"]
        /\ bseq' = [bseq EXCEPT ![b] = 0]
        /\ slot' = [slot EXCEPT ![b] = [i \in Slots |-> Marked("free")]]
    BY <1>3 DEF EraseBank
  <2>3. QED
    BY <2>1, <2>2 DEF FlashType, HeaderState
<1>4. QED
  BY <1>1, <1>2, <1>3 DEF Effects

LEMMA HeaderType ==
  ASSUME FlashType, NEW b \in Bank, NEW s \in Nat, NEW e \in Effects, ProgramHeader(b, s, e)
  PROVE  FlashType'
BY DEF ProgramHeader, FlashType, HeaderState, Effects

LEMMA PayloadType ==
  ASSUME FlashType, NEW b \in Bank, NEW n \in Slots, NEW l \in Lines, NEW v \in Content,
         NEW e \in Effects, ProgramPayload(b, n, l, v, e)
  PROVE  FlashType'
<1> DEFINE old == slot[b][n]
           new == [st |-> "open", line |-> l, val |-> v]
<1>1. old \in Record /\ new \in Record /\ Marked("torn") \in Record
  BY MarkedType DEF FlashType, Record
<1>2. \E r \in {old, new, Marked("torn")} : slot' = [slot EXCEPT ![b][n] = r]
  BY DEF ProgramPayload, Effects
<1>3. UNCHANGED <<hdr, bseq>>
  BY DEF ProgramPayload
<1> HIDE DEF old, new
<1>4. QED
  BY <1>1, <1>2, <1>3 DEF FlashType

LEMMA CommitType ==
  ASSUME FlashType, NEW b \in Bank, NEW n \in Slots, NEW e \in Effects, ProgramCommit(b, n, e)
  PROVE  FlashType'
<1>1. slot[b][n] \in Record
  BY DEF FlashType
<1>2. [slot[b][n] EXCEPT !.st = "closed"] \in Record /\ Marked("bad") \in Record
  BY <1>1, MarkedType DEF Record
<1>3. \E r \in Record : slot' = [slot EXCEPT ![b][n] = r]
  BY <1>1, <1>2 DEF ProgramCommit, Effects
<1>4. QED
  BY <1>3 DEF ProgramCommit, FlashType

LEMMA StateType ==
  ASSUME FlashType, NEW b \in Bank, NEW e \in Effects, ProgramState(b, e)
  PROVE  FlashType'
BY DEF ProgramState, FlashType, HeaderState, Effects

LEMMA NoRequestType == NoRequest \in Requests
BY DEF NoRequest, Requests, Content

LEMMA ResetType ==
  ASSUME FlashType', ResetRam, pc' = "off", req' = NoRequest, reply' \in {"none", "ok"}
  PROVE  IType'
<1>1. cache' \in [Lines -> Content]
  BY DEF ResetRam, Content
<1>2. 0 \in 0 .. NumLines /\ 1 \in 1 .. NumSlots + 1 /\ 0 \in Bank
  BY GeometryAssumption DEF Bank
<1>3. QED
  BY <1>1, <1>2, NoRequestType DEF ResetRam, LeaveLoop, IType, TypeOK, FlashType, Places

LEMMA GiveUpType ==
  ASSUME IType, FlashType', GiveUp, UNCHANGED <<context, window>>
  PROVE  IType'
BY GeometryAssumption
   DEF GiveUp, LeaveLoop, Answer, IType, TypeOK, FlashType, Places, NoRequest, Requests,
       Content, Lines, context, window

LEMMA LoadType ==
  ASSUME TypeOK, NEW w \in Nat, NEW k \in Lines \cup {NumLines}, LoadWindow(w, k)
  PROVE  /\ cacheValid' \in BOOLEAN
         /\ cacheBase' \in Nat
         /\ cache' \in [Lines -> Content]
         /\ dirty' \subseteq Lines
<1>1. \A l \in Lines : CommittedLine(l) \in Content
  BY CommittedType
<1>2. cache' \in [Lines -> Content]
  BY <1>1 DEF LoadWindow, Content
<1>3. QED
  BY <1>2 DEF LoadWindow, TypeOK

LEMMA WindowType ==
  ASSUME NEW l \in Lines
  PROVE  WindowOf(l) \in Nat
BY GeometryAssumption DEF Lines, WindowOf

LEMMA InitType == Init => IType
<1> SUFFICES ASSUME Init PROVE IType
  OBVIOUS
<1>1. hdr \in [Bank -> HeaderState] /\ bseq \in [Bank -> Nat]
  BY DEF Init, HeaderState
<1>2. slot \in [Bank -> [Slots -> Record]]
  BY MarkedType DEF Init
<1>3. cache \in [Lines -> Content]
  BY DEF Init, Content
<1>4. 0 \in 0 .. NumLines /\ 1 \in 1 .. NumSlots + 1 /\ 0 \in Bank
  BY GeometryAssumption DEF Bank
<1>5. QED
  BY <1>1, <1>2, <1>3, <1>4, NoRequestType DEF Init, IType, TypeOK, Places

LEMMA BootType ==
  ASSUME IType, Boot
  PROVE  IType'
<1>1. ASSUME NEW b \in Bank, Mount(b)
      PROVE  IType'
  BY <1>1, ScanEndOf DEF Mount, IType, TypeOK, Places, flash, window, loop
<1>2. ASSUME pc' = "erase", UNCHANGED <<flash, context, window, loop, req, reply>>
      PROVE  IType'
  BY <1>2 DEF IType, TypeOK, Places, flash, context, window, loop
<1>3. QED
  BY <1>1, <1>2 DEF Boot, Scan, Bank

LEMMA BeginType ==
  ASSUME IType, BeginWrite \/ BeginSync \/ BeginDeinit
  PROVE  IType'
<1>1. ASSUME NEW kind \in {"write", "sync", "deinit"}, NEW todo \in SUBSET Lines,
             NEW v \in Content, NEW place \in {"serve", "sync"}, Begin(kind, todo, v, place)
      PROVE  IType'
  BY <1>1 DEF Begin, IType, TypeOK, Places, Requests, flash, context, window, loop
<1>2. \A l, k \in Lines : l .. k \in SUBSET Lines
  BY GeometryAssumption DEF Lines
<1>3. QED
  BY <1>1, <1>2 DEF BeginWrite, BeginSync, BeginDeinit, Content

LEMMA ServeType ==
  ASSUME IType, StageChunk \/ LeaveDirty \/ LoadForStage \/ CommitStaged \/ Finish
  PROVE  IType'
<1>1. ASSUME StageChunk PROVE IType'
  <2>1. req.val \in Content /\ req.todo \in SUBSET Lines
    BY DEF IType, TypeOK, Requests
  <2>2. cache' \in [Lines -> Content] /\ dirty' \in SUBSET Lines /\ req' \in Requests
    BY <1>1, <2>1 DEF StageChunk, IType, TypeOK, Requests
  <2>3. QED
    BY <1>1, <2>2 DEF StageChunk, IType, TypeOK, flash, context, loop
<1>2. ASSUME LoadForStage PROVE IType'
  <2>1. ThisWindow \in Nat
    BY <1>2, FirstOf, WindowType DEF LoadForStage, ThisWindow, IType, TypeOK, Requests
  <2>2. PICK k \in Lines \cup {NumLines} : LoadWindow(ThisWindow, k)
    BY <1>2 DEF LoadForStage, LoadFails
  <2>3. /\ cacheValid' \in BOOLEAN
        /\ cacheBase' \in Nat
        /\ cache' \in [Lines -> Content]
        /\ dirty' \subseteq Lines
    BY <2>1, <2>2, LoadType DEF IType
  <2>4. pc' \in {"serve", "idle"} /\ req' \in Requests /\ reply' \in {"none", "ok", "error"}
    BY <1>2, NoRequestType DEF LoadForStage, Answer, IType, TypeOK
  <2>5. QED
    BY <1>2, <2>3, <2>4 DEF LoadForStage, IType, TypeOK, Places, flash, context, loop
<1>3. ASSUME LeaveDirty \/ CommitStaged PROVE IType'
  BY <1>3 DEF LeaveDirty, CommitStaged, IType, TypeOK, Places, flash, context, window, loop
<1>4. ASSUME Finish PROVE IType'
  BY <1>4, NoRequestType DEF Finish, Answer, IType, TypeOK, Places, flash, context, window, loop
<1>5. QED
  BY <1>1, <1>2, <1>3, <1>4

LEMMA DeinitType ==
  ASSUME IType, FinishDeinit
  PROVE  IType'
<1>1. CASE pc' = "off" /\ ResetRam
  BY <1>1, ResetType DEF FinishDeinit, Answer, IType, TypeOK, FlashType, flash
<1>2. CASE pc' = "idle" /\ UNCHANGED <<context, window, loop>>
  BY <1>2, NoRequestType
     DEF FinishDeinit, Answer, IType, TypeOK, Places, flash, context, window, loop
<1>3. QED
  BY <1>1, <1>2 DEF FinishDeinit

LEMMA ReadType ==
  ASSUME IType, Read
  PROVE  IType'
<1>1. PICK l \in Lines, k \in Lines \cup {NumLines} : LoadWindow(WindowOf(l), k)
  BY DEF Read, LoadFails
<1>2. /\ cacheValid' \in BOOLEAN
      /\ cacheBase' \in Nat
      /\ cache' \in [Lines -> Content]
      /\ dirty' \subseteq Lines
  BY <1>1, WindowType, LoadType DEF IType
<1>3. QED
  BY <1>2 DEF Read, IType, TypeOK, Places, flash, context, loop

LEMMA FlushType ==
  ASSUME IType, EnsureCapacity \/ FlushDone \/ FlushPayload \/ FlushCommit
  PROVE  IType'
<1> USE DEF IType
<1>1. ASSUME EnsureCapacity PROVE IType'
  BY <1>1 DEF EnsureCapacity, TypeOK, Places, flash, context, window, loop
<1>2. ASSUME FlushDone PROVE IType'
  BY <1>2, GeometryAssumption DEF FlushDone, LeaveLoop, TypeOK, Places, flash, context
<1>3. ASSUME FlushPayload PROVE IType'
  <2>1. ToFlush \in SUBSET Lines /\ ToFlush # {}
    BY <1>3 DEF FlushPayload, ToFlush, TypeOK
  <2>2. First(ToFlush) \in Lines
    BY <2>1, FirstOf
  <2>3. cache[First(ToFlush)] \in Content
    BY <2>2 DEF TypeOK
  <2>4. FlashType'
    <3>1. ASSUME next <= NumSlots,
                 NEW e \in Effects, ProgramPayload(active, next, First(ToFlush), cache[First(ToFlush)], e)
          PROVE  FlashType'
      <4>1. next \in Slots
        BY <3>1 DEF TypeOK, Slots
      <4>2. QED
        BY <2>2, <2>3, <3>1, <4>1, PayloadType DEF TypeOK, FlashType
    <3>2. ASSUME UNCHANGED flash PROVE FlashType'
      BY <3>2 DEF TypeOK, FlashType, flash
    <3>3. QED
      BY <1>3, <3>1, <3>2 DEF FlushPayload, Effects
  <2>5. CASE next <= NumSlots /\ next' = next + 1 /\ cursor' = First(ToFlush) /\ UNCHANGED copied /\ pc' = "flushCommit"
    BY <1>3, <2>2, <2>4, <2>5, GeometryAssumption
       DEF FlushPayload, TypeOK, FlashType, Places, Lines, window
  <2>6. CASE pc' = "erase" /\ LeaveLoop /\ UNCHANGED next
    BY <1>3, <2>4, <2>6, GeometryAssumption
       DEF FlushPayload, TypeOK, FlashType, LeaveLoop, Places, window
  <2>7. QED
    BY <1>3, <2>5, <2>6 DEF FlushPayload
<1>4. ASSUME FlushCommit PROVE IType'
  <2>1. next - 1 \in Slots
    BY <1>4, GeometryAssumption DEF FlushCommit, TypeOK, Slots
  <2>2. FlashType'
    BY <1>4, <2>1, CommitType DEF FlushCommit, TypeOK, FlashType, Effects
  <2>3. CASE cursor' = cursor + 1 /\ pc' = "flush" /\ UNCHANGED copied
    BY <1>4, <2>2, <2>3, GeometryAssumption
       DEF FlushCommit, TypeOK, FlashType, Places, Lines, context, window
  <2>4. CASE pc' = "erase" /\ LeaveLoop
    BY <1>4, <2>2, <2>4, GeometryAssumption
       DEF FlushCommit, TypeOK, FlashType, LeaveLoop, Places, context, window
  <2>5. QED
    BY <1>4, <2>3, <2>4 DEF FlushCommit
<1>5. QED
  BY <1>1, <1>2, <1>3, <1>4

LEMMA PrepareType ==
  ASSUME IType, Erase \/ Header
  PROVE  IType'
<1>1. Target \in Bank /\ TargetSeq \in Nat
  BY TargetType DEF IType
<1>2. FlashType'
  BY <1>1, EraseType, HeaderType DEF Erase, Header, IType, TypeOK, FlashType, Effects
<1>3. CASE GiveUp
  BY <1>2, <1>3, GiveUpType DEF Erase, Header
<1>4. CASE pc' \in {"header", "copy", "activate"} /\ UNCHANGED <<loop, req, reply>>
  BY <1>2, <1>4 DEF Erase, Header, IType, TypeOK, FlashType, Places, context, window, loop
<1>5. QED
  BY <1>3, <1>4 DEF Erase, Header

LEMMA CopyType ==
  ASSUME IType, CopyPayload \/ CopyCommit \/ CopyReadFails \/ CopyDone
  PROVE  IType'
<1> USE DEF IType
<1>1. Target \in Bank
  BY TargetType
<1>2. ASSUME CopyPayload PROVE IType'
  <2>1. ToCopy \in SUBSET Lines /\ ToCopy # {}
    BY <1>2 DEF CopyPayload, ToCopy
  <2>2. First(ToCopy) \in Lines /\ LiveLine(First(ToCopy)) \in Content
    BY <2>1, FirstOf, LiveType
  <2>3. FlashType'
    <3>1. ASSUME copied <= NumSlots, NEW e \in Effects,
                 ProgramPayload(Target, copied, First(ToCopy), LiveLine(First(ToCopy)), e)
          PROVE  FlashType'
      <4>1. copied \in Slots
        BY <3>1 DEF TypeOK, Slots
      <4>2. QED
        BY <1>1, <2>2, <3>1, <4>1, PayloadType DEF TypeOK, FlashType
    <3>2. ASSUME UNCHANGED flash PROVE FlashType'
      BY <3>2 DEF TypeOK, FlashType, flash
    <3>3. QED
      BY <1>2, <3>1, <3>2 DEF CopyPayload, Effects
  <2>4. CASE GiveUp
    BY <1>2, <2>3, <2>4, GiveUpType DEF CopyPayload
  <2>5. CASE /\ copied <= NumSlots
             /\ cursor' = First(ToCopy)
             /\ copied' = copied + 1
             /\ pc' = "copyCommit"
             /\ UNCHANGED <<req, reply>>
    BY <1>2, <2>2, <2>3, <2>5, GeometryAssumption
       DEF CopyPayload, TypeOK, FlashType, Places, Lines, context, window
  <2>6. QED
    BY <1>2, <2>4, <2>5 DEF CopyPayload
<1>3. ASSUME CopyCommit PROVE IType'
  <2>1. copied - 1 \in Slots
    BY <1>3, GeometryAssumption DEF CopyCommit, TypeOK, Slots
  <2>2. FlashType'
    BY <1>1, <1>3, <2>1, CommitType DEF CopyCommit, TypeOK, FlashType, Effects
  <2>3. CASE GiveUp
    BY <1>3, <2>2, <2>3, GiveUpType DEF CopyCommit
  <2>4. CASE cursor' = cursor + 1 /\ pc' = "copy" /\ UNCHANGED <<copied, req, reply>>
    BY <1>3, <2>2, <2>4, GeometryAssumption
       DEF CopyCommit, TypeOK, FlashType, Places, Lines, context, window
  <2>5. QED
    BY <1>3, <2>3, <2>4 DEF CopyCommit
<1>4. ASSUME CopyReadFails PROVE IType'
  BY <1>4, GiveUpType DEF CopyReadFails, TypeOK, FlashType, flash
<1>5. ASSUME CopyDone PROVE IType'
  BY <1>5 DEF CopyDone, TypeOK, Places, flash, context, window, loop
<1>6. QED
  BY <1>2, <1>3, <1>4, <1>5

LEMMA ActivateType ==
  ASSUME IType, Activate
  PROVE  IType'
<1>1. Target \in Bank /\ TargetSeq \in Nat
  BY TargetType DEF IType
<1>2. FlashType'
  BY <1>1, StateType DEF Activate, IType, TypeOK, FlashType, Effects
<1>3. CASE Switch /\ LeaveLoop /\ UNCHANGED <<req, reply>>
  BY <1>1, <1>2, <1>3, GeometryAssumption
     DEF Switch, LeaveLoop, IType, TypeOK, FlashType, Places, window
<1>4. CASE GiveUp /\ UNCHANGED <<context, window>>
  BY <1>2, <1>4, GiveUpType
<1>5. QED
  BY <1>3, <1>4 DEF Activate

\* What a power loss cuts in half is well typed too.
LEMMA HalfDoneType ==
  ASSUME IType, HalfDone
  PROVE  FlashType'
<1> USE DEF IType
<1>1. FlashType
  BY DEF TypeOK, FlashType
<1>2. /\ Target \in Bank
      /\ TargetSeq \in Nat
      /\ active \in Bank
      /\ "partial" \in Effects
      /\ Blank \in Content
  BY TargetType DEF TypeOK, Effects, Content
<1>3. CASE pc = "erase"
  BY <1>1, <1>2, <1>3, EraseType DEF HalfDone
<1>4. CASE pc = "header"
  BY <1>1, <1>2, <1>4, HeaderType DEF HalfDone
<1>5. CASE pc = "flush" /\ cacheValid /\ ToFlush # {} /\ next <= NumSlots
  <2>1. First(ToFlush) \in Lines /\ next \in Slots
    <3>1. ToFlush \in SUBSET Lines
      BY DEF ToFlush, TypeOK
    <3>2. QED
      BY <1>5, <3>1, FirstOf DEF TypeOK, Slots
  <2>2. ProgramPayload(active, next, First(ToFlush), Blank, "partial")
    BY <1>5 DEF HalfDone
  <2>3. QED
    BY <1>1, <1>2, <2>1, <2>2, PayloadType
<1>6. CASE pc = "flushCommit"
  <2>1. next - 1 \in Slots
    BY <1>6, GeometryAssumption DEF TypeOK, Slots
  <2>2. QED
    BY <1>1, <1>2, <1>6, <2>1, CommitType DEF HalfDone
<1>7. CASE pc = "copy" /\ ToCopy # {} /\ copied <= NumSlots
  <2>1. First(ToCopy) \in Lines /\ copied \in Slots
    <3>1. ToCopy \in SUBSET Lines
      BY DEF ToCopy
    <3>2. QED
      BY <1>7, <3>1, FirstOf DEF TypeOK, Slots
  <2>2. ProgramPayload(Target, copied, First(ToCopy), Blank, "partial")
    BY <1>7 DEF HalfDone
  <2>3. QED
    BY <1>1, <1>2, <2>1, <2>2, PayloadType
<1>8. CASE pc = "copyCommit"
  <2>1. copied - 1 \in Slots
    BY <1>8, GeometryAssumption DEF TypeOK, Slots
  <2>2. QED
    BY <1>1, <1>2, <1>8, <2>1, CommitType DEF HalfDone
<1>9. CASE pc = "activate"
  BY <1>1, <1>2, <1>9, StateType DEF HalfDone
<1>10. CASE UNCHANGED flash
  BY <1>1, <1>10 DEF FlashType, flash
<1>11. QED
  BY <1>3, <1>4, <1>5, <1>6, <1>7, <1>8, <1>9, <1>10 DEF HalfDone

LEMMA PowerLossType ==
  ASSUME IType, PowerLoss
  PROVE  IType'
<1>1. FlashType'
  BY HalfDoneType DEF PowerLoss, IType, TypeOK, FlashType, flash
<1>2. QED
  BY <1>1, ResetType DEF PowerLoss

LEMMA NextType ==
  ASSUME IType, [Next]_vars
  PROVE  IType'
<1>1. CASE UNCHANGED vars
  BY <1>1 DEF vars, flash, context, window, loop, IType, TypeOK
<1>2. CASE Next
  BY <1>2, BootType, BeginType, ServeType, DeinitType, ReadType, FlushType, PrepareType,
     CopyType, ActivateType, PowerLossType DEF Next, Step
<1>3. QED
  BY <1>1, <1>2

(***************************************************************************)
(* Type correctness, whatever the flash port does: every variable of the   *)
(* backend's context, of its window and of its loops stays in range; in    *)
(* particular the append positions never pass the end of a bank.           *)
(***************************************************************************)
THEOREM TypeCorrect == Spec => []TypeOK
<1>1. IType => TypeOK
  BY DEF IType
<1>2. QED
  BY <1>1, InitType, NextType, PTL DEF Spec

-----------------------------------------------------------------------------
(* The inductive invariant, for a tolerable port.                          *)

\* What a step does to a bank: nothing, or at least it does not raise it.
Untouched(b) ==
  /\ hdr'[b] = hdr[b]
  /\ bseq'[b] = bseq[b]
  /\ slot'[b] = slot[b]

NotRaised(b) == hdr'[b] = "active" => hdr[b] = "active" /\ bseq'[b] = bseq[b]

LEMMA OtherBank ==
  ASSUME NEW b \in Bank
  PROVE  Other(b) \in Bank /\ Other(b) # b /\ Other(Other(b)) = b
BY DEF Other, Bank

\* A bank written up to n is scanned up to n.
LEMMA WrittenEnd ==
  ASSUME NEW b \in Bank, NEW n \in 1 .. NumSlots + 1, Written(b, n)
  PROVE  ScanEnd(b) = n
<1> DEFINE e == ScanEnd(b)
<1>1. /\ e \in 1 .. NumSlots + 1
      /\ e \in Slots => slot[b][e].st = "free"
      /\ \A i \in 1 .. e - 1 : slot[b][i].st # "free"
  BY ScanEndOf
<1> HIDE DEF e
<1>2. ~ (e < n)
  BY <1>1, GeometryAssumption DEF Written, Slots
<1>3. ~ (n < e)
  BY <1>1, GeometryAssumption DEF Written
<1>4. e = n
  BY <1>1, <1>2, <1>3, GeometryAssumption
<1>5. QED
  BY <1>4 DEF e

\* The store is what a boot would mount.
LEMMA NewestBoots ==
  ASSUME TypeOK, NEW b \in Bank, NEW n \in 1 .. NumSlots + 1, Newest(b, n)
  PROVE  ValidBank(b) /\ Boots(b) /\ ScanEnd(b) = n
<1>1. ScanEnd(b) = n
  BY WrittenEnd DEF Newest
<1>2. ValidBank(b)
  BY <1>1 DEF Newest, Written, ValidBank
<1>3. ValidBank(Other(b)) => bseq[Other(b)] < bseq[b]
  BY DEF Newest, ValidBank
<1>4. Boots(b)
  <2>1. bseq[0] \in Nat /\ bseq[1] \in Nat
    BY DEF TypeOK, Bank
  <2>2. CASE b = 0
    BY <1>2, <1>3, <2>1, <2>2 DEF Boots, Other
  <2>3. CASE b = 1
    BY <1>2, <1>3, <2>1, <2>3 DEF Boots, Other
  <2>4. QED
    BY <2>2, <2>3 DEF Bank
<1>5. QED
  BY <1>1, <1>2, <1>4

LEMMA StoreKept ==
  ASSUME NEW b \in Bank, NEW n \in 1 .. NumSlots + 1, Newest(b, n),
         Untouched(b), NotRaised(Other(b))
  PROVE  Newest(b, n)'
BY DEF Newest, Written, Untouched, NotRaised

LEMMA NoneRaised ==
  ASSUME NEW b \in Bank, NeverFormatted, Untouched(Other(b)), NotRaised(b)
  PROVE  NeverFormatted'
BY DEF NeverFormatted, Untouched, NotRaised, Other, Bank

LEMMA EraseFrame ==
  ASSUME FlashType, NEW b \in Bank, NEW e \in Effects, EraseBank(b, e)
  PROVE  Untouched(Other(b)) /\ NotRaised(b)
<1>1. Other(b) \in Bank /\ Other(b) # b
  BY OtherBank
<1>2. CASE e = "none"
  BY <1>2 DEF EraseBank, Untouched, NotRaised, flash
<1>3. CASE e = "partial"
  <2>1. HalfErase(b)
    BY <1>3 DEF EraseBank
  <2>2. \E s : slot' = [slot EXCEPT ![b] = s]
    BY <2>1 DEF HalfErase
  <2>3. slot'[Other(b)] = slot[Other(b)]
    BY <1>1, <2>2 DEF FlashType
  <2>4. \/ hdr' = [hdr EXCEPT ![b] = "torn"] /\ bseq' = [bseq EXCEPT ![b] = 0]
        \/ UNCHANGED <<hdr, bseq>>
    BY <2>1 DEF HalfErase
  <2>5. QED
    BY <1>1, <2>3, <2>4 DEF FlashType, Untouched, NotRaised
<1>4. CASE e = "full"
  BY <1>1, <1>4 DEF EraseBank, FlashType, Untouched, NotRaised
<1>5. QED
  BY <1>2, <1>3, <1>4 DEF Effects

LEMMA HeaderFrame ==
  ASSUME FlashType, NEW b \in Bank, NEW s, NEW e \in Effects, ProgramHeader(b, s, e)
  PROVE  Untouched(Other(b)) /\ NotRaised(b)
BY OtherBank DEF ProgramHeader, Effects, FlashType, Untouched, NotRaised

LEMMA PayloadFrame ==
  ASSUME FlashType, NEW b \in Bank, NEW n, NEW l, NEW v, NEW e, ProgramPayload(b, n, l, v, e)
  PROVE  Untouched(Other(b)) /\ NotRaised(b)
<1>1. Other(b) \in Bank /\ Other(b) # b
  BY OtherBank
<1>2. UNCHANGED <<hdr, bseq>> /\ \E r : slot' = [slot EXCEPT ![b][n] = r]
  BY DEF ProgramPayload
<1>3. QED
  BY <1>1, <1>2 DEF FlashType, Untouched, NotRaised

LEMMA CommitFrame ==
  ASSUME FlashType, NEW b \in Bank, NEW n, NEW e, ProgramCommit(b, n, e)
  PROVE  Untouched(Other(b)) /\ NotRaised(b)
<1>1. Other(b) \in Bank /\ Other(b) # b
  BY OtherBank
<1>2. UNCHANGED <<hdr, bseq>> /\ \E r : slot' = [slot EXCEPT ![b][n] = r]
  BY DEF ProgramCommit
<1>3. QED
  BY <1>1, <1>2 DEF FlashType, Untouched, NotRaised

LEMMA StateFrame ==
  ASSUME FlashType, NEW b \in Bank, NEW e \in Effects, ProgramState(b, e)
  PROVE  Untouched(Other(b)) /\ (e # "full" => NotRaised(b))
BY OtherBank DEF ProgramState, Effects, FlashType, Untouched, NotRaised

\* Where the construction happens, and what stays of the store meanwhile.
LEMMA TargetOf ==
  ASSUME TypeOK
  PROVE  /\ Target \in Bank
         /\ up => Target = Other(active) /\ Other(Target) = active
         /\ ~up => Target = 0
BY OtherBank DEF Target, TypeOK, Bank

LEMMA ITypeOf == IInv => IType
BY DEF IInv, IType, InLoop, InFlight

LEMMA FlashTypeOf == IInv => FlashType
BY DEF IInv, TypeOK, FlashType

LEMMA RunningKept ==
  ASSUME IInv, up, Untouched(Other(Target)), NotRaised(Target), UNCHANGED context, pc' # "off"
  PROVE  Running'
<1>1. Newest(active, next) /\ active \in Bank /\ next \in 1 .. NumSlots + 1
  BY DEF IInv, TypeOK, Running
<1>2. Untouched(active) /\ NotRaised(Other(active))
  BY TargetOf DEF IInv
<1>3. active' = active /\ next' = next /\ seq' = seq
  BY DEF context
<1>4. Newest(active, next)'
  BY <1>1, <1>2, <1>3 DEF Newest, Written, Untouched, NotRaised
<1>5. QED
  BY <1>2, <1>3, <1>4 DEF Running, IInv, Untouched

LEMMA IInvInit == Init => IInv
<1> SUFFICES ASSUME Init PROVE IInv
  OBVIOUS
<1>1. TypeOK
  BY InitType DEF IType
<1>2. NeverFormatted
  BY DEF Init, NeverFormatted
<1>3. QED
  BY <1>1, <1>2 DEF Init, IInv, Running, Stopped, InConstruction, InFlight, InLoop, InRoom

\* Giving up a format or a checkpoint keeps the store.
LEMMA GiveUpKeeps ==
  ASSUME IInv, pc # "off", GiveUp, UNCHANGED <<context, window>>,
         Untouched(Other(Target)), NotRaised(Target), TypeOK'
  PROVE  IInv'
<1>1. CASE up
  <2>1. Running'
    BY <1>1, RunningKept DEF GiveUp
  <2>2. QED
    BY <1>1, <2>1 DEF IInv, GiveUp, LeaveLoop, Stopped, InConstruction, InFlight, InLoop, InRoom, context
<1>2. CASE ~up
  <2>1. NeverFormatted'
    BY <1>2, TargetOf, NoneRaised DEF IInv, Stopped
  <2>2. QED
    BY <1>2, <2>1
       DEF IInv, GiveUp, LeaveLoop, Running, Stopped, InConstruction, InFlight, InLoop, InRoom, context
<1>3. QED
  BY <1>1, <1>2

\* init mounts the store, or finds none and formats.
LEMMA BootKeeps ==
  ASSUME IInv, Tolerable, Boot, TypeOK'
  PROVE  IInv'
<1>1. pc = "off" /\ ~up /\ (NeverFormatted \/ Durable) /\ TypeOK
  BY DEF Boot, IInv, Running, Stopped
<1>2. Scan(Bank)
  BY DEF Boot, Tolerable
<1>3. UNCHANGED <<flash, loop>>
  BY <1>2 DEF Scan, Mount
<1>4. ASSUME NEW b \in Bank, ValidBank(b), ValidBank(Other(b)) => bseq[Other(b)] <= bseq[b], Mount(b)
      PROVE  IInv'
  <2>1. hdr[b] = "active"
    BY <1>4 DEF ValidBank
  <2>2. Durable
    BY <1>1, <2>1 DEF NeverFormatted
  <2>3. PICK c \in Bank, n \in 1 .. NumSlots + 1 : Newest(c, n)
    BY <2>2 DEF Durable
  <2>4. ValidBank(c) /\ ScanEnd(c) = n
    BY <1>1, <2>3, NewestBoots
  <2>5. b = c
    <3>1. CASE b = Other(c)
      <4>1. bseq[b] < bseq[c]
        BY <2>1, <2>3, <3>1 DEF Newest
      <4>2. bseq[c] <= bseq[b]
        BY <1>4, <2>4, <3>1, OtherBank
      <4>3. QED
        BY <1>1, <4>1, <4>2 DEF TypeOK
    <3>2. QED
      BY <3>1 DEF Other, Bank
  <2>6. Newest(b, n) /\ active' = b /\ next' = n /\ seq' = bseq[b] /\ up' /\ pc' = "idle"
    BY <1>4, <2>3, <2>4, <2>5 DEF Mount
  <2>7. Running'
    BY <1>3, <2>6 DEF Running, Newest, Written, flash
  <2>8. QED
    BY <1>1, <1>3, <2>6, <2>7
       DEF IInv, Stopped, InConstruction, InFlight, InLoop, InRoom, loop
<1>5. ASSUME \A b \in Bank : ~ValidBank(b), pc' = "erase",
             UNCHANGED <<flash, context, window, loop, req, reply>>
      PROVE  IInv'
  <2>1. ~Durable
    BY <1>1, <1>5, NewestBoots DEF Durable
  <2>2. NeverFormatted'
    BY <1>1, <1>5, <2>1 DEF NeverFormatted, flash
  <2>3. QED
    BY <1>1, <1>5, <2>2
       DEF IInv, Running, Stopped, InConstruction, InFlight, InLoop, InRoom, context, loop
<1>6. CASE Mount(0) /\ ValidBank(0) /\ (ValidBank(1) => bseq[0] >= bseq[1])
  BY <1>1, <1>4, <1>6 DEF Other, Bank, TypeOK
<1>7. CASE Mount(1) /\ ValidBank(1) /\ (ValidBank(0) => bseq[0] < bseq[1])
  BY <1>1, <1>4, <1>7 DEF Other, Bank, TypeOK
<1>8. QED
  BY <1>2, <1>5, <1>6, <1>7 DEF Scan, Bank

\* Requests and reads leave the flash and the context alone.
LEMMA QuietKeeps ==
  ASSUME IInv, TypeOK', pc \in {"idle", "serve", "sync"}, pc' \in {"idle", "serve", "sync", "erase"},
         UNCHANGED <<flash, context, loop>>
  PROVE  IInv'
<1>1. up
  BY DEF IInv, Stopped
<1>2. Running'
  BY <1>1 DEF IInv, Running, Newest, Written, flash, context
<1>3. QED
  BY <1>1, <1>2
     DEF IInv, Stopped, InConstruction, InFlight, InLoop, InRoom, context, loop

LEMMA ServeKeeps ==
  ASSUME IInv, TypeOK',
         \/ BeginWrite \/ BeginSync \/ BeginDeinit \/ Read
         \/ StageChunk \/ LeaveDirty \/ LoadForStage \/ CommitStaged \/ Finish
  PROVE  IInv'
<1>1. /\ pc \in {"idle", "serve", "sync"}
      /\ pc' \in {"idle", "serve", "sync", "erase"}
      /\ UNCHANGED <<flash, context, loop>>
  BY DEF BeginWrite, BeginSync, BeginDeinit, Begin, Read, StageChunk, LeaveDirty, LoadForStage,
         CommitStaged, Finish
<1>2. QED
  BY <1>1, QuietKeeps

\* The end of a session: the store stays, RAM is forgotten.
LEMMA OffKeeps ==
  ASSUME TypeOK', NeverFormatted' \/ Durable', pc' = "off", ResetRam
  PROVE  IInv'
BY DEF ResetRam, LeaveLoop, IInv, Running, Stopped, InConstruction, InFlight, InLoop, InRoom

LEMMA StoreOf ==
  ASSUME IInv, up
  PROVE  Durable /\ Newest(active, next) /\ active \in Bank /\ next \in 1 .. NumSlots + 1
BY DEF IInv, Running, Durable, TypeOK

LEMMA DeinitKeeps ==
  ASSUME IInv, TypeOK', FinishDeinit
  PROVE  IInv'
<1>1. CASE pc' = "off" /\ ResetRam
  <2>1. up
    BY DEF FinishDeinit, IInv, Stopped
  <2>2. Durable'
    BY <2>1, StoreOf DEF FinishDeinit, flash, Durable, Newest, Written
  <2>3. QED
    BY <1>1, <2>2, OffKeeps
<1>2. CASE pc' = "idle" /\ UNCHANGED <<context, window, loop>>
  BY <1>2, QuietKeeps DEF FinishDeinit
<1>3. QED
  BY <1>1, <1>2 DEF FinishDeinit

LEMMA CapacityKeeps ==
  ASSUME IInv, TypeOK', EnsureCapacity
  PROVE  IInv'
<1>1. CASE pc' = "erase"
  BY <1>1, QuietKeeps DEF EnsureCapacity
<1>2. CASE pc' = "flush" /\ next + Cardinality(dirty) <= NumSlots + 1
  <2>1. up /\ cursor = 0 /\ copied = 1
    BY DEF EnsureCapacity, IInv, Stopped, InLoop
  <2>2. Running'
    BY <1>2, <2>1 DEF EnsureCapacity, IInv, Running, Newest, Written, flash, context
  <2>3. {l \in dirty : l >= cursor} = dirty
    <3>1. \A l \in dirty : l >= 0
      BY GeometryAssumption DEF IInv, TypeOK, Lines
    <3>2. QED
      BY <2>1, <3>1
  <2>4. InRoom'
    BY <1>2, <2>3 DEF EnsureCapacity, InRoom, context, window, loop
  <2>5. QED
    BY <1>2, <2>1, <2>2, <2>4
       DEF EnsureCapacity, IInv, Stopped, InConstruction, InFlight, InLoop, context, loop
<1>3. QED
  BY <1>1, <1>2 DEF EnsureCapacity

LEMMA FlushDoneKeeps ==
  ASSUME IInv, TypeOK', FlushDone
  PROVE  IInv'
<1>1. up
  BY DEF FlushDone, IInv, Stopped
<1>2. Running'
  BY <1>1 DEF FlushDone, IInv, Running, Newest, Written, flash, context
<1>3. QED
  BY <1>1, <1>2
     DEF FlushDone, LeaveLoop, IInv, Stopped, InConstruction, InFlight, InLoop, InRoom, context

\* What appending and committing do to the states of the slots.
LEMMA PayloadNone ==
  ASSUME FlashType, NEW b \in Bank, NEW n \in Slots, NEW l, NEW v, ProgramPayload(b, n, l, v, "none")
  PROVE  UNCHANGED flash
<1>1. UNCHANGED <<hdr, bseq>> /\ slot' = [slot EXCEPT ![b][n] = slot[b][n]]
  BY DEF ProgramPayload
<1>2. [slot EXCEPT ![b][n] = slot[b][n]] = slot
  BY DEF FlashType
<1>3. QED
  BY <1>1, <1>2 DEF flash

LEMMA PayloadFull ==
  ASSUME FlashType, NEW b \in Bank, NEW n \in Slots, NEW l, NEW v,
         slot[b][n].st = "free", ProgramPayload(b, n, l, v, "full")
  PROVE  /\ UNCHANGED <<hdr, bseq>>
         /\ \A c \in Bank, i \in Slots :
              slot'[c][i].st = IF c = b /\ i = n THEN "open" ELSE slot[c][i].st
<1> DEFINE new == [st |-> "open", line |-> l, val |-> v]
<1>1. UNCHANGED <<hdr, bseq>> /\ slot' = [slot EXCEPT ![b][n] = new]
  BY DEF ProgramPayload
<1>2. new.st = "open"
  OBVIOUS
<1> HIDE DEF new
<1>3. QED
  BY <1>1, <1>2 DEF FlashType

LEMMA CommitDone ==
  ASSUME FlashType, NEW b \in Bank, NEW n \in Slots, NEW e \in Effects,
         slot[b][n].st = "open", ProgramCommit(b, n, e)
  PROVE  /\ UNCHANGED <<hdr, bseq>>
         /\ \A c \in Bank, i \in Slots :
              \/ slot'[c][i].st = slot[c][i].st
              \/ c = b /\ i = n /\ slot'[c][i].st = "closed"
<1> DEFINE new == [slot[b][n] EXCEPT !.st = "closed"]
<1>1. UNCHANGED <<hdr, bseq>>
  BY DEF ProgramCommit
<1>2. slot' = [slot EXCEPT ![b][n] = slot[b][n]] \/ slot' = [slot EXCEPT ![b][n] = new]
  BY DEF ProgramCommit, Effects
<1>3. new.st = "closed"
  BY DEF FlashType, Record
<1> HIDE DEF new
<1>4. QED
  BY <1>1, <1>2, <1>3 DEF FlashType

\* The bank of a record that goes down or is committed stays written.
LEMMA WrittenPayload ==
  ASSUME NEW b \in Bank, NEW n \in Slots, Written(b, n),
         \A i \in Slots : slot'[b][i].st = IF i = n THEN "open" ELSE slot[b][i].st
  PROVE  Written(b, n + 1)'
BY GeometryAssumption DEF Written, Slots

LEMMA WrittenCommit ==
  ASSUME NEW b \in Bank, NEW n \in 1 .. NumSlots + 1, Written(b, n),
         \A i \in Slots : \/ slot'[b][i].st = slot[b][i].st
                          \/ i < n /\ slot'[b][i].st = "closed"
  PROVE  Written(b, n)'
BY GeometryAssumption DEF Written, Slots

\* Leaving the flush for a checkpoint.
LEMMA FallBack ==
  ASSUME IInv, TypeOK', up, Running', pc' = "erase", LeaveLoop, UNCHANGED up
  PROVE  IInv'
BY DEF IInv, LeaveLoop, Stopped, InConstruction, InFlight, InLoop, InRoom

LEMMA FlushPayloadKeeps ==
  ASSUME IInv, TypeOK', Tolerable, FlushPayload
  PROVE  IInv'
<1> DEFINE l == First(ToFlush)
<1>1. up /\ pc = "flush" /\ Newest(active, next) /\ TypeOK /\ FlashType /\ UNCHANGED <<up, active, seq, window>>
  BY FlashTypeOf DEF FlushPayload, IInv, Stopped, Running
<1>2. ToFlush \in SUBSET Lines /\ ToFlush # {} /\ ToFlush \subseteq dirty
  BY <1>1 DEF FlushPayload, ToFlush, TypeOK
<1>3. l \in ToFlush /\ l \in Lines /\ \A k \in ToFlush : l <= k
  BY <1>2, FirstOf
<1> HIDE DEF l
<1>4. CASE /\ next <= NumSlots
           /\ ProgramPayload(active, next, l, cache[l], "full")
           /\ next' = next + 1
           /\ cursor' = l
           /\ UNCHANGED copied
           /\ pc' = "flushCommit"
  <2>1. next \in Slots /\ active \in Bank /\ Written(active, next)
    BY <1>1, <1>4 DEF TypeOK, Slots, Newest
  <2>2. slot[active][next].st = "free"
    BY <2>1 DEF Written, Slots
  <2>3. /\ UNCHANGED <<hdr, bseq>>
        /\ \A c \in Bank, i \in Slots :
             slot'[c][i].st = IF c = active /\ i = next THEN "open" ELSE slot[c][i].st
    BY <1>1, <1>4, <2>1, <2>2, PayloadFull
  <2>4. \A i \in 1 .. next : slot'[active][i].st \in {"torn", "open", "closed"}
    BY <2>1, <2>3, GeometryAssumption DEF Written, Slots
  <2>5. \A i \in next + 1 .. NumSlots : slot'[active][i].st = "free"
    BY <2>1, <2>3, GeometryAssumption DEF Written, Slots
  <2>6. Running'
    <3>1. next' - 1 = next /\ active' = active /\ seq' = seq /\ next \in Nat
      BY <1>1, <1>4, <2>1 DEF Slots
    <3>2. Written(active, next)'
      BY <1>4, <2>4, <2>5, <3>1 DEF Written
    <3>3. bseq[active] = seq
      BY <1>1 DEF IInv, Running
    <3>4. QED
      BY <1>1, <1>4, <2>3, <3>1, <3>2, <3>3 DEF Running, Newest
  <2>7. InFlight'
    <3>1. slot'[active][next].st = "open" /\ next' - 1 = next /\ next' > 1
      BY <1>4, <2>1, <2>3 DEF Slots
    <3>2. QED
      BY <1>1, <1>4, <3>1 DEF InFlight
  <2>8. InRoom'
    <3>1. {k \in dirty : k > l} = ToFlush \ {l}
      <4>1. l \in Nat /\ cursor \in Nat /\ \A k \in dirty : k \in Nat
        BY <1>1, <1>3, GeometryAssumption DEF TypeOK, Lines
      <4>2. \A k : k \in ToFlush <=> k \in dirty /\ k >= cursor
        BY DEF ToFlush
      <4>3. \A k \in dirty : k > l <=> k \in ToFlush /\ k # l
        BY <1>3, <4>1, <4>2
      <4>4. QED
        BY <4>2, <4>3
    <3>2. IsFiniteSet(ToFlush)
      <4>1. IsFiniteSet(Lines)
        BY FS_Interval, GeometryAssumption DEF Lines
      <4>2. QED
        BY <1>2, <4>1, FS_Subset
    <3>3. Cardinality(ToFlush \ {l}) = Cardinality(ToFlush) - 1 /\ Cardinality(ToFlush) \in Nat
      BY <1>3, <3>2, FS_RemoveElement, FS_CardinalityType
    <3>4. next + Cardinality(ToFlush) <= NumSlots + 1
      BY <1>1 DEF IInv, InRoom, ToFlush
    <3>5. next' + Cardinality({k \in dirty : k > l}) <= NumSlots + 1
      <4>1. Cardinality({k \in dirty : k > l}) = Cardinality(ToFlush) - 1
        BY <3>1, <3>3
      <4>2. next' = next + 1 /\ next \in Nat /\ NumSlots \in Nat
        BY <1>4, <2>1, GeometryAssumption DEF Slots
      <4>3. QED
        BY <3>3, <3>4, <4>1, <4>2
    <3>6. dirty' = dirty
      BY <1>1 DEF window
    <3>7. QED
      BY <1>2, <1>3, <1>4, <3>5, <3>6 DEF InRoom
  <2>9. QED
    BY <1>1, <1>3, <1>4, <2>6, <2>7, <2>8 DEF IInv, Stopped, InConstruction, InLoop
<1>5. CASE /\ \/ next > NumSlots /\ UNCHANGED flash
              \/ /\ next <= NumSlots
                 /\ \E e \in Effects : Fails("payload", e) /\ ProgramPayload(active, next, l, cache[l], e)
           /\ pc' = "erase"
           /\ LeaveLoop
           /\ UNCHANGED next
  <2>1. UNCHANGED flash
    <3>1. ASSUME next <= NumSlots,
                 NEW e \in Effects, Fails("payload", e), ProgramPayload(active, next, l, cache[l], e)
          PROVE  UNCHANGED flash
      <4>1. e = "none"
        BY <3>1 DEF Fails, Tolerable, Effects
      <4>2. next \in Slots /\ active \in Bank
        BY <1>1, <3>1 DEF TypeOK, Slots
      <4>3. QED
        BY <1>1, <3>1, <4>1, <4>2, PayloadNone
    <3>2. QED
      BY <1>5, <3>1
  <2>2. Running'
    BY <1>1, <1>5, <2>1 DEF IInv, Running, Newest, Written, flash
  <2>3. QED
    BY <1>1, <1>5, <2>2, FallBack
<1>6. QED
  BY <1>4, <1>5 DEF FlushPayload, l

LEMMA FlushCommitKeeps ==
  ASSUME IInv, TypeOK', FlushCommit
  PROVE  IInv'
<1>1. /\ up /\ pc = "flushCommit" /\ Newest(active, next) /\ TypeOK /\ FlashType
      /\ UNCHANGED <<context, window>>
  BY FlashTypeOf DEF FlushCommit, IInv, Stopped, Running
<1>2. /\ active \in Bank
      /\ next \in 1 .. NumSlots + 1
      /\ next - 1 \in Slots
      /\ slot[active][next - 1].st = "open"
  BY <1>1, GeometryAssumption DEF IInv, InFlight, TypeOK, Slots
<1>3. PICK e \in Effects : ProgramCommit(active, next - 1, e)
  BY DEF FlushCommit, Effects
<1>4. /\ UNCHANGED <<hdr, bseq>>
      /\ \A c \in Bank, i \in Slots :
           \/ slot'[c][i].st = slot[c][i].st
           \/ c = active /\ i = next - 1 /\ slot'[c][i].st = "closed"
  BY <1>1, <1>2, <1>3, CommitDone
<1>5. Running'
  <2>1. next' = next /\ active' = active /\ seq' = seq
    BY <1>1 DEF context
  <2>2. /\ \A i \in 1 .. next - 1 : slot'[active][i].st \in {"torn", "open", "closed"}
        /\ \A i \in next .. NumSlots : slot'[active][i].st = "free"
    BY <1>1, <1>2, <1>4, GeometryAssumption DEF Newest, Written, Slots
  <2>3. bseq[active] = seq /\ pc' # "off"
    BY <1>1 DEF IInv, Running, FlushCommit
  <2>4. QED
    BY <1>1, <1>4, <2>1, <2>2, <2>3 DEF Running, Newest, Written
<1>6. CASE cursor' = cursor + 1 /\ pc' = "flush" /\ UNCHANGED copied
  <2>1. InRoom'
    <3>1. next + Cardinality({k \in dirty : k > cursor}) <= NumSlots + 1
      BY <1>1 DEF IInv, InRoom
    <3>2. {k \in dirty : k >= cursor + 1} = {k \in dirty : k > cursor}
      <4>1. cursor \in Nat /\ \A k \in dirty : k \in Nat
        BY <1>1, GeometryAssumption DEF TypeOK, Lines
      <4>2. \A k \in dirty : k >= cursor + 1 <=> k > cursor
        BY <4>1
      <4>3. QED
        BY <4>2
    <3>3. dirty' = dirty /\ next' = next
      BY <1>1 DEF window, context
    <3>4. {k \in dirty : k >= cursor}' = {k \in dirty : k > cursor}
      BY <1>6, <3>2, <3>3
    <3>5. QED
      BY <1>6, <3>1, <3>3, <3>4 DEF InRoom
  <2>2. QED
    BY <1>1, <1>5, <1>6, <2>1
       DEF IInv, Stopped, InConstruction, InFlight, InLoop, context
<1>7. CASE pc' = "erase" /\ LeaveLoop
  BY <1>1, <1>5, <1>7, FallBack DEF context
<1>8. QED
  BY <1>6, <1>7 DEF FlushCommit

\* A step of the construction: the store or its absence stays as it is.
LEMMA BuildKeeps ==
  ASSUME IInv, pc # "off", UNCHANGED <<context, window>>, Untouched(Other(Target)), NotRaised(Target),
         pc' \in {"header", "copy", "copyCommit", "activate"}, ~up => pc' \in {"header", "activate"}
  PROVE  Running' /\ Stopped' /\ Target' = Target /\ TargetSeq' = TargetSeq /\ up' = up
<1>1. /\ up' = up /\ active' = active /\ seq' = seq
      /\ Target' = Target /\ TargetSeq' = TargetSeq
  BY DEF context, Target, TargetSeq
<1>2. CASE up
  <2>1. Running'
    BY <1>2, RunningKept
  <2>2. QED
    BY <1>1, <1>2, <2>1 DEF Stopped
<1>3. CASE ~up
  <2>1. NeverFormatted'
    BY <1>3, TargetOf, NoneRaised DEF IInv, Stopped
  <2>2. QED
    BY <1>1, <1>3, <2>1 DEF Running, Stopped
<1>4. QED
  BY <1>2, <1>3

LEMMA EraseKeeps ==
  ASSUME IInv, TypeOK', Erase
  PROVE  IInv'
<1>1. pc = "erase" /\ FlashType /\ Target \in Bank /\ UNCHANGED <<context, window>>
  BY FlashTypeOf, TargetOf DEF Erase, IInv
<1>2. Untouched(Other(Target)) /\ NotRaised(Target)
  BY <1>1, EraseFrame DEF Erase, Effects
<1>3. CASE GiveUp
  BY <1>1, <1>2, <1>3, GiveUpKeeps
<1>4. CASE EraseBank(Target, "full") /\ pc' = "header" /\ UNCHANGED <<loop, req, reply>>
  <2>1. Running' /\ Stopped' /\ Target' = Target /\ TargetSeq' = TargetSeq /\ up' = up
    BY <1>1, <1>2, <1>4, BuildKeeps
  <2>2. hdr'[Target] = "erased" /\ \A i \in Slots : slot'[Target][i].st = "free"
    BY <1>1, <1>4 DEF EraseBank, FlashType, Marked
  <2>3. InConstruction'
    <3>1. \A i \in 1 .. NumSlots : slot'[Target][i].st = "free"
      BY <2>2 DEF Slots
    <3>2. \A i \in 1 .. 1 - 1 : FALSE
      OBVIOUS
    <3>3. QED
      BY <1>4, <2>1, <2>2, <3>1, <3>2 DEF InConstruction, Written
  <2>4. QED
    BY <1>1, <1>4, <2>1, <2>3 DEF IInv, InFlight, InLoop, InRoom, loop
<1>5. QED
  BY <1>3, <1>4 DEF Erase

LEMMA HeaderKeeps ==
  ASSUME IInv, TypeOK', Header
  PROVE  IInv'
<1>1. /\ pc = "header" /\ FlashType /\ Target \in Bank /\ TargetSeq \in Nat
      /\ UNCHANGED <<context, window>>
  BY FlashTypeOf, TargetOf, TargetType DEF Header, IInv
<1>2. Untouched(Other(Target)) /\ NotRaised(Target)
  BY <1>1, HeaderFrame DEF Header, Effects
<1>3. CASE GiveUp
  BY <1>1, <1>2, <1>3, GiveUpKeeps
<1>4. CASE /\ ProgramHeader(Target, TargetSeq, "full")
           /\ pc' = IF up THEN "copy" ELSE "activate"
           /\ UNCHANGED <<loop, req, reply>>
  <2>1. Running' /\ Stopped' /\ Target' = Target /\ TargetSeq' = TargetSeq /\ up' = up
    BY <1>1, <1>2, <1>4, BuildKeeps
  <2>2. hdr'[Target] = "prepare" /\ bseq'[Target] = TargetSeq /\ slot' = slot
    BY <1>1, <1>4 DEF ProgramHeader, FlashType
  <2>3. copied = 1 /\ copied' = 1 /\ cursor = 0 /\ cursor' = 0 /\ Written(Target, 1)
    BY <1>1, <1>4 DEF IInv, InLoop, InConstruction, loop
  <2>4. InConstruction'
    BY <1>4, <2>1, <2>2, <2>3 DEF InConstruction, Written
  <2>5. QED
    BY <1>1, <1>4, <2>1, <2>3, <2>4 DEF IInv, InFlight, InLoop, InRoom
<1>5. QED
  BY <1>3, <1>4 DEF Header

LEMMA CopyPayloadKeeps ==
  ASSUME IInv, TypeOK', CopyPayload
  PROVE  IInv'
<1> DEFINE l == First(ToCopy)
<1>1. /\ pc = "copy" /\ up /\ FlashType /\ Target \in Bank /\ TypeOK
      /\ UNCHANGED <<context, window>>
  BY FlashTypeOf, TargetOf DEF CopyPayload, IInv, Stopped
<1>2. l \in Lines /\ l >= cursor
  <2>1. ToCopy \in SUBSET Lines /\ ToCopy # {}
    BY DEF CopyPayload, ToCopy
  <2>2. l \in ToCopy
    BY <2>1, FirstOf
  <2>3. QED
    BY <2>1, <2>2 DEF ToCopy
<1>3. CASE GiveUp
  <2>1. Untouched(Other(Target)) /\ NotRaised(Target)
    <3>1. CASE UNCHANGED flash
      BY <3>1 DEF Untouched, NotRaised, flash
    <3>2. ASSUME NEW e \in Effects, ProgramPayload(Target, copied, l, LiveLine(l), e)
          PROVE  Untouched(Other(Target)) /\ NotRaised(Target)
      BY <1>1, <3>2, PayloadFrame
    <3>3. QED
      BY <3>1, <3>2 DEF CopyPayload, Effects
  <2>2. QED
    BY <1>1, <1>3, <2>1, GiveUpKeeps
<1> HIDE DEF l
<1>4. CASE /\ copied <= NumSlots
           /\ ProgramPayload(Target, copied, l, LiveLine(l), "full")
           /\ cursor' = l
           /\ copied' = copied + 1
           /\ pc' = "copyCommit"
           /\ UNCHANGED <<req, reply>>
  <2>1. Untouched(Other(Target)) /\ NotRaised(Target)
    BY <1>1, <1>4, PayloadFrame
  <2>2. Running' /\ Stopped' /\ Target' = Target /\ TargetSeq' = TargetSeq /\ up' = up
    BY <1>1, <1>4, <2>1, BuildKeeps
  <2>3. copied \in Slots /\ copied \in Nat
    BY <1>1, <1>4 DEF TypeOK, Slots
  <2>4. hdr[Target] = "prepare" /\ bseq[Target] = TargetSeq /\ Written(Target, copied)
    BY <1>1 DEF IInv, InConstruction
  <2>5. slot[Target][copied].st = "free"
    BY <2>3, <2>4 DEF Written, Slots
  <2>6. /\ UNCHANGED <<hdr, bseq>>
        /\ \A c \in Bank, i \in Slots :
             slot'[c][i].st = IF c = Target /\ i = copied THEN "open" ELSE slot[c][i].st
    BY <1>1, <1>4, <2>3, <2>5, PayloadFull
  <2>7. /\ \A i \in 1 .. copied : slot'[Target][i].st \in {"torn", "open", "closed"}
        /\ \A i \in copied + 1 .. NumSlots : slot'[Target][i].st = "free"
    BY <1>1, <2>3, <2>4, <2>6, GeometryAssumption DEF Written, Slots
  <2>8. copied' - 1 = copied /\ copied' > 1
    BY <1>4, <2>3 DEF Slots
  <2>9. InConstruction'
    BY <1>4, <2>2, <2>4, <2>6, <2>7, <2>8 DEF InConstruction, Written
  <2>10. InFlight'
    BY <1>1, <1>4, <2>2, <2>3, <2>6, <2>8 DEF InFlight
  <2>11. InLoop'
    <3>1. copied <= cursor + 1 /\ cursor \in Nat /\ l \in Nat
      BY <1>1, <1>2, GeometryAssumption DEF IInv, InLoop, TypeOK, Lines
    <3>2. copied' <= cursor' + 2
      BY <1>2, <1>4, <2>3, <3>1
    <3>3. QED
      BY <1>1, <1>2, <1>4, <2>2, <3>2 DEF InLoop
  <2>12. QED
    BY <1>4, <2>2, <2>9, <2>10, <2>11 DEF IInv, InRoom
<1>5. QED
  BY <1>3, <1>4 DEF CopyPayload, l

LEMMA CopyCommitKeeps ==
  ASSUME IInv, TypeOK', CopyCommit
  PROVE  IInv'
<1>1. /\ pc = "copyCommit" /\ up /\ FlashType /\ Target \in Bank /\ TypeOK
      /\ UNCHANGED <<context, window>>
  BY FlashTypeOf, TargetOf DEF CopyCommit, IInv, Stopped
<1>2. copied - 1 \in Slots /\ copied \in 1 .. NumSlots + 1 /\ slot[Target][copied - 1].st = "open"
  BY <1>1, GeometryAssumption DEF IInv, InFlight, TypeOK, Slots
<1>3. PICK e \in Effects : ProgramCommit(Target, copied - 1, e)
  BY DEF CopyCommit, Effects
<1>4. Untouched(Other(Target)) /\ NotRaised(Target)
  BY <1>1, <1>3, CommitFrame
<1>5. CASE GiveUp
  BY <1>1, <1>4, <1>5, GiveUpKeeps
<1>6. CASE cursor' = cursor + 1 /\ pc' = "copy" /\ UNCHANGED <<copied, req, reply>>
  <2>1. Running' /\ Stopped' /\ Target' = Target /\ TargetSeq' = TargetSeq /\ up' = up
    BY <1>1, <1>4, <1>6, BuildKeeps
  <2>2. /\ UNCHANGED <<hdr, bseq>>
        /\ \A c \in Bank, i \in Slots :
             \/ slot'[c][i].st = slot[c][i].st
             \/ c = Target /\ i = copied - 1 /\ slot'[c][i].st = "closed"
    BY <1>1, <1>2, <1>3, CommitDone
  <2>3. hdr[Target] = "prepare" /\ bseq[Target] = TargetSeq /\ Written(Target, copied)
    BY <1>1 DEF IInv, InConstruction
  <2>4. /\ \A i \in 1 .. copied - 1 : slot'[Target][i].st \in {"torn", "open", "closed"}
        /\ \A i \in copied .. NumSlots : slot'[Target][i].st = "free"
    BY <1>1, <1>2, <2>2, <2>3, GeometryAssumption DEF Written, Slots
  <2>5. InConstruction'
    BY <1>6, <2>1, <2>2, <2>3, <2>4 DEF InConstruction, Written
  <2>6. InLoop'
    <3>1. copied <= cursor + 2 /\ cursor \in Nat /\ copied \in Nat
      BY <1>1, <1>2, GeometryAssumption DEF IInv, InLoop, TypeOK
    <3>2. QED
      BY <1>1, <1>6, <2>1, <3>1 DEF InLoop
  <2>7. QED
    BY <1>6, <2>1, <2>5, <2>6 DEF IInv, InFlight, InRoom
<1>7. QED
  BY <1>5, <1>6 DEF CopyCommit

LEMMA CopyEndKeeps ==
  ASSUME IInv, TypeOK', CopyReadFails \/ CopyDone
  PROVE  IInv'
<1>1. pc = "copy" /\ up /\ UNCHANGED <<flash, context, window>>
  BY DEF CopyReadFails, CopyDone, IInv, Stopped
<1>2. Untouched(Other(Target)) /\ NotRaised(Target)
  BY <1>1 DEF Untouched, NotRaised, flash
<1>3. CASE GiveUp
  BY <1>1, <1>2, <1>3, GiveUpKeeps
<1>4. CASE pc' = "activate" /\ UNCHANGED loop
  <2>1. Running' /\ Stopped' /\ Target' = Target /\ TargetSeq' = TargetSeq /\ up' = up
    BY <1>1, <1>2, <1>4, BuildKeeps
  <2>2. QED
    BY <1>1, <1>4, <2>1
       DEF IInv, InConstruction, InFlight, InLoop, InRoom, Written, flash, loop
<1>5. QED
  BY <1>3, <1>4 DEF CopyReadFails, CopyDone

LEMMA ActivateKeeps ==
  ASSUME IInv, TypeOK', Tolerable, Activate
  PROVE  IInv'
<1>1. /\ pc = "activate" /\ FlashType /\ Target \in Bank /\ TypeOK
      /\ Target = IF up THEN Other(active) ELSE 0
  BY FlashTypeOf, TargetOf DEF Activate, IInv
<1>2. CASE /\ \E e \in Effects : Fails("activate", e) /\ ProgramState(Target, e)
           /\ GiveUp
           /\ UNCHANGED <<context, window>>
  <2>1. PICK e \in Effects : Fails("activate", e) /\ ProgramState(Target, e)
    BY <1>2
  <2>2. e # "full"
    BY <2>1 DEF Fails, Tolerable
  <2>3. Untouched(Other(Target)) /\ NotRaised(Target)
    BY <1>1, <2>1, <2>2, StateFrame
  <2>4. QED
    BY <1>1, <1>2, <2>3, GiveUpKeeps
<1>3. CASE ProgramState(Target, "full") /\ Switch /\ LeaveLoop /\ UNCHANGED <<req, reply>>
  <2>1. hdr' = [hdr EXCEPT ![Target] = "active"] /\ UNCHANGED <<bseq, slot>>
    BY <1>3 DEF ProgramState
  <2>2. bseq[Target] = TargetSeq /\ Written(Target, copied)
    BY <1>1 DEF IInv, InConstruction
  <2>3. next' = copied
    BY <1>1, <1>3 DEF IInv, InLoop, Switch
  <2>4. hdr[Other(Target)] = "active" => bseq[Other(Target)] < TargetSeq
    <3>1. CASE up
      <4>1. Other(Target) = active /\ bseq[active] = seq /\ seq \in Nat
        BY <1>1, <3>1, OtherBank DEF IInv, Running, TypeOK
      <4>2. QED
        BY <3>1, <4>1 DEF TargetSeq
    <3>2. CASE ~up
      BY <1>1, <3>2, OtherBank DEF IInv, Stopped, NeverFormatted
    <3>3. QED
      BY <3>1, <3>2
  <2>5. Running'
    <3>1. up' /\ active' = Target /\ seq' = TargetSeq /\ pc' # "off"
      BY <1>3 DEF Switch
    <3>2. hdr'[Target] = "active" /\ hdr'[Other(Target)] = hdr[Other(Target)]
      BY <1>1, <2>1, OtherBank DEF FlashType
    <3>3. QED
      BY <2>1, <2>2, <2>3, <2>4, <3>1, <3>2 DEF Running, Newest, Written
  <2>6. CASE up
    <3>1. dirty' = {} /\ pc' = "flush" /\ next' \in 1 .. NumSlots + 1
      BY <1>3, <2>6 DEF Switch, TypeOK
    <3>2. {l \in dirty : l >= cursor}' = {}
      BY <3>1
    <3>3. InRoom'
      BY <3>1, <3>2, FS_EmptySet, GeometryAssumption DEF InRoom
    <3>4. QED
      BY <1>3, <2>5, <3>1, <3>3
         DEF Switch, LeaveLoop, IInv, Stopped, InConstruction, InFlight, InLoop
  <2>7. CASE ~up
    BY <1>3, <2>5, <2>7
       DEF Switch, LeaveLoop, IInv, Stopped, InConstruction, InFlight, InLoop, InRoom
  <2>8. QED
    BY <2>6, <2>7
<1>4. QED
  BY <1>2, <1>3 DEF Activate

\* A cut of power in the middle of a port call keeps the store.
LEMMA PowerLossDurable ==
  ASSUME IInv, PowerLoss
  PROVE  (Durable => Durable') /\ (NeverFormatted => NeverFormatted')
<1>1. FlashType /\ TypeOK /\ Target \in Bank /\ "partial" \in Effects /\ "partial" # "full"
  BY FlashTypeOf, TargetOf DEF IInv, Effects
<1>2. CASE UNCHANGED flash
  BY <1>2 DEF Durable, Newest, Written, NeverFormatted, flash
<1>3. CASE HalfDone /\ pc \in {"erase", "header", "copy", "copyCommit", "activate"}
  <2>1. Untouched(Other(Target)) /\ NotRaised(Target)
    <3>1. CASE UNCHANGED flash
      BY <3>1 DEF Untouched, NotRaised, flash
    <3>2. CASE \/ EraseBank(Target, "partial")
               \/ ProgramHeader(Target, TargetSeq, "partial")
               \/ ProgramPayload(Target, copied, First(ToCopy), Blank, "partial")
               \/ ProgramCommit(Target, copied - 1, "partial")
               \/ ProgramState(Target, "partial")
      BY <1>1, <3>2, EraseFrame, HeaderFrame, PayloadFrame, CommitFrame, StateFrame
    <3>3. QED
      BY <1>3, <3>1, <3>2 DEF HalfDone
  <2>2. CASE up
    <3>1. Newest(active, next) /\ active \in Bank /\ next \in 1 .. NumSlots + 1 /\ ~NeverFormatted
      BY <2>2, StoreOf DEF NeverFormatted, Newest
    <3>2. Untouched(active) /\ NotRaised(Other(active))
      BY <1>1, <2>1, <2>2, TargetOf
    <3>3. \E b \in Bank, n \in 1 .. NumSlots + 1 : Newest(b, n)'
      BY <3>1, <3>2, StoreKept
    <3>4. QED
      BY <3>1, <3>3 DEF Durable
  <2>3. CASE ~up
    <3>1. NeverFormatted /\ ~Durable
      BY <1>3, <2>3 DEF IInv, Stopped, Durable, NeverFormatted, Newest
    <3>2. NeverFormatted'
      BY <1>1, <2>1, <3>1, NoneRaised
    <3>3. QED
      BY <3>1, <3>2
  <2>4. QED
    BY <2>2, <2>3
<1>4. CASE HalfDone /\ pc \in {"flush", "flushCommit"}
  <2>1. /\ Newest(active, next) /\ active \in Bank /\ next \in 1 .. NumSlots + 1
        /\ Written(active, next) /\ ~NeverFormatted
    BY <1>4, StoreOf DEF IInv, Stopped, NeverFormatted, Newest
  <2>2. CASE next <= NumSlots /\ ProgramPayload(active, next, First(ToFlush), Blank, "partial")
    <3>1. next \in Slots /\ next + 1 \in 1 .. NumSlots + 1
      BY <2>1, <2>2, GeometryAssumption DEF Slots
    <3>2. UNCHANGED <<hdr, bseq>> /\ slot' = [slot EXCEPT ![active][next] = Marked("torn")]
      BY <2>2 DEF ProgramPayload
    <3>3. \A i \in Slots : slot'[active][i].st = IF i = next THEN "torn" ELSE slot[active][i].st
      BY <1>1, <2>1, <3>1, <3>2 DEF FlashType, Marked
    <3>4. \A i \in 1 .. (next + 1) - 1 : slot'[active][i].st \in {"torn", "open", "closed"}
      BY <2>1, <3>1, <3>3, GeometryAssumption DEF Written, Slots
    <3>5. \A i \in next + 1 .. NumSlots : slot'[active][i].st = "free"
      BY <2>1, <3>1, <3>3, GeometryAssumption DEF Written, Slots
    <3>6. \E b \in Bank, n \in 1 .. NumSlots + 1 : Newest(b, n)'
      BY <2>1, <3>1, <3>2, <3>4, <3>5 DEF Newest, Written
    <3>7. QED
      BY <2>1, <3>6 DEF Durable
  <2>3. CASE pc = "flushCommit" /\ ProgramCommit(active, next - 1, "partial")
    <3>1. UNCHANGED <<hdr, bseq>> /\ slot' = [slot EXCEPT ![active][next - 1] = slot[active][next - 1]]
      BY <2>3 DEF ProgramCommit
    <3>2. [slot EXCEPT ![active][next - 1] = slot[active][next - 1]] = slot
      BY <1>1 DEF FlashType
    <3>3. QED
      BY <1>2, <3>1, <3>2 DEF flash
  <2>4. QED
    BY <1>2, <1>4, <2>2, <2>3 DEF HalfDone
<1>5. QED
  BY <1>2, <1>3, <1>4 DEF PowerLoss, HalfDone, IInv, TypeOK, Places

LEMMA PowerLossKeeps ==
  ASSUME IInv, TypeOK', PowerLoss
  PROVE  IInv'
<1>1. NeverFormatted \/ Durable
  BY StoreOf DEF IInv, Stopped
<1>2. QED
  BY <1>1, PowerLossDurable, OffKeeps DEF PowerLoss

LEMMA IInvNext ==
  ASSUME IInv, Tolerable, [Next]_vars
  PROVE  IInv'
<1>1. TypeOK'
  BY ITypeOf, NextType DEF IType
<1>2. CASE UNCHANGED vars
  BY <1>1, <1>2
     DEF vars, flash, context, window, loop, IInv, Running, Stopped, InConstruction, InFlight,
         InLoop, InRoom, Newest, Written, NeverFormatted, Durable, Target, TargetSeq
<1>3. CASE Next
  BY <1>1, <1>3, BootKeeps, ServeKeeps, DeinitKeeps, CapacityKeeps, FlushDoneKeeps,
     FlushPayloadKeeps, FlushCommitKeeps, EraseKeeps, HeaderKeeps, CopyPayloadKeeps,
     CopyCommitKeeps, CopyEndKeeps, ActivateKeeps, PowerLossKeeps DEF Next, Step
<1>4. QED
  BY <1>2, <1>3

(***************************************************************************)
(* With a tolerable port the inductive invariant holds: at every step of   *)
(* init, flush_cache and checkpoint, the newest active bank is written     *)
(* slot by slot and the other bank is older or not active.                 *)
(***************************************************************************)
THEOREM StoreConsistent ==
  ASSUME Tolerable
  PROVE  Spec => []IInv
<1>1. Init => IInv
  BY IInvInit
<1>2. IInv /\ [Next]_vars => IInv'
  BY IInvNext
<1>3. QED
  BY <1>1, <1>2, PTL DEF Spec

(***************************************************************************)
(* While the backend runs, a reboot would choose the bank it appends to,   *)
(* under the same sequence number and at the same slot: init recomputes    *)
(* what the RAM context held, after any history of failures and cuts.      *)
(***************************************************************************)
THEOREM RebootAgreement ==
  ASSUME Tolerable
  PROVE  Spec => []RebootAgrees
<1>1. IInv => RebootAgrees
  BY StoreOf, NewestBoots DEF IInv, Running, RebootAgrees
<1>2. QED
  BY <1>1, StoreConsistent, PTL

(***************************************************************************)
(* append_record only programs slots that were never touched since their   *)
(* bank was erased, however many appends failed or were cut before.        *)
(***************************************************************************)
THEOREM AppendsAreClean ==
  ASSUME Tolerable
  PROVE  Spec => []AppendsOnErasedSlot
<1>1. IInv => AppendsOnErasedSlot
  <2>1. SUFFICES ASSUME IInv PROVE AppendsOnErasedSlot
    OBVIOUS
  <2>2. pc = "flush" /\ next <= NumSlots => slot[active][next].st = "free"
    <3>1. SUFFICES ASSUME pc = "flush", next <= NumSlots PROVE slot[active][next].st = "free"
      OBVIOUS
    <3>2. Written(active, next) /\ next \in next .. NumSlots
      BY <2>1, <3>1, GeometryAssumption DEF IInv, Stopped, Running, Newest, TypeOK
    <3>3. QED
      BY <3>2 DEF Written
  <2>3. pc = "copy" /\ copied <= NumSlots => slot[Target][copied].st = "free"
    <3>1. SUFFICES ASSUME pc = "copy", copied <= NumSlots PROVE slot[Target][copied].st = "free"
      OBVIOUS
    <3>2. Written(Target, copied) /\ copied \in copied .. NumSlots
      BY <2>1, <3>1, GeometryAssumption DEF IInv, InConstruction, TypeOK
    <3>3. QED
      BY <3>2 DEF Written
  <2>4. QED
    BY <2>2, <2>3 DEF AppendsOnErasedSlot
<1>2. QED
  BY <1>1, StoreConsistent, PTL

(***************************************************************************)
(* The capacity checks of flush_cache and checkpoint never fire: the room  *)
(* that ensure_capacity found lasts for all dirty lines, and a bank that   *)
(* validate_geometry accepted holds a checkpoint of every line.            *)
(***************************************************************************)
THEOREM RoomSuffices ==
  ASSUME Tolerable
  PROVE  Spec => []RoomForAppends
<1>1. IInv => RoomForAppends
  <2>1. SUFFICES ASSUME IInv PROVE RoomForAppends
    OBVIOUS
  <2>2. ASSUME pc = "flush", ToFlush # {} PROVE next <= NumSlots
    <3>1. IsFiniteSet(ToFlush)
      <4>1. IsFiniteSet(Lines)
        BY FS_Interval, GeometryAssumption DEF Lines
      <4>2. ToFlush \in SUBSET Lines
        BY <2>1 DEF ToFlush, IInv, TypeOK
      <4>3. QED
        BY <4>1, <4>2, FS_Subset
    <3>2. Cardinality(ToFlush) \in Nat /\ Cardinality(ToFlush) # 0
      BY <2>2, <3>1, FS_CardinalityType, FS_EmptySet
    <3>3. next + Cardinality(ToFlush) <= NumSlots + 1 /\ next \in 1 .. NumSlots + 1
      BY <2>1, <2>2 DEF IInv, InRoom, ToFlush, TypeOK
    <3>4. QED
      BY <3>2, <3>3, GeometryAssumption
  <2>3. ASSUME pc = "copy", ToCopy # {} PROVE copied <= NumSlots
    <3>1. copied <= cursor + 1 /\ cursor \in 0 .. NumLines /\ copied \in 1 .. NumSlots + 1
      BY <2>1, <2>3 DEF IInv, InLoop, TypeOK
    <3>2. PICK l \in Lines : l >= cursor
      BY <2>3 DEF ToCopy
    <3>3. QED
      BY <3>1, <3>2, GeometryAssumption DEF Lines
  <2>4. QED
    BY <2>2, <2>3 DEF RoomForAppends
<1>2. QED
  BY <1>1, StoreConsistent, PTL

\* A bank that can be mounted is, or will be found to be, the store.
LEMMA RecoverableDurable ==
  ASSUME IInv
  PROVE  Recoverable <=> Durable
<1>1. Recoverable => ~NeverFormatted
  BY DEF Recoverable, ValidBank, NeverFormatted, Bank
<1>2. ~NeverFormatted => Durable
  BY StoreOf DEF IInv, Stopped
<1>3. Durable => Recoverable
  <2>1. ASSUME NEW b \in Bank, ValidBank(b) PROVE Recoverable
    BY <2>1 DEF Recoverable, Bank
  <2>2. QED
    BY <2>1, NewestBoots DEF IInv, Durable
<1>4. QED
  BY <1>1, <1>2, <1>3

\* No step loses the store.
LEMMA DurableKept ==
  ASSUME IInv, IInv', Durable, [Next]_vars
  PROVE  Durable'
<1>1. CASE up'
  BY <1>1 DEF IInv, Running, Durable, TypeOK
<1>2. CASE UNCHANGED flash
  BY <1>2 DEF Durable, Newest, Written, flash
<1>3. CASE PowerLoss
  BY <1>3, PowerLossDurable
<1>4. CASE ~up' /\ (Erase \/ Header \/ Activate)
  <2>1. ~up /\ pc # "off"
    BY <1>4 DEF Erase, Header, Activate, Switch, context
  <2>2. NeverFormatted /\ ~NeverFormatted
    BY <2>1 DEF IInv, Stopped, Durable, Newest, NeverFormatted
  <2>3. QED
    BY <2>2
<1>5. CASE ~up' /\ (FlushPayload \/ FlushCommit \/ CopyPayload \/ CopyCommit)
  <2>1. ~up /\ pc \in {"flush", "flushCommit", "copy", "copyCommit"}
    BY <1>5 DEF FlushPayload, FlushCommit, CopyPayload, CopyCommit, context
  <2>2. QED
    BY <2>1 DEF IInv, Stopped
<1>6. QED
  BY <1>1, <1>2, <1>3, <1>4, <1>5
     DEF Next, Step, vars, Boot, Scan, Mount, BeginWrite, BeginSync, BeginDeinit, Begin, Read,
         StageChunk, LeaveDirty, LoadForStage, CommitStaged, Finish, FinishDeinit, EnsureCapacity,
         FlushDone, CopyReadFails, CopyDone

(***************************************************************************)
(* Once a bank has been activated, no failure that Tolerable allows and no *)
(* cut of power, at any point of init, flush_cache or checkpoint, leaves   *)
(* both banks unmountable: init never formats a store away.                *)
(***************************************************************************)
THEOREM StoreNeverLost ==
  ASSUME Tolerable
  PROVE  Spec => NeverUnrecoverable
<1>1. IInv => (Recoverable <=> Durable)
  BY RecoverableDurable
<1>2. IInv /\ IInv' /\ [Next]_vars => (Durable => Durable')
  BY DurableKept
<1>3. QED
  BY <1>1, <1>2, StoreConsistent, PTL DEF Spec, NeverUnrecoverable
=============================================================================

------------------------ MODULE ParCoreValuesProofs -------------------------
(* The core implements ParValues: every parameter is one register, for     *)
(* every table, every number of threads and every legal sequence of calls. *)
EXTENDS ParCoreProofs

\* The registers, as the refinement mapping of ParCore has them.
Val == [p \in Params |-> IF ~is_init THEN Default[p]
                         ELSE IF p \in Objects THEN whole[p]
                         ELSE LiveScalar(p)]

\* Values stay in range: every cell but an F32 from the start, F32 cells and
\* the mirror from par_init on.  The object mirrors are the defaults.
RangeInv ==
    /\ \A p \in Scalars : Table[p].type # "F32" \/ is_init => Legal(p, LiveScalar(p))
    /\ is_init => /\ \A p \in Scalars : Legal(p, mirror.store[Cell[p]])
                  /\ mirror.pool = DefaultPool /\ mirror.len = DefaultLen

\* No call is between two writes of the object.
Settled(p) == \A t \in Threads : /\ ~On(t, p, "copy") /\ ~On(t, p, "commit")
                                 /\ pc[t] # "slots"

\* Objects are whole in RAM when nobody writes them, and always in NVM.
PayloadInv ==
    /\ whole \in [Objects -> Seq(Nat)]
    /\ \A p \in Objects : whole[p] \in Values(p) /\ nvm[p] \in Values(p)
    /\ is_init => \A p \in Objects : Settled(p) => Live(p) = whole[p]
    /\ \A t \in Threads : pc[t] = "slots" => pool = DefaultPool
    /\ \A t \in Threads : pc[t] = "copyOut" => seen[t].old = len[job[t].p]

-----------------------------------------------------------------------------
(* Ranges.                                                                 *)

\* What the setters store, and the defaults, are in range.
LEMMA LegalFacts ==
  ASSUME NEW p \in Params
  PROVE  /\ Legal(p, Default[p])
         /\ p \in Scalars => \A v \in Int : Legal(p, Clamped(p, v))
         /\ p \in Objects => \A v \in Values(p) : Legal(p, v)
<1>1. CASE p \in Scalars
  BY <1>1, RangeAssumption DEF Legal, Clamped, Scalars, Default
<1>2. CASE p \in Objects
  BY <1>2, ObjectFacts DEF Legal, Values, Scalars
<1> QED BY <1>1, <1>2, ParamsFacts

\* The owner of a scalar's cell is the scalar.
LEMMA OwnCell ==
  ASSUME NEW p \in Scalars
  PROVE  Cell[p] \in Cells /\ (CHOOSE q \in Scalars : Cell[q] = Cell[p]) = p
  BY LayoutGivesCells, ScalarFacts DEF CellsApart

\* A store of a value in range.
LEMMA StoreKeepsRange ==
  ASSUME DataInv, RangeInv, UNCHANGED <<is_init, mirror>>,
         NEW p \in Scalars, NEW v, Legal(p, v), StoreCell(p, v)
  PROVE  RangeInv'
<1>1. LiveScalar(p)' = v /\ \A q \in Scalars : q # p => LiveScalar(q)' = LiveScalar(q)
  BY StoreEffect
<1>2. ASSUME NEW q \in Scalars, Table[q].type # "F32" \/ is_init
      PROVE  Legal(q, LiveScalar(q)')
  BY <1>1, <1>2 DEF RangeInv
<1> QED BY <1>2 DEF RangeInv

\* Steps that store nothing.
LEMMA RangeFrame ==
  ASSUME RangeInv, UNCHANGED <<is_init, store, mirror>>
  PROVE  RangeInv'
  BY DEF RangeInv, LiveScalar

\* A step of a call stores nothing, or one value in range.
LEMMA StepStores ==
  ASSUME ControlInv, DataInv, RangeInv, NEW t \in Threads, Step(t)
  PROVE  /\ UNCHANGED <<is_init, mirror>>
         /\ \/ UNCHANGED store
            \/ \E p \in Scalars, v \in Int :
                  Legal(p, v) /\ StoreCell(p, v) /\ UNCHANGED <<whole, got>>
<1> USE DEF live, obs
<1>0. Shape(pc[t], job[t]) /\ job[t].p \in Params
      /\ (pc[t] # "idle" => is_init)
  BY DEF ControlInv, Jobs
<1>1. CASE StoreScalar(t)
  <2>1. job[t].p \in Scalars /\ job[t].arg \in Int
    BY <1>0, <1>1 DEF StoreScalar, Shape
  <2>2. /\ Legal(job[t].p, Clamped(job[t].p, job[t].arg))
        /\ Clamped(job[t].p, job[t].arg) \in Int
    BY <1>0, <2>1, LegalFacts, ScalarFacts
  <2>3. /\ StoreCell(job[t].p, Clamped(job[t].p, job[t].arg))
        /\ UNCHANGED <<is_init, mirror, whole, got>>
    BY <1>1 DEF StoreScalar
  <2> QED BY <2>1, <2>2, <2>3
<1>2. CASE StoreDefault(t)
  <2>1. job[t].p \in Scalars /\ job[t].arg = Default[job[t].p]
    BY <1>0, <1>2 DEF StoreDefault, Shape
  <2>2. job[t].arg \in Int
    BY <2>1, ScalarFacts
  <2>3. /\ Legal(job[t].p, Clamped(job[t].p, job[t].arg))
        /\ Clamped(job[t].p, job[t].arg) \in Int
    BY <1>0, <2>1, <2>2, LegalFacts, ScalarFacts
  <2>4. /\ StoreCell(job[t].p, Clamped(job[t].p, job[t].arg))
        /\ UNCHANGED <<is_init, mirror, whole, got>>
    BY <1>2 DEF StoreDefault
  <2> QED BY <2>1, <2>3, <2>4
<1>3. CASE ResetCell(t)
  <2>1. PICK p \in job[t].arg : StoreCell(p, mirror.store[Cell[p]])
    BY <1>3 DEF ResetCell
  <2>2. p \in Scalars
    BY <1>0, <1>3, <2>1 DEF ResetCell, Shape
  <2>3. mirror.store[Cell[p]] \in Int
    BY <2>2, ScalarFacts DEF DataInv, Mirrors
  <2>4. Legal(p, mirror.store[Cell[p]])
    BY <1>0, <1>3, <2>2 DEF ResetCell, RangeInv
  <2>5. UNCHANGED <<is_init, mirror, whole, got>>
    BY <1>3 DEF ResetCell
  <2> QED BY <2>1, <2>2, <2>3, <2>4, <2>5
<1>4. CASE \/ MutexTimeout(t) \/ AcquireForSet(t) \/ Reread(t)
           \/ NotifyAndRelease(t) \/ SaveRead(t) \/ SaveWrite(t)
           \/ AcquireForDefault(t) \/ AcquireForSetObject(t)
  BY <1>4 DEF MutexTimeout, AcquireForSet, Reread, NotifyAndRelease, SaveRead,
              SaveWrite, AcquireForDefault, AcquireForSetObject
<1>5. CASE \/ ClearWindow(t) \/ CopyPayload(t) \/ CommitLen(t)
           \/ AcquireForSave(t) \/ SaveObject(t) \/ AcquireForGet(t)
           \/ CopyOut(t) \/ AcquireForReset(t) \/ ResetPool(t) \/ ResetSlots(t)
  BY <1>5 DEF ClearWindow, CopyPayload, CommitLen, AcquireForSave, SaveObject,
              AcquireForGet, CopyOut, AcquireForReset, ResetPool, ResetSlots
<1> QED BY <1>1, <1>2, <1>3, <1>4, <1>5 DEF Step

\* A call that finishes at once stores nothing, or one value in range.
LEMMA CallStores ==
  ASSUME ControlInv, DataInv, RangeInv, NEW t \in Threads, CallSomething(t)
  PROVE  /\ UNCHANGED <<is_init, mirror, whole, got>>
         /\ \/ UNCHANGED store
            \/ /\ is_init
               /\ \E p \in Scalars, v \in Int : Legal(p, v) /\ StoreCell(p, v)
<1> USE DEF live, obs
<1>1. CASE SetFast(t)
  <2>1. PICK p \in Scalars : \E v \in Inputs[p] : StoreCell(p, Clamped(p, v))
    BY <1>1 DEF SetFast
  <2>2. PICK v \in Inputs[p] : StoreCell(p, Clamped(p, v))
    BY <2>1
  <2>3. Legal(p, Clamped(p, v)) /\ Clamped(p, v) \in Int
    BY InputsAssumption, LegalFacts, ScalarFacts, ParamsFacts
  <2> QED BY <1>1, <2>2, <2>3 DEF SetFast
<1>2. CASE SetBits(t)
  <2>1. PICK p \in BitPars, v \in Words, new \in Words : StoreCell(p, new)
    BY <1>2 DEF SetBits
  <2>2. p \in Scalars /\ new \in Int /\ Legal(p, new)
    BY InputsAssumption DEF Words, Legal, Scalars
  <2> QED BY <1>2, <2>1, <2>2 DEF SetBits
<1>3. CASE Refused(t)
  BY <1>3 DEF Refused, Refuse
<1>4. CASE Accepted(t)
  BY <1>4 DEF Accepted, Begin
<1> QED BY <1>1, <1>2, <1>3, <1>4, CallCases

\* par_init: mirror and cells are in range whatever is restored.
LEMMA InitRange ==
  ASSUME ControlInv, DataInv, RangeInv, par_init
  PROVE  RangeInv' /\ \A p \in Scalars : Legal(p, LiveScalar(p)')
<1>1. PICK from \in {"nvm", "table", "nothing"} :
         store' = [c \in Cells |->
            LET p == CHOOSE q \in Scalars : Cell[q] = c
            IN  IF Table[p].pers /\ from # "nothing"
                THEN Clamped(p, IF from = "nvm" THEN nvm[p] ELSE Default[p])
                ELSE PatchedStore[c]]
  BY DEF par_init
<1>2. ASSUME NEW p \in Scalars
      PROVE  Legal(p, PatchedStore[Cell[p]])
  <2>1. PatchedStore[Cell[p]] = IF Table[p].type = "F32" THEN Default[p]
                                ELSE LiveScalar(p)
    BY OwnCell DEF PatchedStore, LiveScalar
  <2> QED BY <2>1, LegalFacts, ParamsFacts DEF RangeInv
<1>3. ASSUME NEW p \in Scalars
      PROVE  Legal(p, LiveScalar(p)')
  <2> DEFINE v == IF from = "nvm" THEN nvm[p] ELSE Default[p]
  <2>1. v \in Int
    BY ScalarFacts DEF DataInv, Nvms
  <2>2. LiveScalar(p)' = IF Table[p].pers /\ from # "nothing"
                         THEN Clamped(p, v) ELSE PatchedStore[Cell[p]]
    BY <1>1, OwnCell DEF LiveScalar
  <2> HIDE DEF v
  <2>3. Legal(p, Clamped(p, v))
    BY <2>1, LegalFacts, ParamsFacts
  <2> QED BY <1>2, <2>2, <2>3
<1>4. mirror' = [store |-> PatchedStore, pool |-> DefaultPool, len |-> DefaultLen]
  BY DEF par_init
<1> QED BY <1>2, <1>3, <1>4 DEF RangeInv

\* The loader's cells are in range, but for the F32 ones.
LEMMA LoadedRange ==
  ASSUME NEW p \in Scalars, Table[p].type # "F32"
  PROVE  Legal(p, LoadedStore[Cell[p]])
<1>1. LoadedStore[Cell[p]] = Default[p]
  BY OwnCell DEF LoadedStore
<1> QED BY <1>1, LegalFacts, ParamsFacts

\* Ranges hold at the start.
LEMMA InitRangeInv == Init => RangeInv
  BY LoadedRange DEF Init, RangeInv, LiveScalar

\* Every step keeps the ranges.
LEMMA NextKeepsRange == CoreInv /\ RangeInv /\ [Next]_vars => RangeInv'
<1> SUFFICES ASSUME CoreInv, RangeInv, [Next]_vars PROVE RangeInv'
  OBVIOUS
<1>0. ControlInv /\ DataInv
  BY DEF CoreInv
<1>1. ASSUME NEW t \in Threads, Step(t) PROVE RangeInv'
  BY <1>0, <1>1, StepStores, StoreKeepsRange, RangeFrame
<1>2. ASSUME NEW t \in Threads, CallSomething(t) PROVE RangeInv'
  BY <1>0, <1>2, CallStores, StoreKeepsRange, RangeFrame
<1>3. CASE par_init
  BY <1>0, <1>3, InitRange
<1>4. CASE par_deinit
  BY <1>4 DEF par_deinit, live, RangeInv, LiveScalar
<1>5. CASE Reboot
  BY <1>5, LoadedRange DEF Reboot, RangeInv, LiveScalar
<1>6. CASE UNCHANGED vars
  BY <1>6, RangeFrame DEF vars, live
<1> QED BY <1>1, <1>2, <1>3, <1>4, <1>5, <1>6 DEF Next

-----------------------------------------------------------------------------
(* Whole payloads.                                                         *)

\* The places where an object is between two writes, or being read out.
Exposed == {"copy", "commit", "slots"}

\* A step of a call that writes no object.
LEMMA PayloadInvFrame ==
  ASSUME ControlInv, PayloadInv, NEW t \in Threads, NEW at, NEW j,
         pc' = [pc EXCEPT ![t] = at], job' = [job EXCEPT ![t] = j],
         pc[t] \notin Exposed, at # "slots",
         at = "copyOut" => seen'[t].old = len[j.p],
         \A u \in Threads \ {t} : seen'[u] = seen[u],
         UNCHANGED <<is_init, pool, len, whole>>,
         \A p \in Objects : nvm'[p] = nvm[p] \/ nvm'[p] \in Values(p)
  PROVE  PayloadInv'
<1>1. /\ pc'[t] = at /\ job'[t] = j
      /\ \A u \in Threads \ {t} : pc'[u] = pc[u] /\ job'[u] = job[u]
  BY DEF ControlInv
<1>2. ASSUME NEW p \in Objects, is_init, Settled(p)' PROVE Live(p)' = whole[p]
  <2>1. Settled(p)
    BY <1>1, <1>2 DEF Settled, On, Exposed
  <2>2. Live(p)' = Live(p)
    BY <1>2 DEF Live, Payload
  <2> QED BY <1>2, <2>1, <2>2 DEF PayloadInv
<1>3. \A u \in Threads : pc'[u] = "slots" => pool' = DefaultPool
  BY <1>1 DEF PayloadInv
<1>4. \A u \in Threads : pc'[u] = "copyOut" => seen'[u].old = len'[job'[u].p]
  BY <1>1 DEF PayloadInv
<1>5. \A p \in Objects : whole'[p] \in Values(p) /\ nvm'[p] \in Values(p)
  BY DEF PayloadInv
<1> QED BY <1>2, <1>3, <1>4, <1>5 DEF PayloadInv

\* With every thread idle only the values are left to look at.
LEMMA RestPayloads ==
  ASSUME \A t \in Threads : pc'[t] = "idle", whole' \in [Objects -> Seq(Nat)],
         \A p \in Objects : /\ whole'[p] \in Values(p) /\ nvm'[p] \in Values(p)
                            /\ is_init' => Live(p)' = whole'[p]
  PROVE  PayloadInv'
  BY DEF PayloadInv

\* The owner of the mutex writes: what is left to look at is where it stands.
LEMMA OwnerKeepsPayloads ==
  ASSUME PayloadInv, NEW t \in Threads,
         \A u \in Threads \ {t} : pc'[u] \notin Holding,
         whole' \in [Objects -> Seq(Nat)],
         \A p \in Objects :
            /\ whole'[p] \in Values(p) /\ nvm'[p] \in Values(p)
            /\ is_init' /\ Settled(p)' => Live(p)' = whole'[p],
         pc'[t] = "slots" => pool' = DefaultPool,
         pc'[t] # "copyOut"
  PROVE  PayloadInv'
<1>1. \A u \in Threads \ {t} : pc'[u] # "slots" /\ pc'[u] # "copyOut"
  BY DEF Holding
<1> QED BY <1>1 DEF PayloadInv

\* While a call stands at a place that needs the mutex, an object it does not
\* write is settled.
LEMMA OthersSettled ==
  ASSUME OneMutex, ControlInv, NEW t \in Threads, pc[t] \in Holding,
         NEW p \in Objects,
         ~On(t, p, "copy"), ~On(t, p, "commit"), pc[t] # "slots"
  PROVE  Settled(p)
<1>1. ASSUME NEW u \in Threads, u # t PROVE pc[u] \notin Holding
  BY <1>1, OneAtWork
<1> QED BY <1>1 DEF Settled, On, Holding

\* Clearing, copying and committing disturb the object they are for only, and
\* leave it whole.
LEMMA WriterKeepsPayloads ==
  ASSUME OneMutex, ControlInv, ControlInv', DataInv, DataInv', ObjectInv,
         PayloadInv, NEW t \in Threads,
         ClearWindow(t) \/ CopyPayload(t) \/ CommitLen(t)
  PROVE  PayloadInv'
<1> USE DEF live, obs
<1>0. /\ Step(t) /\ pc[t] \in Holding /\ is_init
      /\ pc[t] \in {"clear", "copy", "commit"}
  BY DEF Step, ClearWindow, CopyPayload, CommitLen, Holding, ControlInv
<1>1. PICK at, j : Moves(t, at, j)
  BY <1>0, StepMoves
<1>2. \A u \in Threads \ {t} : pc'[u] = pc[u] /\ pc'[u] \notin Holding
  BY <1>0, <1>1, OthersRest
<1> DEFINE o == job[t].p
           arg == job[t].arg
<1>3. /\ o \in Objects /\ arg \in Values(o) /\ arg \in Stored(o)
      /\ arg \in Seq(Nat)
  BY <1>0, CarriedPayload
<1>4. /\ PoolOff[o] \in Nat /\ max_len(Table[o]) \in Nat
      /\ Len(arg) \in Nat /\ Len(arg) =< max_len(Table[o])
  BY <1>3, ObjectFacts DEF Stored
<1>5. ASSUME NEW p \in Objects, p # o PROVE Live(p) = whole[p]
  <2>1. Settled(p)
    BY <1>0, <1>5, OthersSettled DEF On
  <2> QED BY <1>0, <2>1 DEF PayloadInv
<1>6. ASSUME NEW p \in Objects, p # o, NEW a \in Window[p]
      PROVE  a \in Pool /\ a \notin Window[o]
  BY <1>3, <1>6, DisjointWindows DEF Pool
<1>7. /\ whole \in [Objects -> Seq(Nat)]
      /\ \A p \in Objects : whole[p] \in Values(p) /\ nvm[p] \in Values(p)
  BY DEF PayloadInv
<1>8. CASE ClearWindow(t)
  <2>1. /\ pc'[t] = "copy" /\ job' = job /\ UNCHANGED <<len, nvm, whole>>
        /\ pool' = [a \in Pool |-> IF a \in Window[o] THEN 0 ELSE pool[a]]
    BY <1>8 DEF ClearWindow, Goto, ControlInv
  <2>2. ASSUME NEW p \in Objects, Settled(p)' PROVE Live(p)' = whole'[p]
    <3>1. p # o
      BY <2>1, <2>2 DEF Settled, On
    <3>2. \A a \in Window[p] : pool'[a] = pool[a]
      BY <1>6, <2>1, <3>1
    <3>3. Live(p)' = Live(p)
      BY <2>1, <3>2, PayloadFrame
    <3> QED BY <1>5, <2>1, <3>1, <3>3
  <2> QED BY <1>2, <1>7, <2>1, <2>2, OwnerKeepsPayloads
<1>9. CASE CopyPayload(t)
  <2>1. /\ pc'[t] = "commit" /\ job' = job /\ UNCHANGED <<len, nvm, whole>>
        /\ pool' = [a \in Pool |->
                      IF a - PoolOff[o] \in 0 .. Len(arg) - 1
                      THEN arg[a - PoolOff[o] + 1] ELSE pool[a]]
    BY <1>9 DEF CopyPayload, Goto, ControlInv
  <2>2. ASSUME NEW p \in Objects, Settled(p)' PROVE Live(p)' = whole'[p]
    <3>1. p # o
      BY <2>1, <2>2 DEF Settled, On
    <3>2. ASSUME NEW a \in Window[p] PROVE pool'[a] = pool[a]
      <4>1. a \in Pool /\ a \notin Window[o] /\ a \in Int
        BY <1>6, <3>1, ByteOwner
      <4>2. a - PoolOff[o] \notin 0 .. max_len(Table[o]) - 1
        <5>1. PoolOff[o] + (a - PoolOff[o]) = a
          BY <1>4, <4>1
        <5> QED BY <1>3, <4>1, <5>1 DEF Window
      <4>3. a - PoolOff[o] \notin 0 .. Len(arg) - 1
        BY <1>4, <4>1, <4>2
      <4> QED BY <2>1, <4>1, <4>3
    <3>3. Live(p)' = Live(p)
      BY <2>1, <3>2, PayloadFrame
    <3> QED BY <1>5, <2>1, <3>1, <3>3
  <2> QED BY <1>2, <1>7, <2>1, <2>2, OwnerKeepsPayloads
<1>10. CASE CommitLen(t)
  <2>1. /\ pc'[t] \in {"saveObject", "idle"} /\ UNCHANGED <<pool, nvm>>
        /\ len' = [len EXCEPT ![o] = Len(arg)]
        /\ whole' = [whole EXCEPT ![o] = arg] /\ pc[t] = "commit"
    BY <1>10 DEF CommitLen, Goto, Done, ControlInv
  <2>2. len'[o] = Len(arg) /\ \A p \in Objects : p # o => len'[p] = len[p]
    BY <1>3, <2>1 DEF DataInv, Lengths
  <2>3. /\ whole' \in [Objects -> Seq(Nat)] /\ whole'[o] = arg
        /\ \A p \in Objects : p # o => whole'[p] = whole[p]
    BY <1>3, <1>7, <2>1
  <2>4. \A i \in 1 .. Len(arg) : pool[PoolOff[o] + i - 1] = arg[i]
    BY <1>3, <2>1 DEF ObjectInv, ObjectSaved, On
  <2>5. ASSUME NEW p \in Objects, p = o PROVE Live(p)' = arg
    <3>1. Live(p)' = [i \in 1 .. Len(arg) |-> arg[i]]
      BY <2>1, <2>2, <2>4, <2>5 DEF Live, Payload
    <3> QED BY <1>3, <3>1
  <2>6. ASSUME NEW p \in Objects PROVE Live(p)' = whole'[p] /\ whole'[p] \in Values(p)
    <3>1. CASE p = o
      BY <1>3, <2>3, <2>5, <3>1
    <3>2. CASE p # o
      <4>1. Live(p)' = Live(p)
        BY <2>1, <2>2, <3>2, PayloadFrame
      <4> QED BY <1>5, <1>7, <2>3, <3>2, <4>1
    <3> QED BY <3>1, <3>2
  <2>7. pc'[t] # "slots" /\ pc'[t] # "copyOut"
    BY <2>1
  <2> HIDE DEF o, arg
  <2> QED BY <1>2, <1>7, <2>1, <2>3, <2>6, <2>7, OwnerKeepsPayloads
<1> QED BY <1>8, <1>9, <1>10

\* The raw reset puts the defaults of all objects in place, whole.
LEMMA ResetKeepsPayloads ==
  ASSUME OneMutex, ControlInv, ControlInv', DataInv, RangeInv, PayloadInv,
         NEW t \in Threads, ResetPool(t) \/ ResetSlots(t)
  PROVE  PayloadInv'
<1> USE DEF live, obs
<1>0. Step(t) /\ pc[t] \in Holding /\ is_init
  BY DEF Step, ResetPool, ResetSlots, Holding, ControlInv
<1>1. PICK at, j : Moves(t, at, j)
  BY <1>0, StepMoves
<1>2. \A u \in Threads \ {t} : pc'[u] = pc[u] /\ pc'[u] \notin Holding
  BY <1>0, <1>1, OthersRest
<1>3. mirror.pool = DefaultPool /\ mirror.len = DefaultLen
  BY <1>0 DEF RangeInv
<1>4. CASE ResetPool(t)
  <2>1. pc'[t] = "slots" /\ pool' = DefaultPool /\ UNCHANGED <<len, nvm, whole>>
    BY <1>3, <1>4 DEF ResetPool, Goto, ControlInv
  <2>2. \A p \in Objects : ~Settled(p)'
    BY <2>1 DEF Settled
  <2> QED BY <1>2, <2>1, <2>2, OwnerKeepsPayloads DEF PayloadInv
<1>5. CASE ResetSlots(t)
  <2>1. /\ pc'[t] = "idle" /\ UNCHANGED <<pool, nvm>> /\ len' = DefaultLen
        /\ pool = DefaultPool
        /\ whole' = [p \in Objects |-> Payload(p, pool, mirror.len)]
    BY <1>3, <1>5 DEF ResetSlots, Done, ControlInv, PayloadInv
  <2>2. \A p \in Objects : whole'[p] = Default[p]
    BY <1>3, <2>1, DefaultPayload
  <2>3. whole' \in [Objects -> Seq(Nat)] /\ \A p \in Objects : whole'[p] \in Values(p)
    BY <2>1, <2>2, ObjectFacts DEF Values
  <2>4. \A p \in Objects : Live(p)' = whole'[p]
    BY <1>3, <2>1 DEF Live
  <2> QED BY <1>2, <2>1, <2>3, <2>4, OwnerKeepsPayloads DEF PayloadInv
<1> QED BY <1>4, <1>5

\* A save writes a whole payload to NVM, or leaves what is there.
LEMMA SaverKeepsPayloads ==
  ASSUME OneMutex, ControlInv, ControlInv', DataInv, PayloadInv,
         NEW t \in Threads, SaveObject(t)
  PROVE  PayloadInv'
<1> USE DEF live, obs
<1>1. /\ pc[t] = "saveObject" /\ pc[t] \in Holding /\ is_init
      /\ job[t].p \in Objects
  BY DEF SaveObject, Holding, ControlInv, Shape
<1>2. Live(job[t].p) \in Values(job[t].p) /\ nvm[job[t].p] \in Values(job[t].p)
  BY <1>1, OthersSettled DEF PayloadInv, On
<1>3. ASSUME NEW p \in Objects PROVE nvm'[p] = nvm[p] \/ nvm'[p] \in Values(p)
  BY <1>1, <1>2, ParamsFacts DEF SaveObject, DataInv, Nvms
<1>4. /\ pc' = [pc EXCEPT ![t] = "idle"] /\ job' = [job EXCEPT ![t] = NoJob]
      /\ \A u \in Threads \ {t} : seen'[u] = seen[u]
      /\ UNCHANGED <<is_init, pool, len, whole>>
  BY DEF SaveObject, Done, DataInv
<1> QED BY <1>1, <1>3, <1>4, PayloadInvFrame DEF Exposed

\* Every step of a call.
LEMMA StepKeepsPayloads ==
  ASSUME OneMutex, ControlInv, ControlInv', DataInv, DataInv', ObjectInv,
         RangeInv, PayloadInv, NEW t \in Threads, Step(t)
  PROVE  PayloadInv'
<1> USE DEF live, obs
<1>0. Shape(pc[t], job[t])
  BY DEF ControlInv
<1>1. PICK at, j : Moves(t, at, j)
  BY StepMoves
<1>2. /\ pc'[t] = at /\ job'[t] = j /\ pc' = [pc EXCEPT ![t] = at]
      /\ job' = [job EXCEPT ![t] = j]
  BY <1>1 DEF Moves, ControlInv
<1>3. CASE ClearWindow(t) \/ CopyPayload(t) \/ CommitLen(t)
  BY <1>3, WriterKeepsPayloads
<1>4. CASE ResetPool(t) \/ ResetSlots(t)
  BY <1>4, ResetKeepsPayloads
<1>5. CASE SaveObject(t)
  BY <1>5, SaverKeepsPayloads
<1>6. CASE AcquireForGet(t)
  <2>1. /\ pc[t] = "take" /\ pc'[t] \in {"copyOut", "idle"}
        /\ UNCHANGED <<is_init, pool, len, nvm, whole>>
        /\ \A u \in Threads \ {t} : seen'[u] = seen[u]
    BY <1>6 DEF AcquireForGet, Goto, Done, ControlInv, DataInv
  <2>2. pc'[t] = "copyOut" => job' = job /\ seen' = [seen EXCEPT ![t].old = len[job[t].p]]
    <3>1. CASE Done(t, IF job[t].arg = NoBuffer THEN "OK" ELSE "ERROR_PARAM")
      BY <3>1 DEF Done, ControlInv
    <3>2. CASE ~Done(t, IF job[t].arg = NoBuffer THEN "OK" ELSE "ERROR_PARAM")
      BY <1>6, <3>2 DEF AcquireForGet, Goto
    <3> QED BY <3>1, <3>2
  <2>3. [seen EXCEPT ![t].old = len[job[t].p]][t].old = len[job[t].p]
    BY DEF DataInv, Seen
  <2>4. at = "copyOut" => seen'[t].old = len[j.p]
    <3>1. at = "copyOut" => job[t] = j
      BY <1>2, <2>2
    <3> QED BY <1>2, <2>2, <2>3, <3>1
  <2>5. at # "slots" /\ pc[t] \notin Exposed
    BY <1>2, <2>1 DEF Exposed
  <2> QED BY <1>2, <2>1, <2>4, <2>5, PayloadInvFrame
<1>7. CASE SaveWrite(t)
  <2>1. job[t].p \in Scalars /\ pc[t] = "saveWrite"
    BY <1>0, <1>7 DEF SaveWrite, Shape
  <2>2. \A p \in Objects : nvm'[p] = nvm[p]
    BY <1>7, <2>1, ParamsFacts DEF SaveWrite, DataInv, Nvms
  <2>3. /\ pc'[t] = "idle" /\ UNCHANGED <<is_init, pool, len, whole>>
        /\ \A u \in Threads \ {t} : seen'[u] = seen[u]
    BY <1>7 DEF SaveWrite, Done, ControlInv, DataInv
  <2>4. at # "slots" /\ at # "copyOut" /\ pc[t] \notin Exposed
    BY <1>2, <2>1, <2>3 DEF Exposed
  <2> QED BY <1>2, <2>2, <2>3, <2>4, PayloadInvFrame
<1>8. ASSUME \/ MutexTimeout(t) \/ AcquireForSet(t) \/ StoreScalar(t)
             \/ Reread(t) \/ NotifyAndRelease(t) \/ SaveRead(t)
             \/ AcquireForDefault(t) \/ StoreDefault(t)
             \/ AcquireForSetObject(t) \/ AcquireForSave(t) \/ CopyOut(t)
             \/ AcquireForReset(t) \/ ResetCell(t)
      PROVE  PayloadInv'
  <2>1. /\ UNCHANGED <<is_init, pool, len, nvm, whole>>
        /\ \A u \in Threads \ {t} : seen'[u] = seen[u]
    BY <1>8 DEF MutexTimeout, AcquireForSet, StoreScalar, Reread,
                NotifyAndRelease, SaveRead, AcquireForDefault, StoreDefault,
                AcquireForSetObject, AcquireForSave, CopyOut, AcquireForReset,
                ResetCell, Done, DataInv
  <2>2. pc[t] \in {"take", "store", "reread", "notify", "saveRead", "copyOut",
                   "cells"}
    BY <1>8 DEF MutexTimeout, AcquireForSet, StoreScalar, Reread,
                NotifyAndRelease, SaveRead, AcquireForDefault, StoreDefault,
                AcquireForSetObject, AcquireForSave, CopyOut, AcquireForReset,
                ResetCell
  <2>3. pc'[t] # "slots" /\ pc'[t] # "copyOut"
    BY <1>8 DEF MutexTimeout, AcquireForSet, StoreScalar, Reread,
                NotifyAndRelease, SaveRead, AcquireForDefault, StoreDefault,
                AcquireForSetObject, AcquireForSave, CopyOut, AcquireForReset,
                ResetCell, Done, Goto, ControlInv
  <2> QED BY <1>2, <2>1, <2>2, <2>3, PayloadInvFrame DEF Exposed
<1> QED BY <1>3, <1>4, <1>5, <1>6, <1>7, <1>8 DEF Step

\* Calls that begin, are refused, or finish at once.
LEMMA CallKeepsPayloads ==
  ASSUME ControlInv, DataInv, PayloadInv, NEW t \in Threads, CallSomething(t)
  PROVE  PayloadInv'
<1> USE DEF live, obs
<1>1. CASE SetFast(t) \/ SetBits(t) \/ Refused(t)
  <2>1. UNCHANGED <<is_init, pool, len, nvm, whole, pc, job, seen>>
    BY <1>1 DEF SetFast, SetBits, Refused, Refuse
  <2> QED BY <2>1 DEF PayloadInv, Settled, On, Live, Payload
<1>2. CASE Accepted(t)
  <2>1. PICK at \in PCs, j \in Jobs :
           /\ pc' = [pc EXCEPT ![t] = at] /\ job' = [job EXCEPT ![t] = j]
           /\ at \notin Holding /\ pc[t] = "idle"
    BY <1>2, AcceptedMoves
  <2>2. /\ UNCHANGED <<is_init, pool, len, nvm, whole>>
        /\ seen' = [seen EXCEPT ![t] = NoSeen]
    BY <1>2 DEF Accepted, Begin
  <2>3. \A u \in Threads \ {t} : seen'[u] = seen[u]
    BY <2>2 DEF DataInv
  <2>4. at # "slots" /\ at # "copyOut" /\ pc[t] \notin Exposed
    BY <2>1 DEF Holding, Exposed
  <2> QED BY <2>1, <2>2, <2>3, <2>4, PayloadInvFrame
<1> QED BY <1>1, <1>2, CallCases

\* par_init lays whole payloads into the pool.
LEMMA InitPayloads ==
  ASSUME DataInv, PayloadInv, par_init
  PROVE  PayloadInv'
<1>1. PICK from \in {"nvm", "table", "nothing"} :
          LET restored(p) == Table[p].pers /\ from # "nothing"
              value(p) == IF from = "nvm" THEN nvm[p] ELSE Default[p]
              image == [p \in Objects |->
                          IF restored(p) THEN value(p) ELSE Default[p]]
          IN  /\ len' = [p \in Objects |-> Len(image[p])]
              /\ pool' = [a \in Pool |->
                    LET p == CHOOSE q \in Objects : a \in Window[q]
                        i == a - PoolOff[p] + 1
                    IN  IF i =< Len(image[p]) THEN image[p][i] ELSE 0]
              /\ whole' = image
              /\ nvm' = IF from = "table"
                        THEN [p \in Params |-> IF Table[p].pers THEN Default[p]
                                               ELSE nvm[p]]
                        ELSE nvm
  BY DEF par_init
<1> DEFINE value(p) == IF from = "nvm" THEN nvm[p] ELSE Default[p]
           image == [p \in Objects |->
                       IF Table[p].pers /\ from # "nothing" THEN value(p)
                       ELSE Default[p]]
<1>2. /\ len' = [p \in Objects |-> Len(image[p])]
      /\ pool' = [a \in Pool |->
                    LET q == CHOOSE x \in Objects : a \in Window[x]
                        i == a - PoolOff[q] + 1
                    IN  IF i =< Len(image[q]) THEN image[q][i] ELSE 0]
      /\ whole' = image
  BY <1>1
<1>3. \A p \in Objects : nvm[p] \in Values(p) /\ Default[p] \in Values(p)
  BY ObjectFacts DEF PayloadInv
<1>4. \A p \in Objects : image[p] \in Values(p)
  BY <1>3
<1>5. \A p \in Objects : nvm'[p] \in Values(p)
  BY <1>1, <1>3, ParamsFacts
<1>6. DOMAIN image = Objects /\ image = [p \in Objects |-> image[p]]
  OBVIOUS
<1> HIDE DEF image
<1>7. image \in [Objects -> Seq(Nat)] /\ \A p \in Objects : image[p] \in Stored(p)
  BY <1>4, <1>6, ValuesStored DEF Values
<1>8. ASSUME NEW p \in Objects PROVE Live(p)' = whole'[p]
  BY <1>2, <1>7, ImagePayload DEF Live
<1>9. \A t \in Threads : pc'[t] = "idle"
  BY DEF par_init, Quiescent
<1> QED BY <1>2, <1>4, <1>5, <1>7, <1>8, <1>9, RestPayloads

\* Every step keeps the payloads whole.
LEMMA NextKeepsPayloads ==
  ASSUME OneMutex, AllSavedInv, AllSavedInv', RangeInv, PayloadInv, [Next]_vars
  PROVE  PayloadInv'
<1>0. ControlInv /\ ControlInv' /\ DataInv /\ DataInv' /\ ObjectInv
  BY DEF AllSavedInv, SavedInv, CoreInv
<1>1. ASSUME NEW t \in Threads, Step(t) PROVE PayloadInv'
  BY <1>0, <1>1, StepKeepsPayloads
<1>2. ASSUME NEW t \in Threads, CallSomething(t) PROVE PayloadInv'
  BY <1>0, <1>2, CallKeepsPayloads
<1>3. CASE par_init
  BY <1>0, <1>3, InitPayloads
<1>4. CASE par_deinit
  <2>1. /\ ~is_init' /\ UNCHANGED <<whole, nvm>>
        /\ \A t \in Threads : pc'[t] = "idle"
    BY <1>4 DEF par_deinit, Quiescent, obs
  <2> QED BY <2>1, RestPayloads DEF PayloadInv
<1>5. CASE Reboot
  <2>1. /\ ~is_init' /\ UNCHANGED nvm
        /\ whole' = [p \in Objects |-> Default[p]]
        /\ \A t \in Threads : pc'[t] = "idle"
    BY <1>5 DEF Reboot
  <2>2. \A p \in Objects : whole'[p] \in Values(p) /\ whole'[p] \in Seq(Nat)
    BY <2>1, ObjectFacts
  <2>3. whole' \in [Objects -> Seq(Nat)]
    BY <2>1, <2>2
  <2> QED BY <2>1, <2>2, <2>3, RestPayloads DEF PayloadInv
<1>6. CASE UNCHANGED vars
  BY <1>6 DEF vars, live, obs, PayloadInv, Settled, On, Live, Payload
<1> QED BY <1>1, <1>2, <1>3, <1>4, <1>5, <1>6 DEF Next

\* Before par_init no call has begun, and every payload is the default.
LEMMA InitPayloadInv == Init => PayloadInv
<1> SUFFICES ASSUME Init PROVE PayloadInv
  OBVIOUS
<1>1. /\ ~is_init /\ whole = [p \in Objects |-> Default[p]] /\ nvm = Default
      /\ \A t \in Threads : pc[t] = "idle"
  BY DEF Init
<1>2. \A p \in Objects : Default[p] \in Values(p) /\ Default[p] \in Seq(Nat)
  BY ObjectFacts
<1> QED BY <1>1, <1>2 DEF PayloadInv

-----------------------------------------------------------------------------
(* The steps of the registers.                                             *)

\* The registers of ParValues are the ones of the mapping.
LEMMA Registers ==
  /\ V!vars = <<Val, got>> /\ Scalars \union Objects = Params
  /\ \A p \in Params : Val[p] = IF ~is_init THEN Default[p]
                                ELSE IF p \in Objects THEN whole[p]
                                ELSE LiveScalar(p)
  BY ParamsFacts DEF V!vars, Val

\* A step that shows in no register and no answer.
LEMMA Stays ==
  ASSUME UNCHANGED <<is_init, whole, got>>, is_init => UNCHANGED store
  PROVE  UNCHANGED V!vars
  BY DEF V!vars, LiveScalar

\* A store to a cell puts the scalar.
LEMMA StorePuts ==
  ASSUME DataInv, is_init, UNCHANGED <<is_init, whole, got>>,
         NEW p \in Scalars, NEW v, Legal(p, v), StoreCell(p, v)
  PROVE  V!Put(p)
<1>1. LiveScalar(p)' = v /\ \A q \in Scalars : q # p => LiveScalar(q)' = LiveScalar(q)
  BY StoreEffect
<1>2. Val'[p] = v /\ Val' = [Val EXCEPT ![p] = v]
  BY <1>1 DEF Val, Scalars
<1>3. Legal(p, Val'[p]) /\ Val' = [Val EXCEPT ![p] = Val'[p]]
  BY <1>2
<1> QED BY <1>3 DEF V!Put, Val

\* Committing the length puts the object.
LEMMA CommitPuts ==
  ASSUME ControlInv, PayloadInv, NEW t \in Threads, CommitLen(t),
         NEW o, o = job[t].p
  PROVE  V!Put(o) /\ o \in Objects
<1> DEFINE arg == job[t].arg
<1>1. /\ pc[t] = "commit" /\ is_init /\ UNCHANGED <<is_init, store, got>>
      /\ whole' = [whole EXCEPT ![o] = arg]
  BY DEF CommitLen, ControlInv
<1>2. o \in Objects /\ arg \in Values(o)
  BY <1>1, CarriedPayload
<1>3. Legal(o, arg) /\ o \in Params
  BY <1>2, LegalFacts, ParamsFacts
<1> HIDE DEF arg
<1>4. Val'[o] = arg /\ Val' = [Val EXCEPT ![o] = arg]
  BY <1>1, <1>2, <1>3 DEF Val, PayloadInv, LiveScalar
<1>5. Legal(o, Val'[o]) /\ Val' = [Val EXCEPT ![o] = Val'[o]]
  BY <1>3, <1>4
<1> QED BY <1>1, <1>2, <1>5 DEF V!Put, Val

\* A getter hands out the payload the object holds.
LEMMA CopyLooks ==
  ASSUME OneMutex, ControlInv, DataInv, PayloadInv, NEW t \in Threads,
         CopyOut(t), NEW o, o = job[t].p
  PROVE  V!Look(t, o) /\ o \in Objects
<1> USE DEF live
<1>1. /\ pc[t] = "copyOut" /\ is_init /\ UNCHANGED <<is_init, store, whole>>
      /\ got' = [got EXCEPT ![t] = [i \in 1 .. seen[t].old |->
                                       pool[PoolOff[o] + i - 1]]]
  BY DEF CopyOut, ControlInv
<1>2. o \in Objects /\ o \in Params
  BY <1>1, ParamsFacts DEF ControlInv, Shape
<1>3. Settled(o)
  BY <1>1, <1>2, OthersSettled DEF On, Holding
<1>4. Live(o) = whole[o] /\ seen[t].old = len[o]
  BY <1>1, <1>2, <1>3 DEF PayloadInv
<1>5. [i \in 1 .. seen[t].old |-> pool[PoolOff[o] + i - 1]] = Val[o]
  BY <1>1, <1>2, <1>4 DEF Live, Payload, Val
<1>6. got' = [got EXCEPT ![t] = Val[o]]
  BY <1>1, <1>5
<1>7. Val' = Val
  BY <1>1 DEF Val, LiveScalar
<1> QED BY <1>2, <1>6, <1>7 DEF V!Look, Val

\* The raw reset gives all objects their defaults in one step.
LEMMA SlotsReset ==
  ASSUME ControlInv, RangeInv, PayloadInv, NEW t \in Threads, ResetSlots(t)
  PROVE  V!ResetObjects
<1>1. /\ pc[t] = "slots" /\ is_init /\ UNCHANGED <<is_init, store, got>>
      /\ whole' = [p \in Objects |-> Payload(p, pool, mirror.len)]
  BY DEF ResetSlots, ControlInv
<1>2. pool = DefaultPool /\ mirror.len = DefaultLen
  BY <1>1 DEF PayloadInv, RangeInv
<1>3. \A p \in Objects : whole'[p] = Default[p]
  BY <1>1, <1>2, DefaultPayload
<1>4. Val' = [p \in Scalars \union Objects |->
                 IF p \in Objects THEN Default[p] ELSE Val[p]]
  BY <1>1, <1>3, Registers DEF Val, LiveScalar
<1> QED BY <1>1, <1>4 DEF V!ResetObjects, Val

\* After par_init, par_deinit or a restart every register is in range.
LEMMA Restarts ==
  ASSUME UNCHANGED got,
         is_init' => /\ \A p \in Scalars : Legal(p, LiveScalar(p)')
                     /\ \A p \in Objects : whole'[p] \in Values(p)
  PROVE  V!Restart
<1>1. DOMAIN Val' = Scalars \union Objects
  BY Registers DEF Val
<1>2. ASSUME NEW p \in Params PROVE Legal(p, Val'[p])
  <2>1. CASE ~is_init'
    BY <2>1, LegalFacts DEF Val
  <2>2. CASE is_init' /\ p \in Objects
    BY <2>2, LegalFacts DEF Val
  <2>3. CASE is_init' /\ p \notin Objects
    BY <2>3 DEF Val, Scalars
  <2> QED BY <2>1, <2>2, <2>3
<1> QED BY <1>1, <1>2, Registers DEF V!Restart, Val

\* Every step of a call is a step of a register, or shows nowhere.
LEMMA StepImplements ==
  ASSUME OneMutex, ControlInv, DataInv, RangeInv, PayloadInv,
         NEW t \in Threads, Step(t)
  PROVE  V!Next \/ UNCHANGED V!vars
<1> USE DEF live, obs
<1>0. is_init /\ is_init' = is_init
  BY StepMoves DEF ControlInv
<1>1. CASE CommitLen(t)
  <2>1. PICK o : o = job[t].p
    OBVIOUS
  <2>2. V!Put(o) /\ o \in Objects
    BY <1>1, <2>1, CommitPuts
  <2> QED BY <2>2 DEF V!Next
<1>2. CASE CopyOut(t)
  <2>1. PICK o : o = job[t].p
    OBVIOUS
  <2>2. V!Look(t, o) /\ o \in Objects
    BY <1>2, <2>1, CopyLooks
  <2> QED BY <2>2 DEF V!Next
<1>3. CASE ResetSlots(t)
  BY <1>3, SlotsReset DEF V!Next
<1>4. CASE \E p \in Scalars, v \in Int :
              Legal(p, v) /\ StoreCell(p, v) /\ UNCHANGED <<whole, got>>
  <2>1. PICK p \in Scalars, v \in Int :
           Legal(p, v) /\ StoreCell(p, v) /\ UNCHANGED <<whole, got>>
    BY <1>4
  <2>2. V!Put(p)
    BY <1>0, <2>1, StorePuts
  <2> QED BY <2>2 DEF V!Next
<1>5. CASE /\ UNCHANGED store
           /\ ~CommitLen(t) /\ ~CopyOut(t) /\ ~ResetSlots(t)
  <2>1. CASE UNCHANGED <<whole, got>>
    BY <1>0, <1>5, <2>1, Stays
  <2>2. CASE \/ MutexTimeout(t) \/ AcquireForSet(t) \/ StoreScalar(t)
             \/ Reread(t) \/ NotifyAndRelease(t) \/ SaveRead(t)
             \/ SaveWrite(t) \/ AcquireForDefault(t) \/ StoreDefault(t)
             \/ AcquireForSetObject(t)
    BY <2>1, <2>2 DEF MutexTimeout, AcquireForSet, StoreScalar, Reread,
             NotifyAndRelease, SaveRead, SaveWrite, AcquireForDefault,
             StoreDefault, AcquireForSetObject
  <2>3. CASE \/ ClearWindow(t) \/ CopyPayload(t) \/ AcquireForSave(t)
             \/ SaveObject(t) \/ AcquireForGet(t) \/ AcquireForReset(t)
             \/ ResetCell(t) \/ ResetPool(t)
    BY <2>1, <2>3 DEF ClearWindow, CopyPayload, AcquireForSave, SaveObject,
             AcquireForGet, AcquireForReset, ResetCell, ResetPool
  <2> QED BY <1>5, <2>2, <2>3 DEF Step
<1> QED BY <1>1, <1>2, <1>3, <1>4, <1>5, StepStores

\* Every call that finishes at once, or begins, likewise.
LEMMA CallImplements ==
  ASSUME ControlInv, DataInv, RangeInv, NEW t \in Threads, CallSomething(t)
  PROVE  V!Next \/ UNCHANGED V!vars
<1>1. CASE UNCHANGED store
  BY <1>1, CallStores, Stays
<1>2. CASE ~UNCHANGED store
  <2>1. PICK p \in Scalars, v \in Int : Legal(p, v) /\ StoreCell(p, v)
    BY <1>2, CallStores
  <2>2. V!Put(p)
    BY <1>2, <2>1, CallStores, StorePuts
  <2> QED BY <2>2 DEF V!Next
<1> QED BY <1>1, <1>2

ValuesInv == AllSavedInv /\ RangeInv /\ PayloadInv

\* The strengthened invariant is kept.
LEMMA NextKeepsValues ==
  ASSUME OneMutex, ValuesInv, [Next]_vars
  PROVE  ValuesInv'
<1>1. AllSavedInv'
  BY NextKeepsAllSaved DEF ValuesInv
<1>2. CoreInv /\ AllSavedInv /\ RangeInv /\ PayloadInv
  BY DEF ValuesInv, AllSavedInv, SavedInv
<1> QED BY <1>1, <1>2, NextKeepsRange, NextKeepsPayloads DEF ValuesInv

\* Every step of the core is a step of the registers or shows nowhere.
LEMMA NextImplements ==
  ASSUME OneMutex, ValuesInv, ValuesInv', [Next]_vars
  PROVE  [V!Next]_(V!vars)
<1>0. /\ ControlInv /\ DataInv /\ RangeInv /\ PayloadInv
      /\ RangeInv' /\ PayloadInv'
  BY DEF ValuesInv, AllSavedInv, SavedInv, CoreInv
<1>1. ASSUME NEW t \in Threads, Step(t) PROVE V!Next \/ UNCHANGED V!vars
  BY <1>0, <1>1, StepImplements
<1>2. ASSUME NEW t \in Threads, CallSomething(t) PROVE V!Next \/ UNCHANGED V!vars
  BY <1>0, <1>2, CallImplements
<1>3. CASE par_init \/ par_deinit \/ Reboot
  <2>1. UNCHANGED got
    BY <1>3 DEF par_init, par_deinit, Reboot, obs
  <2>2. is_init' => \A p \in Scalars : Legal(p, LiveScalar(p)')
    BY <1>0 DEF RangeInv
  <2>3. \A p \in Objects : whole'[p] \in Values(p)
    BY <1>0 DEF PayloadInv
  <2>4. V!Restart
    BY <2>1, <2>2, <2>3, Restarts
  <2> QED BY <2>4 DEF V!Next
<1>4. CASE UNCHANGED vars
  BY <1>4, Stays DEF vars, live, obs
<1> QED BY <1>1, <1>2, <1>3, <1>4 DEF Next

\* The core implements its promise: with its cells, windows, lengths, locks,
\* copies and callbacks, every step of it puts one register, hands out the
\* whole payload a register held at one moment, resets all objects at once,
\* or shows nowhere.  That the port has one mutex for all parameters is needed
\* because the raw reset writes all objects under the mutex of parameter 0.
THEOREM CoreKeepsPromise == OneMutex => (Spec => ImplementsParValues)
<1> SUFFICES ASSUME OneMutex PROVE Spec => ImplementsParValues
  OBVIOUS
<1>1. Init => ValuesInv
  BY InitAllSaved, InitRangeInv, InitPayloadInv DEF ValuesInv
<1>2. ValuesInv /\ [Next]_vars => ValuesInv'
  BY NextKeepsValues
<1>3. Init => V!Init
  BY DEF Init, V!Init, Default
<1>4. ValuesInv /\ ValuesInv' /\ [Next]_vars => [V!Next]_(V!vars)
  BY NextImplements
<1> QED BY <1>1, <1>2, <1>3, <1>4, PTL DEF Spec, ImplementsParValues, V!Spec
=============================================================================

-------------------------- MODULE StoreRefinement --------------------------
(***************************************************************************)
(* The store implements DurableLog: snapshots, concurrent reseals, the     *)
(* generation guard, failures and crashes together look like one atomic    *)
(* persist of a state the session was in.  The steps that matter are Open  *)
(* (Begin), the writes (Put), the rename at the end of a reseal (Persist)  *)
(* and hardClose or a crash (End); a Close that overtakes a reseal is      *)
(* Misuse, and every other step is invisible.                              *)
(***************************************************************************)
EXTENDS StoreProofs

\* A step that leaves the drive, the flock and the live database alone.
LEMMA Invisible ==
  ASSUME UNCHANGED <<lock, blob, base, overtook>>,
         lock # NoStore =>
           st'[lock].ram = st[lock].ram /\ st'[lock].writeGen = st[lock].writeGen
  PROVE  UNCHANGED Log!vars
<1>1. UNCHANGED <<lock # NoStore, blob.data, \E s \in Stores : overtook[s]>>
  OBVIOUS
<1>2. UNCHANGED (IF lock = NoStore THEN {} ELSE st[lock].ram)
  OBVIOUS
<1>3. UNCHANGED (IF lock = NoStore THEN {}
                 ELSE {Content(lock, g) : g \in 0..st[lock].writeGen})
  <2>1. ASSUME lock # NoStore
        PROVE  {Content(lock, g)' : g \in 0..st'[lock].writeGen}
                 = {Content(lock, g) : g \in 0..st[lock].writeGen}
    BY <2>1 DEF Content
  <2> QED
    BY <2>1
<1> QED
  BY <1>1, <1>2, <1>3 DEF Log!vars

\* The live Store is the one that holds the flock.
LEMMA LiveLocked ==
  ASSUME IInv, NEW s \in Stores
  PROVE  /\ st[s].status = "live" <=> lock = s
         /\ s # NoStore
  BY StoreAssumption DEF IInv, Locked

LEMMA OpenBegins ==
  ASSUME IInv, NEW s \in Stores, Open(s)
  PROVE  Log!Begin
<1>1. /\ lock = NoStore /\ lock' = s /\ s # NoStore
      /\ st'[s].ram = blob.data /\ st'[s].writeGen = 0
      /\ base'[s] = blob.data
      /\ UNCHANGED <<blob, overtook>>
  BY LiveLocked DEF IInv, TypeOK, StoreState, Fresh, Open, CanLock
<1>2. {Content(s, g)' : g \in 0..0} = {blob.data}
  <2>1. Content(s, 0)' = blob.data
    BY <1>1 DEF Content
  <2>2. 0..0 = {0}
    OBVIOUS
  <2> QED
    BY <2>1, <2>2
<1> QED
  BY <1>1, <1>2 DEF Log!Begin

\* The states a Store has been in grow by the one a write makes.
LEMMA VersionsGrow ==
  ASSUME NEW s, NEW g \in Nat
  PROVE  {Content(s, k) : k \in 0..(g + 1)} = {Content(s, k) : k \in 0..g} \cup {Content(s, g + 1)}
<1>1. 0..(g + 1) = (0..g) \cup {g + 1}
  OBVIOUS
<1> QED
  BY <1>1

LEMMA WritePuts ==
  ASSUME IInv, IInv', NEW s \in Stores, Write(s)
  PROVE  \E u \in Writes : Log!Put(u)
<1> DEFINE g == st[s].writeGen + 1
           u == <<s, g>>
<1>1. /\ lock = s /\ s # NoStore /\ st[s].writeGen \in Nat
      /\ UNCHANGED <<lock, blob, base, overtook>>
      /\ st[s].status = "live"
  BY LiveLocked DEF IInv, TypeOK, StoreState, Write
<1>2. /\ st'[s].status = "live" /\ st'[s].writeGen = g /\ st'[s].ram = st[s].ram \cup {u}
  BY <1>1 DEF IInv, TypeOK, StoreState, Write, MarkDirty
<1>3. u \in Writes
  <2>1. g \in 1..MaxGen[s]
    BY <1>1, StoreAssumption DEF Write
  <2> QED
    BY <2>1 DEF Writes
<1>4. st'[s].ram = Content(s, g)
  <2>1. Content(s, st[s].writeGen)' = st'[s].ram
    BY <1>2 DEF IInv, ImagesAreStates
  <2> QED
    BY <1>1, <1>2, <2>1 DEF Content
<1>5. {Content(s, k)' : k \in 0..g} = {Content(s, k) : k \in 0..st[s].writeGen} \cup {st'[s].ram}
  <2>1. \A k : Content(s, k)' = Content(s, k)
    BY <1>1 DEF Content
  <2> QED
    BY <1>1, <1>4, <2>1, VersionsGrow
<1>6. Log!Put(u)
  <2>1. lock # NoStore /\ UNCHANGED <<lock # NoStore, blob.data, \E v \in Stores : overtook[v]>>
    BY <1>1
  <2>2. (IF lock = NoStore THEN {} ELSE st[lock].ram)'
          = (IF lock = NoStore THEN {} ELSE st[lock].ram) \cup {u}
    BY <1>1, <1>2
  <2>3. (IF lock = NoStore THEN {} ELSE {Content(lock, k) : k \in 0..st[lock].writeGen})'
          = (IF lock = NoStore THEN {} ELSE {Content(lock, k) : k \in 0..st[lock].writeGen})
              \cup {(IF lock = NoStore THEN {} ELSE st[lock].ram)'}
    <3>1. (IF lock = NoStore THEN {} ELSE st[lock].ram)' = st'[s].ram
      BY <1>1
    <3>2. (IF lock = NoStore THEN {} ELSE {Content(lock, k) : k \in 0..st[lock].writeGen})'
            = {Content(s, k)' : k \in 0..g}
      BY <1>1, <1>2
    <3> QED
      BY <1>1, <1>5, <3>1, <3>2
  <2> HIDE DEF g, u
  <2> QED
    BY <2>1, <2>2, <2>3 DEF Log!Put
<1> QED
  BY <1>3, <1>6

\* Once a Close has overtaken a reseal, the abstract log promises nothing.
LEMMA TornMisuses ==
  ASSUME NEW s \in Stores, overtook'[s]
  PROVE  Log!Misuse
  BY DEF Log!Misuse

LEMMA AtomicWritePersists ==
  ASSUME IInv, NEW t \in Threads, AtomicWrite(t)
  PROVE  Log!Misuse \/ \E v \in {Content(lock, g) : g \in 0..st[lock].writeGen} :
                          lock # NoStore /\ Log!Persist(v)
<1> DEFINE s == th[t].on
<1>1. /\ th[t].pc = "write" /\ s \in Stores /\ th[t].gen \in Nat
      /\ th'[t].on = s
      /\ blob'.data = th[t].raw
      /\ UNCHANGED <<lock, base, overtook>>
  BY DEF IInv, TypeOK, ThreadState, AtomicWrite
<1>2. /\ st'[s].ram = st[s].ram /\ st'[s].writeGen = st[s].writeGen
  BY <1>1 DEF IInv, TypeOK, StoreState, AtomicWrite
<1>3. MidReseal(t, s)
  BY <1>1 DEF MidReseal
<1>4. CASE \E v \in Stores : overtook[v]
  BY <1>1, <1>4, TornMisuses
<1>5. CASE \A v \in Stores : ~overtook[v]
  <2>1. lock = s /\ s # NoStore
    BY <1>1, <1>3, <1>5, LiveLocked DEF IInv, Overtaken
  <2>2. /\ th[t].raw = Content(s, th[t].gen)
        /\ blob.data = Content(s, st[s].persistedGen)
        /\ st[s].persistedGen < th[t].gen /\ th[t].gen <= st[s].writeGen
        /\ st[s].persistedGen \in Nat /\ st[s].writeGen \in Nat
    BY <1>1, <1>3, <1>5, <2>1 DEF IInv, TypeOK, StoreState, ImagesAreStates, Untorn, Guarded, Gens
  <2>3. blob.data \subseteq th[t].raw
    <3>1. 1..st[s].persistedGen \subseteq 1..th[t].gen
      BY <1>1, <2>2
    <3> QED
      BY <2>2, <3>1 DEF Content
  <2>4. th[t].raw \in {Content(lock, g) : g \in 0..st[lock].writeGen}
    BY <1>1, <2>1, <2>2
  <2>5. \A k : Content(s, k)' = Content(s, k)
    BY <1>1 DEF Content
  <2>6. Log!Persist(th[t].raw)
    BY <1>1, <1>2, <2>1, <2>3, <2>5 DEF Log!Persist
  <2> QED
    BY <2>1, <2>4, <2>6
<1> QED
  BY <1>4, <1>5

LEMMA HardCloseEnds ==
  ASSUME IInv, NEW t \in Threads, HardClose(t)
  PROVE  Log!Misuse \/ Log!End \/ UNCHANGED Log!vars
<1> DEFINE s == th[t].on
<1>1. /\ s \in Stores /\ s # NoStore
      /\ lock' = (IF lock = s THEN NoStore ELSE lock)
      /\ UNCHANGED <<blob, base>>
  BY LiveLocked DEF IInv, TypeOK, HardClose
<1>2. CASE overtook'[s]
  BY <1>1, <1>2, TornMisuses
<1>3. CASE ~overtook'[s]
  <2>1. UNCHANGED overtook
    BY <1>1, <1>3 DEF IInv, TypeOK, HardClose
  <2>2. CASE lock = s
    BY <1>1, <2>1, <2>2 DEF Log!End
  <2>3. CASE lock # s
    <3>1. lock # NoStore => st'[lock] = st[lock]
      BY <1>1, <2>3 DEF IInv, TypeOK, HardClose
    <3> QED
      BY <1>1, <2>1, <2>3, <3>1, Invisible
  <2> QED
    BY <2>2, <2>3
<1> QED
  BY <1>2, <1>3

LEMMA CrashEnds ==
  ASSUME Crash
  PROVE  Log!End \/ UNCHANGED Log!vars
<1>1. lock' = NoStore /\ UNCHANGED <<blob, base, overtook>>
  BY DEF Crash
<1>2. CASE lock # NoStore
  BY <1>1, <1>2 DEF Log!End
<1>3. CASE lock = NoStore
  BY <1>1, <1>3, Invisible
<1> QED
  BY <1>2, <1>3

LEMMA NothingToDoInvisible ==
  ASSUME IInv, NEW t \in Threads, NothingToDo(t)
  PROVE  Log!Misuse \/ UNCHANGED Log!vars
<1> DEFINE s == th[t].on
<1>1. s \in Stores /\ UNCHANGED <<lock, blob, st, base>>
  BY DEF IInv, TypeOK, NothingToDo
<1>2. CASE overtook'[s]
  BY <1>1, <1>2, TornMisuses
<1>3. CASE ~overtook'[s]
  <2>1. UNCHANGED overtook
    BY <1>1, <1>3 DEF IInv, TypeOK, NothingToDo
  <2> QED
    BY <1>1, <2>1, Invisible
<1> QED
  BY <1>2, <1>3

\* Steps that touch neither the drive nor the database.
Quiet(t) ==
  \/ Snapshot(t) \/ SerializeFails(t) \/ Superseded(t) \/ StartWrite(t) \/ Seal(t)
  \/ WriteFails(t) \/ SettleOk(t) \/ SettleErr(t) \/ MarkClosed(t) \/ Return(t)

LEMMA QuietInvisible ==
  ASSUME IInv, NEW t \in Threads, Quiet(t)
  PROVE  UNCHANGED Log!vars
<1>1. UNCHANGED <<lock, blob, base, overtook>>
  BY DEF Quiet, Snapshot, SerializeFails, Superseded, StartWrite, Seal, WriteFails, SettleOk,
     SettleErr, MarkClosed, Return
<1>2. \A v \in Stores : st'[v].ram = st[v].ram /\ st'[v].writeGen = st[v].writeGen
  <2> USE DEF IInv, TypeOK, StoreState
  <2>1. CASE Snapshot(t)
    BY <2>1 DEF Snapshot
  <2>2. CASE SerializeFails(t)
    BY <2>2 DEF SerializeFails
  <2>3. CASE Superseded(t) \/ Seal(t) \/ Return(t)
    BY <2>3 DEF Superseded, Seal, Return
  <2>4. CASE StartWrite(t)
    BY <2>4 DEF StartWrite
  <2>5. CASE WriteFails(t)
    BY <2>5 DEF WriteFails
  <2>6. CASE SettleOk(t)
    BY <2>6 DEF SettleOk
  <2>7. CASE SettleErr(t)
    BY <2>7 DEF SettleErr, FlushFailed
  <2>8. CASE MarkClosed(t)
    BY <2>8 DEF MarkClosed
  <2> QED
    BY <2>1, <2>2, <2>3, <2>4, <2>5, <2>6, <2>7, <2>8 DEF Quiet
<1> QED
  BY <1>1, <1>2, Invisible DEF IInv, TypeOK

LEMMA EnteringInvisible ==
  ASSUME IInv,
         \E s \in Stores : \/ OpenFails(s)
                           \/ \E t \in Callers : Flush(t, s) \/ Close(t, s)
                           \/ \E t \in Timers : TimerFires(t, s)
  PROVE  UNCHANGED Log!vars
<1>1. UNCHANGED <<lock, blob, base, overtook>>
  BY DEF OpenFails, Flush, Close, TimerFires
<1>2. \A v \in Stores : st'[v].ram = st[v].ram /\ st'[v].writeGen = st[v].writeGen
  <2> USE DEF IInv, TypeOK, StoreState
  <2>1. CASE \E s \in Stores : OpenFails(s)
    BY <2>1 DEF OpenFails
  <2>2. CASE \E s \in Stores, t \in Callers : Flush(t, s)
    BY <2>2 DEF Flush
  <2>3. CASE \E s \in Stores, t \in Callers : Close(t, s)
    BY <2>3 DEF Close, StopTimer
  <2>4. CASE \E s \in Stores, t \in Timers : TimerFires(t, s)
    BY <2>4 DEF TimerFires
  <2> QED
    BY <2>1, <2>2, <2>3, <2>4
<1> QED
  BY <1>1, <1>2, Invisible DEF IInv, TypeOK

LEMMA StepRefines ==
  ASSUME IInv, IInv', [Next]_vars
  PROVE  [Log!Next]_(Log!vars)
<1>1. CASE UNCHANGED vars
  BY <1>1, Invisible DEF vars
<1>2. ASSUME NEW s \in Stores, Open(s) \/ OpenFails(s) \/ Write(s)
      PROVE  [Log!Next]_(Log!vars)
  BY <1>2, OpenBegins, EnteringInvisible, WritePuts DEF Log!Next
<1>3. ASSUME NEW s \in Stores,
             (\E t \in Callers : Flush(t, s) \/ Close(t, s)) \/ \E t \in Timers : TimerFires(t, s)
      PROVE  [Log!Next]_(Log!vars)
  BY <1>3, EnteringInvisible
<1>4. ASSUME NEW t \in Threads, Quiet(t)
      PROVE  [Log!Next]_(Log!vars)
  BY <1>4, QuietInvisible
<1>5. ASSUME NEW t \in Threads, NothingToDo(t) PROVE [Log!Next]_(Log!vars)
  BY <1>5, NothingToDoInvisible DEF Log!Next
<1>6. ASSUME NEW t \in Threads, AtomicWrite(t) PROVE [Log!Next]_(Log!vars)
  BY <1>6, AtomicWritePersists DEF Log!Next
<1>7. ASSUME NEW t \in Threads, HardClose(t) PROVE [Log!Next]_(Log!vars)
  BY <1>7, HardCloseEnds DEF Log!Next
<1>8. CASE Crash
  BY <1>8, CrashEnds DEF Log!Next
<1> QED
  BY <1>1, <1>2, <1>3, <1>4, <1>5, <1>6, <1>7, <1>8
  DEF Next, Step, ResealStep, CloseStep, Quiet

\* Every behaviour of the store is one of the abstract durable log.
THEOREM Refinement == Spec => ImplementsLog
<1>1. Init => Log!Init
  BY StoreAssumption DEF Init, Log!Init
<1> QED
  BY <1>1, StepRefines, Inductive, PTL DEF Spec, ImplementsLog, Log!Spec
=============================================================================

---------------------------- MODULE StoreProofs ----------------------------
(* What holds of Store for any number of Store values, goroutines and writes. *)
EXTENDS Store, TLAPS

-----------------------------------------------------------------------------
(* Type correctness *)

LEMMA InitTypeOK == Init => TypeOK
  BY DEF Init, TypeOK, NewStore, Idle, StoreState, ThreadState, Image

\* The types of what an action of goroutine t, or on Store s, reads.
LEMMA StoreTyped ==
  ASSUME TypeOK, NEW s \in Stores
  PROVE  /\ st[s] \in StoreState
         /\ st[s].ram \in SUBSET Writes
         /\ st[s].writeGen \in Nat
         /\ st[s].persistedGen \in Nat
         /\ st[s].failedGen \in Nat
         /\ st[s].dek \in BOOLEAN
  BY DEF TypeOK, StoreState

LEMMA ThreadTyped ==
  ASSUME TypeOK, NEW t \in Threads
  PROVE  /\ th[t] \in ThreadState
         /\ th[t].pc # "idle" => th[t].on \in Stores
         /\ th[t].raw \in SUBSET Writes
         /\ th[t].gen \in Nat
         /\ th[t].sealed \in BOOLEAN
  BY DEF TypeOK, ThreadState

\* An update of one goroutine, then of one Store, keeps the type of the whole.
LEMMA ThreadUpdate ==
  ASSUME TypeOK, NEW t \in Threads, NEW x \in ThreadState,
         x.pc # "idle" => x.on \in Stores, th' = [th EXCEPT ![t] = x]
  PROVE  /\ th' \in [Threads -> ThreadState]
         /\ \A u \in Threads : th'[u].pc # "idle" => th'[u].on \in Stores
  BY DEF TypeOK

LEMMA StoreUpdate ==
  ASSUME TypeOK, NEW s \in Stores, NEW r \in StoreState, st' = [st EXCEPT ![s] = r]
  PROVE  st' \in [Stores -> StoreState]
  BY DEF TypeOK

LEMMA RecordUpdates ==
  ASSUME NEW r \in StoreState
  PROVE  /\ \A t \in Threads : [r EXCEPT !.flushMu = t] \in StoreState
         /\ [r EXCEPT !.flushMu = NoThread] \in StoreState
         /\ \A g \in Nat : [r EXCEPT !.persistedGen = g, !.flushMu = NoThread] \in StoreState
         /\ \A g \in Nat : FlushFailed(r, g) \in StoreState
         /\ [r EXCEPT !.dirty = FALSE] \in StoreState
         /\ [r EXCEPT !.timer = FALSE] \in StoreState
         /\ [r EXCEPT !.closed = TRUE] \in StoreState
         /\ \A b \in BOOLEAN : [r EXCEPT !.lastFlushErr = b] \in StoreState
         /\ [r EXCEPT !.status = "gone", !.ram = {}, !.dek = FALSE] \in StoreState
<1>1. \A t \in Threads : [r EXCEPT !.flushMu = t] \in StoreState
  BY DEF StoreState
<1>2. [r EXCEPT !.flushMu = NoThread] \in StoreState
  BY DEF StoreState
<1>3. \A g \in Nat : [r EXCEPT !.persistedGen = g, !.flushMu = NoThread] \in StoreState
  BY DEF StoreState
<1>4. \A g \in Nat : FlushFailed(r, g) \in StoreState
  BY DEF StoreState, FlushFailed
<1>5. [r EXCEPT !.dirty = FALSE] \in StoreState
  BY DEF StoreState
<1>6. [r EXCEPT !.timer = FALSE] \in StoreState
  BY DEF StoreState
<1>7. [r EXCEPT !.closed = TRUE] \in StoreState
  BY DEF StoreState
<1>8. \A b \in BOOLEAN : [r EXCEPT !.lastFlushErr = b] \in StoreState
  BY DEF StoreState
<1>9. [r EXCEPT !.status = "gone", !.ram = {}, !.dek = FALSE] \in StoreState
  BY DEF StoreState
<1> QED
  BY <1>1, <1>2, <1>3, <1>4, <1>5, <1>6, <1>7, <1>8, <1>9

LEMMA MarkDirtyTyped ==
  ASSUME NEW r \in StoreState
  PROVE  MarkDirty(r) \in StoreState
<1>1. r.writeGen + 1 \in Nat /\ (r.timer \/ ~r.closed) \in BOOLEAN
  BY DEF StoreState
<1> QED
  BY <1>1 DEF MarkDirty, StoreState

LEMMA EnterTyped ==
  ASSUME TypeOK, NEW s \in Stores, NEW t \in Threads,
         NEW call \in {"flush", "timer", "close"}, Enter(t, s, call)
  PROVE  /\ th' \in [Threads -> ThreadState]
         /\ \A u \in Threads : th'[u].pc # "idle" => th'[u].on \in Stores
<1> DEFINE a == IF call = "timer" THEN 0 ELSE st[s].writeGen
           x == [Idle EXCEPT !.pc = "check", !.op = call, !.on = s, !.asked = a]
<1>1. a \in Nat
  BY StoreTyped
<1>2. x \in ThreadState /\ x.on \in Stores
  BY <1>1 DEF Idle, ThreadState
<1>3. th' = [th EXCEPT ![t] = x]
  BY DEF Enter
<1> QED
  BY <1>2, <1>3, ThreadUpdate

LEMMA ResealReturnsTyped ==
  ASSUME TypeOK, NEW t \in Threads, th[t].pc # "idle",
         NEW r \in {"nil", "err"}, ResealReturns(t, r)
  PROVE  /\ th' \in [Threads -> ThreadState]
         /\ \A u \in Threads : th'[u].pc # "idle" => th'[u].on \in Stores
<1> DEFINE x == [th[t] EXCEPT !.ret = r, !.pc = AfterReseal(t)]
<1>1. th[t] \in ThreadState /\ th[t].on \in Stores
  BY ThreadTyped
<1>2. AfterReseal(t) \in {"mark", "returned"}
  BY DEF AfterReseal
<1>3. x \in ThreadState
  BY <1>1, <1>2 DEF ThreadState
<1>4. x.on \in Stores
  BY <1>1 DEF ThreadState
<1>5. th' = [th EXCEPT ![t] = x]
  BY DEF ResealReturns
<1> QED
  BY <1>3, <1>4, <1>5, ThreadUpdate

LEMMA NextTypeOK == TypeOK /\ [Next]_vars => TypeOK'
<1> SUFFICES ASSUME TypeOK, [Next]_vars PROVE TypeOK'
  OBVIOUS
<1>1. ASSUME NEW s \in Stores, Open(s) PROVE TypeOK'
  <2>1. blob.data \in SUBSET Writes
    BY DEF TypeOK, Image
  <2>2. [st[s] EXCEPT !.status = "live", !.ram = blob.data] \in StoreState
    BY <2>1, StoreTyped DEF StoreState
  <2>3. st' \in [Stores -> StoreState]
    <3>1. st' = [st EXCEPT ![s] = [st[s] EXCEPT !.status = "live", !.ram = blob.data]]
      BY <1>1 DEF Open
    <3> QED BY <2>2, <3>1, StoreUpdate
  <2> QED
    BY <1>1, <2>1, <2>3 DEF Open, TypeOK
<1>2. ASSUME NEW s \in Stores, OpenFails(s) PROVE TypeOK'
  <2> DEFINE r == [st[s] EXCEPT !.status = "gone", !.dek = FALSE]
  <2>1. r \in StoreState
    BY StoreTyped DEF StoreState
  <2>2. st' = [st EXCEPT ![s] = r]
    BY <1>2 DEF OpenFails
  <2>3. st' \in [Stores -> StoreState]
    BY <2>1, <2>2, StoreUpdate
  <2> QED
    BY <1>2, <2>3 DEF OpenFails, TypeOK
<1>3. ASSUME NEW s \in Stores, Write(s) PROVE TypeOK'
  <2> DEFINE g == st[s].writeGen + 1
             r == [st[s] EXCEPT !.ram = @ \cup {<<s, g>>}]
  <2>1. g \in 1..MaxGen[s]
    BY <1>3, StoreTyped, StoreAssumption DEF Write
  <2>2. <<s, g>> \in Writes
    BY <2>1 DEF Writes
  <2>3. st[s].ram \cup {<<s, g>>} \in SUBSET Writes
    BY <2>2, StoreTyped
  <2>4. r \in StoreState
    BY <2>3, StoreTyped DEF StoreState
  <2>5. MarkDirty(r) \in StoreState
    BY <2>4, MarkDirtyTyped
  <2>6. st' = [st EXCEPT ![s] = MarkDirty(r)]
    BY <1>3 DEF Write
  <2>7. st' \in [Stores -> StoreState]
    BY <2>5, <2>6, StoreUpdate
  <2> QED
    BY <1>3, <2>7 DEF Write, TypeOK
<1>4. ASSUME NEW s \in Stores, NEW t \in Callers, Flush(t, s) PROVE TypeOK'
  BY <1>4, EnterTyped DEF Flush, Threads, TypeOK
<1>5. ASSUME NEW s \in Stores, NEW t \in Callers, Close(t, s) PROVE TypeOK'
  <2>1. StopTimer(st[s]) \in StoreState
    BY StoreTyped DEF StopTimer, StoreState
  <2>2. st' \in [Stores -> StoreState]
    BY <1>5, <2>1, StoreUpdate DEF Close
  <2> QED
    BY <1>5, <2>2, EnterTyped DEF Close, Threads, TypeOK
<1>6. ASSUME NEW s \in Stores, NEW t \in Timers, TimerFires(t, s) PROVE TypeOK'
  <2>1. [st[s] EXCEPT !.timer = FALSE] \in StoreState
    BY StoreTyped, RecordUpdates
  <2>2. st' \in [Stores -> StoreState]
    BY <1>6, <2>1, StoreUpdate DEF TimerFires
  <2> QED
    BY <1>6, <2>2, EnterTyped DEF TimerFires, Threads, TypeOK
<1>7. ASSUME NEW t \in Threads, NothingToDo(t) PROVE TypeOK'
  BY <1>7, ResealReturnsTyped DEF NothingToDo, TypeOK
<1>8. ASSUME NEW t \in Threads, Snapshot(t) PROVE TypeOK'
  <2> DEFINE s == th[t].on
             x == [th[t] EXCEPT !.raw = st[s].ram, !.gen = SnapshotGen(s), !.pc = "guard"]
  <2>1. s \in Stores /\ th[t] \in ThreadState
    BY <1>8, ThreadTyped DEF Snapshot
  <2>2. st[s].ram \in SUBSET Writes /\ SnapshotGen(s) \in Nat
    BY <2>1, StoreTyped DEF SnapshotGen
  <2>3. x \in ThreadState
    BY <2>1, <2>2 DEF ThreadState
  <2>4. x.on = s
    BY <2>1 DEF ThreadState
  <2>5. th' = [th EXCEPT ![t] = x]
    BY <1>8 DEF Snapshot
  <2>6. [st[s] EXCEPT !.dirty = FALSE] \in StoreState
    BY <2>1, StoreTyped, RecordUpdates
  <2>7. st' \in [Stores -> StoreState]
    BY <1>8, <2>1, <2>6, StoreUpdate DEF Snapshot
  <2> QED
    BY <1>8, <2>1, <2>3, <2>4, <2>5, <2>7, ThreadUpdate DEF Snapshot, TypeOK
<1>9. ASSUME NEW t \in Threads, SerializeFails(t) PROVE TypeOK'
  <2>1. th[t].on \in Stores
    BY <1>9, ThreadTyped DEF SerializeFails
  <2>2. [st[th[t].on] EXCEPT !.lastFlushErr = TRUE] \in StoreState
    BY <2>1, StoreTyped, RecordUpdates
  <2>3. st' \in [Stores -> StoreState]
    BY <1>9, <2>1, <2>2, StoreUpdate DEF SerializeFails
  <2> QED
    BY <1>9, <2>3, ResealReturnsTyped DEF SerializeFails, TypeOK
<1>10. ASSUME NEW t \in Threads, Superseded(t) PROVE TypeOK'
  BY <1>10, ResealReturnsTyped DEF Superseded, TypeOK
<1>11. ASSUME NEW t \in Threads, StartWrite(t) PROVE TypeOK'
  <2> DEFINE x == [th[t] EXCEPT !.pc = "seal"]
  <2>1. th[t].on \in Stores /\ th[t] \in ThreadState
    BY <1>11, ThreadTyped DEF StartWrite
  <2>2. [st[th[t].on] EXCEPT !.flushMu = t] \in StoreState
    BY <2>1, StoreTyped, RecordUpdates
  <2>3. st' \in [Stores -> StoreState]
    BY <1>11, <2>1, <2>2, StoreUpdate DEF StartWrite
  <2>4. x \in ThreadState /\ x.on \in Stores
    BY <2>1 DEF ThreadState
  <2> QED
    BY <1>11, <2>3, <2>4, ThreadUpdate DEF StartWrite, TypeOK
<1>12. ASSUME NEW t \in Threads, Seal(t) PROVE TypeOK'
  <2> DEFINE x == [th[t] EXCEPT !.sealed = st[th[t].on].dek, !.pc = "write"]
  <2>1. th[t].on \in Stores /\ th[t] \in ThreadState
    BY <1>12, ThreadTyped DEF Seal
  <2>2. st[th[t].on].dek \in BOOLEAN
    BY <2>1, StoreTyped
  <2>3. x \in ThreadState /\ x.on \in Stores
    BY <2>1, <2>2 DEF ThreadState
  <2> QED
    BY <1>12, <2>3, ThreadUpdate DEF Seal, TypeOK
<1>13. ASSUME NEW t \in Threads, AtomicWrite(t) PROVE TypeOK'
  <2> DEFINE s == th[t].on
             x == [th[t] EXCEPT !.ret = "nil", !.pc = "settle"]
             r == [st[s] EXCEPT !.persistedGen = th[t].gen, !.flushMu = NoThread]
  <2>1. s \in Stores /\ th[t] \in ThreadState
    BY <1>13, ThreadTyped DEF AtomicWrite
  <2>2. th[t].gen \in Nat /\ th[t].raw \in SUBSET Writes /\ th[t].sealed \in BOOLEAN
    BY ThreadTyped
  <2>3. r \in StoreState
    BY <2>1, <2>2, StoreTyped, RecordUpdates
  <2>4. st' \in [Stores -> StoreState]
    <3>1. st' = [st EXCEPT ![s] = r]
      BY <1>13 DEF AtomicWrite
    <3> QED BY <2>1, <2>3, <3>1, StoreUpdate
  <2>5. x \in ThreadState /\ x.on \in Stores
    BY <2>1 DEF ThreadState
  <2>6. blob' \in Image
    BY <1>13, <2>1, <2>2 DEF AtomicWrite, Image
  <2> QED
    BY <1>13, <2>4, <2>5, <2>6, ThreadUpdate DEF AtomicWrite, TypeOK
<1>14. ASSUME NEW t \in Threads, WriteFails(t) PROVE TypeOK'
  <2> DEFINE x == [th[t] EXCEPT !.ret = "err", !.pc = "settle"]
  <2>1. th[t].on \in Stores /\ th[t] \in ThreadState
    BY <1>14, ThreadTyped DEF WriteFails
  <2>2. [st[th[t].on] EXCEPT !.flushMu = NoThread] \in StoreState
    BY <2>1, StoreTyped, RecordUpdates
  <2>3. st' \in [Stores -> StoreState]
    BY <1>14, <2>1, <2>2, StoreUpdate DEF WriteFails
  <2>4. x \in ThreadState /\ x.on \in Stores
    BY <2>1 DEF ThreadState
  <2> QED
    BY <1>14, <2>3, <2>4, ThreadUpdate DEF WriteFails, TypeOK
<1>15. ASSUME NEW t \in Threads, SettleOk(t) PROVE TypeOK'
  <2> DEFINE b == st[th[t].on].lastFlushErr /\ ~ClearsError(t)
             r == [st[th[t].on] EXCEPT !.lastFlushErr = b]
  <2>1. th[t].on \in Stores
    BY <1>15, ThreadTyped DEF SettleOk
  <2>2. r \in StoreState
    BY <2>1, StoreTyped, RecordUpdates
  <2>3. st' \in [Stores -> StoreState]
    BY <1>15, <2>1, <2>2, StoreUpdate DEF SettleOk
  <2> QED
    BY <1>15, <2>3, ResealReturnsTyped DEF SettleOk, TypeOK
<1>16. ASSUME NEW t \in Threads, SettleErr(t) PROVE TypeOK'
  <2>1. th[t].on \in Stores /\ th[t].gen \in Nat
    BY <1>16, ThreadTyped DEF SettleErr
  <2>2. FlushFailed(st[th[t].on], th[t].gen) \in StoreState
    BY <2>1, StoreTyped, RecordUpdates
  <2>3. st' \in [Stores -> StoreState]
    BY <1>16, <2>1, <2>2, StoreUpdate DEF SettleErr
  <2> QED
    BY <1>16, <2>3, ResealReturnsTyped DEF SettleErr, TypeOK
<1>17. ASSUME NEW t \in Threads, MarkClosed(t) PROVE TypeOK'
  <2> DEFINE x == [th[t] EXCEPT !.pc = "hard"]
  <2>1. th[t].on \in Stores /\ th[t] \in ThreadState
    BY <1>17, ThreadTyped DEF MarkClosed
  <2>2. [st[th[t].on] EXCEPT !.closed = TRUE] \in StoreState
    BY <2>1, StoreTyped, RecordUpdates
  <2>3. st' \in [Stores -> StoreState]
    BY <1>17, <2>1, <2>2, StoreUpdate DEF MarkClosed
  <2>4. x \in ThreadState /\ x.on \in Stores
    BY <2>1 DEF ThreadState
  <2> QED
    BY <1>17, <2>3, <2>4, ThreadUpdate DEF MarkClosed, TypeOK
<1>18. ASSUME NEW t \in Threads, HardClose(t) PROVE TypeOK'
  <2> DEFINE s == th[t].on
             x == [th[t] EXCEPT !.pc = "returned"]
             r == [st[s] EXCEPT !.status = "gone", !.ram = {}, !.dek = FALSE]
  <2>1. s \in Stores /\ th[t] \in ThreadState
    BY <1>18, ThreadTyped DEF HardClose
  <2>2. r \in StoreState
    BY <2>1, StoreTyped, RecordUpdates
  <2>3. st' \in [Stores -> StoreState]
    <3>1. st' = [st EXCEPT ![s] = r]
      BY <1>18 DEF HardClose
    <3> QED BY <2>1, <2>2, <3>1, StoreUpdate
  <2>4. x \in ThreadState /\ x.on \in Stores
    BY <2>1 DEF ThreadState
  <2> QED
    BY <1>18, <2>3, <2>4, ThreadUpdate DEF HardClose, TypeOK
<1>19. ASSUME NEW t \in Threads, Return(t) PROVE TypeOK'
  <2>1. Idle \in ThreadState /\ Idle.pc = "idle"
    BY DEF Idle, ThreadState
  <2> QED
    BY <1>19, <2>1, ThreadUpdate DEF Return, TypeOK
<1>20. ASSUME Crash PROVE TypeOK'
  <2>1. Idle \in ThreadState /\ Idle.pc = "idle"
    BY DEF Idle, ThreadState
  <2>2. [NewStore EXCEPT !.status = "gone"] \in StoreState
    BY DEF NewStore, StoreState
  <2> QED
    BY <1>20, <2>1, <2>2 DEF Crash, TypeOK
<1>21. CASE UNCHANGED vars
  BY <1>21 DEF vars, TypeOK
<1> QED
  BY <1>1, <1>2, <1>3, <1>4, <1>5, <1>6, <1>7, <1>8, <1>9, <1>10, <1>11, <1>12,
     <1>13, <1>14, <1>15, <1>16, <1>17, <1>18, <1>19, <1>20, <1>21
  DEF Next, Step, ResealStep, CloseStep

\* Every variable keeps its type in every behaviour of the store, and a
\* goroutine inside a call always knows the Store it works on.
THEOREM TypeCorrect == Spec => []TypeOK
  BY InitTypeOK, NextTypeOK, PTL DEF Spec

-----------------------------------------------------------------------------
(* The inductive invariant *)

\* No goroutine will ever touch s again.
Dead(s) ==
  /\ st[s].status = "gone"
  /\ ~st[s].timer
  /\ \A t \in Threads : th[t].on # s

\* The flock is held by the Store that is live, and by no other.
Locked == \A s \in Stores : st[s].status = "live" <=> lock = s

\* A Store that was not opened yet has no trace anywhere.
Fresh ==
  \A s \in Stores : st[s].status = "new" =>
    /\ blob.by # s
    /\ ~st[s].timer
    /\ st[s].writeGen = 0 /\ st[s].persistedGen = 0
    /\ \A t \in Threads : th[t].on # s

IdleOnNothing == \A t \in Threads : th[t].pc = "idle" => th[t].on = NoStore

\* Between taking and releasing flushMu a goroutine is its only holder, and
\* what the guard found true stays true.
Guarded ==
  \A t \in Threads : th[t].pc \in {"seal", "write"} =>
    /\ st[th[t].on].flushMu = t
    /\ th[t].gen > st[th[t].on].persistedGen

Settled ==
  \A t \in Threads : th[t].pc = "settle" /\ th[t].ret = "nil" =>
    th[t].gen <= st[th[t].on].persistedGen

\* A Store can only be gone while goroutines are left if it was closed.
Closing ==
  /\ \A s \in Stores : st[s].status = "gone" => st[s].closed \/ Dead(s)
  /\ \A t \in Threads : th[t].pc = "hard" => st[th[t].on].closed

\* A reseal that outlives its Store was overtaken by a Close.
Overtaken ==
  \A t \in Threads, s \in Stores :
    MidReseal(t, s) /\ st[s].status # "live" => overtook[s]

\* Only such a reseal can meet a zeroed dek.
Keyed ==
  /\ \A s \in Stores : ~st[s].dek => st[s].status = "gone"
  /\ \A t \in Threads : th[t].pc = "write" /\ ~th[t].sealed => overtook[th[t].on]

\* The guard's persistedGen covers the blob, as long as anyone may use it.
BlobGen ==
  \A s \in Stores : blob.by = s => blob.gen <= st[s].persistedGen \/ Dead(s)

\* Nothing is persisted, or on its way, that was not written.
Gens ==
  \A s \in Stores :
    /\ st[s].persistedGen <= st[s].writeGen
    /\ \A t \in Threads : MidReseal(t, s) => th[t].gen <= st[s].writeGen

\* While no Close has overtaken anything, the blob is the state of the live
\* Store that its persistedGen names.
Untorn ==
  (\A s \in Stores : ~overtook[s]) =>
    \A s \in Stores : lock = s => blob.data = Content(s, st[s].persistedGen)

IInv ==
  /\ TypeOK
  /\ Locked /\ Fresh /\ IdleOnNothing
  /\ Guarded /\ Settled
  /\ Closing /\ Overtaken /\ Keyed
  /\ BlobGen /\ BlobOpens
  /\ NothingForgotten
  /\ ImagesAreStates
  /\ Gens /\ Untorn


LEMMA ContentZero == ASSUME NEW s PROVE Content(s, 0) = base[s]
<1>1. 1..0 = {}
  OBVIOUS
<1> QED
  BY <1>1 DEF Content

LEMMA ContentGrows ==
  ASSUME NEW s, NEW g \in Nat
  PROVE  Content(s, g + 1) = Content(s, g) \cup {<<s, g + 1>>}
<1>1. 1..(g + 1) = (1..g) \cup {g + 1}
  OBVIOUS
<1> QED
  BY <1>1 DEF Content

LEMMA InitIInv == Init => IInv
<1> SUFFICES ASSUME Init PROVE IInv
  OBVIOUS
<1>1. TypeOK
  BY InitTypeOK
<1>2. /\ \A s \in Stores : st[s] = NewStore /\ s # NoStore
      /\ \A t \in Threads : th[t] = Idle
      /\ blob.by = NoStore /\ blob.good /\ lock = NoStore
  BY StoreAssumption DEF Init
<1>3. Locked /\ Fresh /\ IdleOnNothing /\ Guarded /\ Settled /\ Closing /\ Overtaken
  BY <1>2 DEF Locked, Fresh, IdleOnNothing, Guarded, Settled, Closing, Dead, Overtaken,
     MidReseal, NewStore, Idle
<1>4. Keyed /\ BlobGen /\ BlobOpens /\ NothingForgotten
  BY <1>2 DEF Keyed, BlobGen, BlobOpens, NothingForgotten, Unpersisted, NewStore, Idle
<1>5. ImagesAreStates /\ Gens /\ Untorn
  BY <1>2 DEF ImagesAreStates, Gens, Untorn, MidReseal, NewStore, Idle
<1> QED
  BY <1>1, <1>3, <1>4, <1>5 DEF IInv

LEMMA OpenInv ==
  ASSUME IInv, NEW s \in Stores, Open(s)
  PROVE  TypeOK' => IInv'
<1>1. (Locked /\ Fresh /\ IdleOnNothing)'
  BY StoreAssumption DEF IInv, Locked, Fresh, IdleOnNothing, Open, CanLock, TypeOK,
     StoreState, ThreadState
<1>2. (Guarded /\ Settled)'
  BY DEF IInv, Guarded, Settled, Open, TypeOK, StoreState, ThreadState
<1>3. (Closing /\ Overtaken /\ Keyed)'
  BY DEF IInv, Closing, Overtaken, Keyed, Dead, MidReseal, Open, TypeOK, StoreState, ThreadState
<1>4. (BlobGen /\ BlobOpens)'
  BY DEF IInv, BlobGen, BlobOpens, Dead, Open, TypeOK, StoreState, ThreadState

<1>5. NothingForgotten'
  <2>1. /\ st'[s].writeGen = 0 /\ st'[s].persistedGen = 0
        /\ \A v \in Stores \ {s} : st'[v] = st[v]
    BY DEF IInv, Fresh, Open, TypeOK, StoreState
  <2>2. th' = th
    BY DEF Open
  <2> QED
    BY <2>1, <2>2 DEF IInv, NothingForgotten, Unpersisted, Carried, MidReseal

<1>6. ImagesAreStates'
  <2>1. /\ st'[s].ram = blob.data /\ st'[s].writeGen = 0 /\ base'[s] = blob.data
        /\ \A v \in Stores \ {s} : st'[v] = st[v] /\ base'[v] = base[v]
        /\ blob.by # s /\ \A t \in Threads : th[t].on # s
    BY DEF IInv, Fresh, Open, TypeOK, StoreState
  <2>2. 1..0 = {}
    OBVIOUS
  <2>3. (st[s].ram = Content(s, st[s].writeGen))'
    BY <2>1, <2>2 DEF Content
  <2>4. blob' = blob /\ th' = th
    BY DEF Open
  <2> QED
    BY <2>1, <2>3, <2>4 DEF IInv, ImagesAreStates, MidReseal, TypeOK, Image, Content

<1>7. (Gens /\ Untorn)'
  <2>1. /\ st'[s].writeGen = 0 /\ st'[s].persistedGen = 0 /\ base'[s] = blob.data
        /\ \A v \in Stores \ {s} : st'[v] = st[v]
        /\ \A t \in Threads : th[t].on # s
        /\ lock' = s /\ blob' = blob /\ th' = th
    BY DEF IInv, Fresh, Open, TypeOK, StoreState
  <2>2. Gens'
    BY <2>1 DEF IInv, Gens, MidReseal
  <2>3. 1..0 = {}
    OBVIOUS
  <2> QED
    BY <2>1, <2>2, <2>3 DEF Untorn, Content
<1> QED
  BY <1>1, <1>2, <1>3, <1>4, <1>5, <1>6, <1>7 DEF IInv

LEMMA OpenFailsInv ==
  ASSUME IInv, NEW s \in Stores, OpenFails(s)
  PROVE  TypeOK' => IInv'
<1>1. (Locked /\ Fresh /\ IdleOnNothing)'
  BY DEF IInv, Locked, Fresh, IdleOnNothing, OpenFails, TypeOK, StoreState, ThreadState
<1>2. (Guarded /\ Settled)'
  BY DEF IInv, Guarded, Settled, OpenFails, TypeOK, StoreState, ThreadState
<1>3. (Closing /\ Overtaken /\ Keyed)'
  <2> DEFINE r == [st[s] EXCEPT !.status = "gone", !.dek = FALSE]
  <2>1. st[s] \in StoreState /\ st[s].status = "new" /\ st' = [st EXCEPT ![s] = r]
    BY StoreTyped DEF IInv, OpenFails
  <2>2. r.status = "gone" /\ r.timer = st[s].timer /\ r.closed = st[s].closed
    BY <2>1 DEF StoreState
  <2> HIDE DEF r
  <2>3. st'[s] = r /\ \A v \in Stores \ {s} : st'[v] = st[v]
    BY <2>1 DEF IInv, TypeOK
  <2>4. UNCHANGED <<lock, blob, th, base, overtook>>
    BY DEF OpenFails
  <2>5. ~st[s].timer /\ \A u \in Threads : th[u].on # s
    BY <2>1 DEF IInv, Fresh
  <2>6. \A u \in Threads : th[u].pc # "idle" => th[u].on \in Stores
    BY DEF IInv, TypeOK
  <2>7. Dead(s)'
    BY <2>2, <2>3, <2>4, <2>5 DEF Dead
  <2>8. Closing'
    BY <2>3, <2>4, <2>5, <2>6, <2>7 DEF IInv, Closing, Dead
  <2>9. Overtaken'
    BY <2>3, <2>4, <2>5 DEF IInv, Overtaken, MidReseal
  <2>10. Keyed'
    BY <2>2, <2>3, <2>4, <2>5 DEF IInv, Keyed
  <2> QED
    BY <2>8, <2>9, <2>10
<1>4. (BlobGen /\ BlobOpens)'
  BY DEF IInv, BlobGen, BlobOpens, Dead, OpenFails, TypeOK, StoreState, ThreadState
<1>5. NothingForgotten'
  BY DEF IInv, NothingForgotten, Unpersisted, Carried, MidReseal, OpenFails, TypeOK,
     StoreState, ThreadState
<1>6. ImagesAreStates'
  BY DEF IInv, ImagesAreStates, MidReseal, Content, OpenFails, TypeOK, StoreState, ThreadState
<1>7. (Gens /\ Untorn)'
  BY DEF IInv, Gens, Untorn, MidReseal, Content, OpenFails, TypeOK, StoreState, ThreadState
<1> QED
  BY <1>1, <1>2, <1>3, <1>4, <1>5, <1>6, <1>7 DEF IInv

LEMMA WriteInv ==
  ASSUME IInv, NEW s \in Stores, Write(s)
  PROVE  TypeOK' => IInv'
<1>1. (Locked /\ Fresh /\ IdleOnNothing)'
  BY DEF IInv, Locked, Fresh, IdleOnNothing, Write, MarkDirty, TypeOK, StoreState, ThreadState
<1>2. (Guarded /\ Settled)'
  BY DEF IInv, Guarded, Settled, Write, MarkDirty, TypeOK, StoreState, ThreadState
<1>3. (Closing /\ Overtaken /\ Keyed)'
  BY DEF IInv, Closing, Overtaken, Keyed, Dead, MidReseal, Write, MarkDirty, TypeOK,
     StoreState, ThreadState
<1>4. (BlobGen /\ BlobOpens)'
  BY DEF IInv, BlobGen, BlobOpens, Dead, Write, MarkDirty, TypeOK, StoreState, ThreadState
<1>5. NothingForgotten'
  BY DEF IInv, NothingForgotten, Unpersisted, Carried, MidReseal, Write, MarkDirty, TypeOK,
     StoreState, ThreadState

<1>6. ImagesAreStates'
  <2>1. /\ st'[s].ram = st[s].ram \cup {<<s, st[s].writeGen + 1>>}
        /\ st'[s].writeGen = st[s].writeGen + 1
        /\ st[s].writeGen \in Nat
        /\ \A v \in Stores \ {s} : st'[v] = st[v]
        /\ \A v \in Stores : st'[v].status = st[v].status
    BY DEF IInv, TypeOK, StoreState, Write, MarkDirty
  <2>2. st[s].ram = Content(s, st[s].writeGen)
    BY DEF IInv, ImagesAreStates, Write
  <2>3. st'[s].ram = Content(s, st'[s].writeGen)
    BY <2>1, <2>2, ContentGrows
  <2>4. UNCHANGED <<blob, th, base>>
    BY DEF Write
  <2> QED
    BY <2>1, <2>3, <2>4 DEF IInv, ImagesAreStates, MidReseal, Content
<1>7. (Gens /\ Untorn)'
  BY DEF IInv, Gens, Untorn, MidReseal, Content, Write, MarkDirty, TypeOK, StoreState,
     ThreadState
<1> QED
  BY <1>1, <1>2, <1>3, <1>4, <1>5, <1>6, <1>7 DEF IInv

LEMMA FlushInv ==
  ASSUME IInv, NEW s \in Stores, NEW t \in Callers, Flush(t, s)
  PROVE  TypeOK' => IInv'
<1>1. (Locked /\ Fresh /\ IdleOnNothing)'
  BY DEF IInv, Locked, Fresh, IdleOnNothing, Flush, Enter, Threads, TypeOK, StoreState,
     ThreadState
<1>2. (Guarded /\ Settled)'
  BY DEF IInv, Guarded, Settled, Flush, Enter, Threads, TypeOK, StoreState, ThreadState

<1>3. (Closing /\ Overtaken /\ Keyed)'
  <2>1. Closing'
    BY DEF IInv, Closing, Dead, Flush, Enter, Threads, TypeOK, StoreState, ThreadState
  <2>2. (Overtaken /\ Keyed)'
    BY DEF IInv, Overtaken, Keyed, MidReseal, Flush, Enter, Threads, TypeOK, StoreState,
       ThreadState
  <2> QED
    BY <2>1, <2>2
<1>4. (BlobGen /\ BlobOpens)'
  BY DEF IInv, BlobGen, BlobOpens, Dead, Flush, Enter, Threads, TypeOK, StoreState, ThreadState
<1>5. NothingForgotten'
  BY DEF IInv, NothingForgotten, Unpersisted, Carried, MidReseal, Flush, Enter, Threads,
     TypeOK, StoreState, ThreadState
<1>6. ImagesAreStates'
  BY DEF IInv, ImagesAreStates, MidReseal, Content, Flush, Enter, Threads, TypeOK,
     StoreState, ThreadState
<1>7. (Gens /\ Untorn)'
  BY DEF IInv, Gens, Untorn, MidReseal, Content, Flush, Enter, Threads, TypeOK, StoreState,
     ThreadState
<1> QED
  BY <1>1, <1>2, <1>3, <1>4, <1>5, <1>6, <1>7 DEF IInv

LEMMA CloseInv ==
  ASSUME IInv, NEW s \in Stores, NEW t \in Callers, Close(t, s)
  PROVE  TypeOK' => IInv'
<1>1. (Locked /\ Fresh /\ IdleOnNothing)'
  BY DEF IInv, Locked, Fresh, IdleOnNothing, Close, StopTimer, Enter, Threads, TypeOK,
     StoreState, ThreadState
<1>2. (Guarded /\ Settled)'
  BY DEF IInv, Guarded, Settled, Close, StopTimer, Enter, Threads, TypeOK, StoreState,
     ThreadState

<1>3. (Closing /\ Overtaken /\ Keyed)'
  <2>1. /\ \A v \in Stores : /\ st'[v].status = st[v].status /\ st'[v].closed = st[v].closed
                             /\ st'[v].dek = st[v].dek
                             /\ st'[v].timer => st[v].timer
        /\ \A u \in Threads \ {t} : th'[u] = th[u]
        /\ th'[t].pc = "check" /\ th'[t].on = s /\ st[s].status = "live"
        /\ overtook' = overtook
    BY DEF IInv, TypeOK, StoreState, ThreadState, Threads, Close, StopTimer, Enter
  <2>2. \A u \in Threads : th[u].pc # "idle" => th[u].on \in Stores
    BY DEF IInv, TypeOK
  <2>3. Closing'
    BY <2>1, <2>2 DEF IInv, Closing, Dead
  <2> QED
    BY <2>1, <2>2, <2>3 DEF IInv, Overtaken, Keyed, MidReseal
<1>4. (BlobGen /\ BlobOpens)'
  BY DEF IInv, BlobGen, BlobOpens, Dead, Close, StopTimer, Enter, Threads, TypeOK,
     StoreState, ThreadState

<1>5. NothingForgotten'
  <2>1. /\ \A v \in Stores : /\ st'[v].status = st[v].status /\ st'[v].dirty = st[v].dirty
                             /\ st'[v].writeGen = st[v].writeGen
                             /\ st'[v].persistedGen = st[v].persistedGen
        /\ \A u \in Threads, v \in Stores : MidReseal(u, v) => MidReseal(u, v)' /\ th'[u] = th[u]
    BY DEF IInv, TypeOK, StoreState, ThreadState, Close, StopTimer, Enter, MidReseal
  <2> QED
    BY <2>1 DEF IInv, NothingForgotten, Unpersisted, Carried
<1>6. ImagesAreStates'
  BY StoreAssumption DEF IInv, ImagesAreStates, MidReseal, Content, Close, StopTimer, Enter,
     Idle, Threads,
     TypeOK, StoreState, ThreadState, Image
<1>7. (Gens /\ Untorn)'
  BY DEF IInv, Gens, Untorn, MidReseal, Content, Close, StopTimer, Enter, Threads, TypeOK,
     StoreState, ThreadState
<1> QED
  BY <1>1, <1>2, <1>3, <1>4, <1>5, <1>6, <1>7 DEF IInv

LEMMA TimerFiresInv ==
  ASSUME IInv, NEW s \in Stores, NEW t \in Timers, TimerFires(t, s)
  PROVE  TypeOK' => IInv'
<1>1. (Locked /\ Fresh /\ IdleOnNothing)'
  BY DEF IInv, Locked, Fresh, IdleOnNothing, TimerFires, Enter, Threads, TypeOK, StoreState,
     ThreadState
<1>2. (Guarded /\ Settled)'
  BY DEF IInv, Guarded, Settled, TimerFires, Enter, Threads, TypeOK, StoreState, ThreadState

<1>3. (Closing /\ Overtaken /\ Keyed)'
  <2>1. Closing'
    BY DEF IInv, Closing, Dead, TimerFires, Enter, Threads, TypeOK, StoreState, ThreadState
  <2>2. (Overtaken /\ Keyed)'
    BY DEF IInv, Overtaken, Keyed, MidReseal, TimerFires, Enter, Threads, TypeOK, StoreState,
       ThreadState
  <2> QED
    BY <2>1, <2>2
<1>4. (BlobGen /\ BlobOpens)'
  BY DEF IInv, BlobGen, BlobOpens, Dead, TimerFires, Enter, Threads, TypeOK, StoreState,
     ThreadState
<1>5. NothingForgotten'
  BY DEF IInv, NothingForgotten, Unpersisted, Carried, MidReseal, TimerFires, Enter, Threads,
     TypeOK, StoreState, ThreadState, Image

<1>6. ImagesAreStates'
  <2>1. /\ \A v \in Stores : /\ st'[v].status = st[v].status /\ st'[v].ram = st[v].ram
                             /\ st'[v].writeGen = st[v].writeGen
        /\ \A u \in Threads, v \in Stores :
             MidReseal(u, v)' => MidReseal(u, v) /\ th'[u] = th[u]
        /\ UNCHANGED <<blob, base>>
    BY DEF IInv, TypeOK, StoreState, ThreadState, TimerFires, Enter, MidReseal
  <2> QED
    BY <2>1 DEF IInv, ImagesAreStates, Content
<1>7. (Gens /\ Untorn)'
  BY DEF IInv, Gens, Untorn, MidReseal, Content, TimerFires, Enter, Threads, TypeOK,
     StoreState, ThreadState
<1> QED
  BY <1>1, <1>2, <1>3, <1>4, <1>5, <1>6, <1>7 DEF IInv

\* A goroutine whose reseal returns is out of it, with the error as only change.
LEMMA ReturnsFacts ==
  ASSUME TypeOK, NEW t \in Threads, th[t].pc # "idle",
         NEW r \in {"nil", "err"}, ResealReturns(t, r)
  PROVE  /\ th[t].on \in Stores
         /\ th'[t].pc \in {"mark", "returned"} /\ th'[t].pc = AfterReseal(t)
         /\ th'[t].on = th[t].on /\ th'[t].op = th[t].op /\ th'[t].asked = th[t].asked
         /\ th'[t].gen = th[t].gen /\ th'[t].ret = r
         /\ \A u \in Threads \ {t} : th'[u] = th[u]
         /\ \A v \in Stores : ~MidReseal(t, v)'
         /\ \A u \in Threads \ {t}, v \in Stores : MidReseal(u, v)' <=> MidReseal(u, v)
<1> DEFINE a == AfterReseal(t)
           x == [th[t] EXCEPT !.ret = r, !.pc = a]
<1>1. th[t] \in ThreadState /\ th[t].on \in Stores
  BY ThreadTyped
<1>2. a \in {"mark", "returned"}
  BY DEF AfterReseal
<1>3. th' = [th EXCEPT ![t] = x]
  BY DEF ResealReturns
<1> HIDE DEF a
<1>4. /\ x.pc = a /\ x.ret = r /\ x.on = th[t].on /\ x.op = th[t].op
      /\ x.asked = th[t].asked /\ x.gen = th[t].gen
  BY <1>1 DEF ThreadState
<1> HIDE DEF x
<1>5. th'[t] = x /\ \A u \in Threads \ {t} : th'[u] = th[u]
  BY <1>3 DEF TypeOK
<1>6. /\ \A v \in Stores : ~MidReseal(t, v)'
      /\ \A u \in Threads \ {t}, v \in Stores : MidReseal(u, v)' <=> MidReseal(u, v)
  BY <1>2, <1>4, <1>5 DEF MidReseal
<1> QED
  BY <1>1, <1>2, <1>4, <1>5, <1>6 DEF a

LEMMA NothingToDoInv ==
  ASSUME IInv, NEW t \in Threads, NothingToDo(t)
  PROVE  TypeOK' => IInv'
<1> DEFINE s == th[t].on
<1>0. th[t].pc = "check" /\ ResealReturns(t, "nil") /\ TypeOK
  BY DEF NothingToDo, IInv
<1>1. /\ s \in Stores
      /\ th'[t].pc \in {"mark", "returned"} /\ th'[t].on = s
      /\ \A u \in Threads \ {t} : th'[u] = th[u]
      /\ \A v \in Stores : ~MidReseal(t, v)'
      /\ \A u \in Threads \ {t}, v \in Stores : MidReseal(u, v)' <=> MidReseal(u, v)
  BY <1>0, ReturnsFacts
<1>2. /\ th[t].gen \in Nat /\ st[s].persistedGen \in Nat /\ st[s].writeGen \in Nat
      /\ \A u \in Threads : th[u].pc # "idle" => th[u].on \in Stores
  BY <1>0, <1>1, ThreadTyped, StoreTyped DEF TypeOK
<1>3. /\ UNCHANGED <<lock, blob, st, base>>
      /\ \A v \in Stores : overtook[v] => overtook'[v]
  BY <1>1 DEF NothingToDo, IInv, TypeOK, StoreState
<1>4. (Locked /\ Fresh /\ IdleOnNothing)'
  BY <1>0, <1>1, <1>3 DEF IInv, Locked, Fresh, IdleOnNothing
<1>5. (Guarded /\ Settled)'
  BY <1>1, <1>2, <1>3 DEF IInv, Guarded, Settled
<1>6. (Closing /\ Overtaken /\ Keyed)'
  BY <1>0, <1>1, <1>2, <1>3 DEF IInv, Closing, Overtaken, Keyed, Dead
<1>7. (BlobGen /\ BlobOpens)'
  BY <1>0, <1>1, <1>3 DEF IInv, BlobGen, BlobOpens, Dead, TypeOK
<1>8. NothingForgotten'
  BY <1>0, <1>1, <1>2, <1>3 DEF IInv, NothingForgotten, Unpersisted, Carried, Gens,
     MidReseal, Settled
<1>9. ImagesAreStates'
  BY <1>1, <1>3 DEF IInv, ImagesAreStates, Content
<1>10. (Gens /\ Untorn)'
  BY <1>1, <1>3 DEF IInv, Gens, Untorn, Content
<1> QED
  BY <1>4, <1>5, <1>6, <1>7, <1>8, <1>9, <1>10 DEF IInv

\* What a snapshot changes: its goroutine, and the dirty flag.
LEMMA SnapshotFacts ==
  ASSUME TypeOK, NEW t \in Threads, Snapshot(t)
  PROVE  /\ th[t].pc = "check" /\ th[t].on \in Stores
         /\ st[th[t].on].dirty /\ ~st[th[t].on].closed
         /\ th'[t].pc = "guard" /\ th'[t].on = th[t].on
         /\ th'[t].op = th[t].op /\ th'[t].asked = th[t].asked
         /\ th'[t].raw = st[th[t].on].ram /\ th'[t].gen = st[th[t].on].writeGen
         /\ \A u \in Threads \ {t} : th'[u] = th[u]
         /\ \A v \in Stores :
              /\ st'[v].status = st[v].status /\ st'[v].ram = st[v].ram
              /\ st'[v].closed = st[v].closed /\ st'[v].writeGen = st[v].writeGen
              /\ st'[v].timer = st[v].timer /\ st'[v].flushMu = st[v].flushMu
              /\ st'[v].persistedGen = st[v].persistedGen /\ st'[v].dek = st[v].dek
              /\ st'[v].lastFlushErr = st[v].lastFlushErr
              /\ st'[v].failedGen = st[v].failedGen
              /\ v # th[t].on => st'[v].dirty = st[v].dirty
         /\ UNCHANGED <<lock, blob, base, overtook>>
<1> DEFINE s == th[t].on
           x == [th[t] EXCEPT !.raw = st[s].ram, !.gen = st[s].writeGen, !.pc = "guard"]
           r == [st[s] EXCEPT !.dirty = FALSE]
<1>1. th[t].pc = "check" /\ MustReseal(s) /\ UNCHANGED <<lock, blob, base, overtook>>
  BY DEF Snapshot
<1>2. th[t] \in ThreadState /\ s \in Stores /\ st[s] \in StoreState
  BY <1>1, ThreadTyped, StoreTyped
<1>3. th' = [th EXCEPT ![t] = x]
  BY DEF Snapshot, SnapshotGen
<1>4. st' = [st EXCEPT ![s] = r]
  BY DEF Snapshot
<1>5. /\ x.pc = "guard" /\ x.on = s /\ x.op = th[t].op /\ x.asked = th[t].asked
      /\ x.raw = st[s].ram /\ x.gen = st[s].writeGen
  BY <1>2 DEF ThreadState
<1>6. /\ r.status = st[s].status /\ r.ram = st[s].ram /\ r.closed = st[s].closed
      /\ r.writeGen = st[s].writeGen /\ r.timer = st[s].timer /\ r.flushMu = st[s].flushMu
      /\ r.persistedGen = st[s].persistedGen /\ r.dek = st[s].dek
      /\ r.lastFlushErr = st[s].lastFlushErr /\ r.failedGen = st[s].failedGen
  BY <1>2 DEF StoreState
<1> HIDE DEF x, r
<1>7. th'[t] = x /\ \A u \in Threads \ {t} : th'[u] = th[u]
  BY <1>3 DEF TypeOK
<1>8. st'[s] = r /\ \A v \in Stores \ {s} : st'[v] = st[v]
  BY <1>2, <1>4 DEF TypeOK
<1> QED
  BY <1>1, <1>2, <1>5, <1>6, <1>7, <1>8 DEF MustReseal

LEMMA SnapshotInv ==
  ASSUME IInv, NEW t \in Threads, Snapshot(t)
  PROVE  TypeOK' => IInv'
<1> DEFINE s == th[t].on
<1>0. /\ th[t].pc = "check" /\ s \in Stores /\ ~st[s].closed
      /\ th'[t].pc = "guard" /\ th'[t].on = s
      /\ th'[t].raw = st[s].ram /\ th'[t].gen = st[s].writeGen
      /\ \A u \in Threads \ {t} : th'[u] = th[u]
      /\ \A v \in Stores :
           /\ st'[v].status = st[v].status /\ st'[v].ram = st[v].ram
           /\ st'[v].closed = st[v].closed /\ st'[v].writeGen = st[v].writeGen
           /\ st'[v].timer = st[v].timer /\ st'[v].flushMu = st[v].flushMu
           /\ st'[v].persistedGen = st[v].persistedGen /\ st'[v].dek = st[v].dek
           /\ v # s => st'[v].dirty = st[v].dirty
      /\ UNCHANGED <<lock, blob, base, overtook>>
  BY SnapshotFacts DEF IInv
<1>00. /\ st[s].status = "live" /\ st[s].writeGen \in Nat
       /\ \A u \in Threads : th[u].pc # "idle" => th[u].on \in Stores
  BY <1>0, StoreTyped DEF IInv, TypeOK, Closing, Dead, Fresh, StoreState
<1>1. (Locked /\ Fresh /\ IdleOnNothing)'
  BY <1>0, <1>00 DEF IInv, Locked, Fresh, IdleOnNothing
<1>2. (Guarded /\ Settled)'
  BY <1>0, <1>00 DEF IInv, Guarded, Settled
<1>3. (Closing /\ Overtaken /\ Keyed)'
  BY <1>0, <1>00 DEF IInv, Closing, Overtaken, Keyed, Dead, MidReseal
<1>4. (BlobGen /\ BlobOpens)'
  BY <1>0, <1>00 DEF IInv, BlobGen, BlobOpens, Dead
<1>5. NothingForgotten'
  BY <1>0, <1>00 DEF IInv, NothingForgotten, Unpersisted, Carried, MidReseal
<1>6. ImagesAreStates'
  BY <1>0, <1>00 DEF IInv, ImagesAreStates, MidReseal, Content
<1>7. (Gens /\ Untorn)'
  BY <1>0, <1>00 DEF IInv, Gens, Untorn, MidReseal, Content
<1> QED
  BY <1>1, <1>2, <1>3, <1>4, <1>5, <1>6, <1>7 DEF IInv

LEMMA SerializeFailsInv ==
  ASSUME IInv, NEW t \in Threads, SerializeFails(t)
  PROVE  TypeOK' => IInv'
<1> DEFINE s == th[t].on
<1>0. th[t].pc = "check" /\ ResealReturns(t, "err") /\ TypeOK
  BY DEF SerializeFails, IInv
<1>1. /\ s \in Stores
      /\ th'[t].pc \in {"mark", "returned"} /\ th'[t].on = s
      /\ \A u \in Threads \ {t} : th'[u] = th[u]
      /\ \A v \in Stores : ~MidReseal(t, v)'
      /\ \A u \in Threads \ {t}, v \in Stores : MidReseal(u, v)' <=> MidReseal(u, v)
  BY <1>0, ReturnsFacts
<1>2. /\ th[t].gen \in Nat /\ st[s].persistedGen \in Nat /\ st[s].writeGen \in Nat
      /\ \A u \in Threads : th[u].pc # "idle" => th[u].on \in Stores
  BY <1>0, <1>1, ThreadTyped, StoreTyped DEF TypeOK
<1>3. /\ \A v \in Stores :
           /\ st'[v].status = st[v].status
           /\ st'[v].ram = st[v].ram
           /\ st'[v].dirty = st[v].dirty
           /\ st'[v].closed = st[v].closed
           /\ st'[v].writeGen = st[v].writeGen
           /\ st'[v].timer = st[v].timer
           /\ st'[v].failedGen = st[v].failedGen
           /\ st'[v].flushMu = st[v].flushMu
           /\ st'[v].persistedGen = st[v].persistedGen
           /\ st'[v].dek = st[v].dek
      /\ st[s].dirty
      /\ UNCHANGED <<lock, blob, base, overtook>>
  BY <1>1 DEF SerializeFails, MustReseal, IInv, TypeOK, StoreState
<1>4. (Locked /\ Fresh /\ IdleOnNothing)'
  BY <1>0, <1>1, <1>3 DEF IInv, Locked, Fresh, IdleOnNothing
<1>5. (Guarded /\ Settled)'
  BY <1>1, <1>2, <1>3 DEF IInv, Guarded, Settled
<1>6. (Closing /\ Overtaken /\ Keyed)'
  BY <1>0, <1>1, <1>2, <1>3 DEF IInv, Closing, Overtaken, Keyed, Dead
<1>7. (BlobGen /\ BlobOpens)'
  BY <1>0, <1>1, <1>3 DEF IInv, BlobGen, BlobOpens, Dead, TypeOK
<1>8. NothingForgotten'
  BY <1>0, <1>1, <1>2, <1>3 DEF IInv, NothingForgotten, Unpersisted, Carried, Gens,
     MidReseal, Settled
<1>9. ImagesAreStates'
  BY <1>1, <1>3 DEF IInv, ImagesAreStates, Content
<1>10. (Gens /\ Untorn)'
  BY <1>1, <1>3 DEF IInv, Gens, Untorn, Content
<1> QED
  BY <1>4, <1>5, <1>6, <1>7, <1>8, <1>9, <1>10 DEF IInv

LEMMA SupersededInv ==
  ASSUME IInv, NEW t \in Threads, Superseded(t)
  PROVE  TypeOK' => IInv'
<1> DEFINE s == th[t].on
<1>0. th[t].pc = "guard" /\ ResealReturns(t, "nil") /\ TypeOK
  BY DEF Superseded, IInv
<1>1. /\ s \in Stores
      /\ th'[t].pc \in {"mark", "returned"} /\ th'[t].on = s
      /\ \A u \in Threads \ {t} : th'[u] = th[u]
      /\ \A v \in Stores : ~MidReseal(t, v)'
      /\ \A u \in Threads \ {t}, v \in Stores : MidReseal(u, v)' <=> MidReseal(u, v)
  BY <1>0, ReturnsFacts
<1>2. /\ th[t].gen \in Nat /\ st[s].persistedGen \in Nat /\ st[s].writeGen \in Nat
      /\ \A u \in Threads : th[u].pc # "idle" => th[u].on \in Stores
  BY <1>0, <1>1, ThreadTyped, StoreTyped DEF TypeOK
<1>3. /\ ~(th[t].gen > st[s].persistedGen)
      /\ UNCHANGED <<lock, blob, st, base, overtook>>
  BY <1>1 DEF Superseded, IsNewer, IInv, TypeOK, StoreState
<1>4. (Locked /\ Fresh /\ IdleOnNothing)'
  BY <1>0, <1>1, <1>3 DEF IInv, Locked, Fresh, IdleOnNothing
<1>5. (Guarded /\ Settled)'
  BY <1>1, <1>2, <1>3 DEF IInv, Guarded, Settled
<1>6. (Closing /\ Overtaken /\ Keyed)'
  BY <1>0, <1>1, <1>2, <1>3 DEF IInv, Closing, Overtaken, Keyed, Dead
<1>7. (BlobGen /\ BlobOpens)'
  BY <1>0, <1>1, <1>3 DEF IInv, BlobGen, BlobOpens, Dead, TypeOK
<1>8. NothingForgotten'
  BY <1>0, <1>1, <1>2, <1>3 DEF IInv, NothingForgotten, Unpersisted, Carried, Gens,
     MidReseal, Settled
<1>9. ImagesAreStates'
  BY <1>1, <1>3 DEF IInv, ImagesAreStates, Content
<1>10. (Gens /\ Untorn)'
  BY <1>1, <1>3 DEF IInv, Gens, Untorn, Content
<1> QED
  BY <1>4, <1>5, <1>6, <1>7, <1>8, <1>9, <1>10 DEF IInv

LEMMA StartWriteInv ==
  ASSUME IInv, NEW t \in Threads, StartWrite(t)
  PROVE  TypeOK' => IInv'
<1>1. (Locked /\ Fresh /\ IdleOnNothing)'
  BY DEF IInv, Locked, Fresh, IdleOnNothing, StartWrite, IsNewer, TypeOK, StoreState,
     ThreadState
<1>2. (Guarded /\ Settled)'
  BY StoreAssumption DEF IInv, Guarded, Settled, StartWrite, IsNewer, TypeOK, StoreState,
     ThreadState
<1>3. (Closing /\ Overtaken /\ Keyed)'
  BY DEF IInv, Closing, Overtaken, Keyed, Dead, MidReseal, StartWrite, IsNewer, TypeOK,
     StoreState, ThreadState
<1>4. (BlobGen /\ BlobOpens)'
  BY DEF IInv, BlobGen, BlobOpens, Dead, StartWrite, IsNewer, TypeOK, StoreState, ThreadState

<1>5. NothingForgotten'
  <2>1. /\ \A v \in Stores : /\ st'[v].status = st[v].status /\ st'[v].dirty = st[v].dirty
                             /\ st'[v].writeGen = st[v].writeGen
                             /\ st'[v].persistedGen = st[v].persistedGen
        /\ \A u \in Threads, v \in Stores :
             MidReseal(u, v) => MidReseal(u, v)' /\ th'[u].gen = th[u].gen
    BY DEF IInv, TypeOK, StoreState, ThreadState, StartWrite, MidReseal
  <2> QED
    BY <2>1 DEF IInv, NothingForgotten, Unpersisted, Carried
<1>6. ImagesAreStates'
  BY DEF IInv, ImagesAreStates, MidReseal, Content, StartWrite, IsNewer, TypeOK, StoreState,
     ThreadState
<1>7. (Gens /\ Untorn)'
  BY DEF IInv, Gens, Untorn, MidReseal, Content, StartWrite, IsNewer, TypeOK, StoreState,
     ThreadState
<1> QED
  BY <1>1, <1>2, <1>3, <1>4, <1>5, <1>6, <1>7 DEF IInv

LEMMA SealInv ==
  ASSUME IInv, NEW t \in Threads, Seal(t)
  PROVE  TypeOK' => IInv'
<1> DEFINE s == th[t].on
<1>0. /\ th[t].pc = "seal" /\ s \in Stores
      /\ th'[t].pc = "write" /\ th'[t].on = s /\ th'[t].sealed = st[s].dek
      /\ th'[t].raw = th[t].raw /\ th'[t].gen = th[t].gen
      /\ \A u \in Threads \ {t} : th'[u] = th[u]
      /\ UNCHANGED <<lock, blob, st, base, overtook>>
  BY DEF IInv, TypeOK, ThreadState, Seal
<1>00. \A u \in Threads : th[u].pc # "idle" => th[u].on \in Stores
  BY DEF IInv, TypeOK
<1>1. (Locked /\ Fresh /\ IdleOnNothing)'
  BY <1>0, <1>00 DEF IInv, Locked, Fresh, IdleOnNothing
<1>2. (Guarded /\ Settled)'
  BY <1>0, <1>00 DEF IInv, Guarded, Settled
<1>3. (Closing /\ Overtaken /\ Keyed)'
  BY <1>0, <1>00 DEF IInv, Closing, Overtaken, Keyed, Dead, MidReseal
<1>4. (BlobGen /\ BlobOpens)'
  BY <1>0, <1>00 DEF IInv, BlobGen, BlobOpens, Dead
<1>5. NothingForgotten'
  BY <1>0, <1>00 DEF IInv, NothingForgotten, Unpersisted, Carried, MidReseal
<1>6. ImagesAreStates'
  BY <1>0, <1>00 DEF IInv, ImagesAreStates, MidReseal, Content
<1>7. (Gens /\ Untorn)'
  BY <1>0, <1>00 DEF IInv, Gens, Untorn, MidReseal, Content
<1> QED
  BY <1>1, <1>2, <1>3, <1>4, <1>5, <1>6, <1>7 DEF IInv

LEMMA AtomicWriteInv ==
  ASSUME IInv, NEW t \in Threads, AtomicWrite(t)
  PROVE  TypeOK' => IInv'
<1> DEFINE s == th[t].on
<1>0. /\ th[t].pc = "write" /\ s \in Stores /\ s # NoStore /\ th[t].gen \in Nat
      /\ th'[t].pc = "settle" /\ th'[t].on = s
      /\ th'[t].raw = th[t].raw /\ th'[t].gen = th[t].gen
      /\ \A u \in Threads \ {t} : th'[u] = th[u]
      /\ st'[s].persistedGen = th[t].gen
      /\ \A v \in Stores \ {s} : st'[v] = st[v]
      /\ \A v \in Stores :
           /\ st'[v].status = st[v].status /\ st'[v].ram = st[v].ram
           /\ st'[v].dirty = st[v].dirty /\ st'[v].closed = st[v].closed
           /\ st'[v].writeGen = st[v].writeGen /\ st'[v].timer = st[v].timer
           /\ st'[v].dek = st[v].dek
      /\ blob'.by = s /\ blob'.gen = th[t].gen /\ blob'.data = th[t].raw
      /\ blob'.good = th[t].sealed
      /\ UNCHANGED <<lock, base, overtook>>
  BY StoreAssumption DEF IInv, TypeOK, StoreState, ThreadState, AtomicWrite
<1>00. /\ \A v \in Stores : st[v].persistedGen \in Nat /\ st[v].writeGen \in Nat
       /\ \A u \in Threads : th[u].gen \in Nat
       /\ \A u \in Threads : th[u].pc # "idle" => th[u].on \in Stores
       /\ st[s].flushMu = t /\ th[t].gen > st[s].persistedGen
       /\ st[s].status # "new"
  BY <1>0, StoreTyped, ThreadTyped DEF IInv, TypeOK, Guarded, Fresh
<1>1. (Locked /\ Fresh /\ IdleOnNothing)'
  BY <1>0, <1>00 DEF IInv, Locked, Fresh, IdleOnNothing
<1>2. (Guarded /\ Settled)'
  BY <1>0, <1>00 DEF IInv, Guarded, Settled
<1>3. (Closing /\ Overtaken /\ Keyed)'
  BY <1>0, <1>00 DEF IInv, Closing, Overtaken, Keyed, Dead, MidReseal
<1>4. (BlobGen /\ BlobOpens)'
  <2>1. ~th[t].sealed => overtook[s]
    BY <1>0 DEF IInv, Keyed
  <2>2. th[t].gen <= th[t].gen
    BY <1>0
  <2> QED
    BY <1>0, <2>1, <2>2 DEF BlobGen, BlobOpens
<1>5. NothingForgotten'
  BY <1>0, <1>00 DEF IInv, NothingForgotten, Unpersisted, Carried, MidReseal
<1>6. ImagesAreStates'
  BY <1>0, <1>00 DEF IInv, ImagesAreStates, MidReseal, Content
<1>7. (Gens /\ Untorn)'
  <2>1. MidReseal(t, s) /\ th[t].gen <= st[s].writeGen
    BY <1>0 DEF IInv, Gens, MidReseal
  <2>2. \A u \in Threads, v \in Stores : MidReseal(u, v)' => MidReseal(u, v) /\ th'[u].gen = th[u].gen
    BY <1>0 DEF MidReseal
  <2>3. Gens'
    BY <1>0, <2>1, <2>2 DEF IInv, Gens
  <2>4. ASSUME \A v \in Stores : ~overtook[v] PROVE lock = s
    BY <1>0, <2>1, <2>4 DEF IInv, Overtaken, Locked
  <2>5. th[t].raw = Content(s, th[t].gen)
    BY <1>0, <2>1 DEF IInv, ImagesAreStates
  <2>6. Untorn'
    BY <1>0, <2>4, <2>5 DEF Untorn, Content
  <2> QED
    BY <2>3, <2>6
<1> QED
  BY <1>1, <1>2, <1>3, <1>4, <1>5, <1>6, <1>7 DEF IInv

LEMMA WriteFailsInv ==
  ASSUME IInv, NEW t \in Threads, WriteFails(t)
  PROVE  TypeOK' => IInv'
<1>1. (Locked /\ Fresh /\ IdleOnNothing)'
  BY DEF IInv, Locked, Fresh, IdleOnNothing, WriteFails, TypeOK, StoreState, ThreadState
<1>2. (Guarded /\ Settled)'
  BY DEF IInv, Guarded, Settled, WriteFails, TypeOK, StoreState, ThreadState
<1>3. (Closing /\ Overtaken /\ Keyed)'
  BY DEF IInv, Closing, Overtaken, Keyed, Dead, MidReseal, WriteFails, TypeOK, StoreState,
     ThreadState
<1>4. (BlobGen /\ BlobOpens)'
  BY DEF IInv, BlobGen, BlobOpens, Dead, WriteFails, TypeOK, StoreState, ThreadState
<1>5. NothingForgotten'
  BY StoreAssumption DEF IInv, NothingForgotten, Unpersisted, Carried, MidReseal, WriteFails,
     TypeOK, StoreState, ThreadState
<1>6. ImagesAreStates'
  BY DEF IInv, ImagesAreStates, MidReseal, Content, WriteFails, TypeOK, StoreState, ThreadState
<1>7. (Gens /\ Untorn)'
  BY DEF IInv, Gens, Untorn, MidReseal, Content, WriteFails, TypeOK, StoreState, ThreadState
<1> QED
  BY <1>1, <1>2, <1>3, <1>4, <1>5, <1>6, <1>7 DEF IInv

LEMMA SettleOkInv ==
  ASSUME IInv, NEW t \in Threads, SettleOk(t)
  PROVE  TypeOK' => IInv'
<1> DEFINE s == th[t].on
<1>0. th[t].pc = "settle" /\ ResealReturns(t, "nil") /\ TypeOK
  BY DEF SettleOk, IInv
<1>1. /\ s \in Stores
      /\ th'[t].pc \in {"mark", "returned"} /\ th'[t].on = s
      /\ \A u \in Threads \ {t} : th'[u] = th[u]
      /\ \A v \in Stores : ~MidReseal(t, v)'
      /\ \A u \in Threads \ {t}, v \in Stores : MidReseal(u, v)' <=> MidReseal(u, v)
  BY <1>0, ReturnsFacts
<1>2. /\ th[t].gen \in Nat /\ st[s].persistedGen \in Nat /\ st[s].writeGen \in Nat
      /\ \A u \in Threads : th[u].pc # "idle" => th[u].on \in Stores
  BY <1>0, <1>1, ThreadTyped, StoreTyped DEF TypeOK
<1>3. /\ \A v \in Stores :
           /\ st'[v].status = st[v].status
           /\ st'[v].ram = st[v].ram
           /\ st'[v].dirty = st[v].dirty
           /\ st'[v].closed = st[v].closed
           /\ st'[v].writeGen = st[v].writeGen
           /\ st'[v].timer = st[v].timer
           /\ st'[v].failedGen = st[v].failedGen
           /\ st'[v].flushMu = st[v].flushMu
           /\ st'[v].persistedGen = st[v].persistedGen
           /\ st'[v].dek = st[v].dek
      /\ th[t].ret = "nil"
      /\ UNCHANGED <<lock, blob, base, overtook>>
  BY <1>1 DEF SettleOk, IInv, TypeOK, StoreState
<1>4. (Locked /\ Fresh /\ IdleOnNothing)'
  BY <1>0, <1>1, <1>3 DEF IInv, Locked, Fresh, IdleOnNothing
<1>5. (Guarded /\ Settled)'
  BY <1>1, <1>2, <1>3 DEF IInv, Guarded, Settled
<1>6. (Closing /\ Overtaken /\ Keyed)'
  BY <1>0, <1>1, <1>2, <1>3 DEF IInv, Closing, Overtaken, Keyed, Dead
<1>7. (BlobGen /\ BlobOpens)'
  BY <1>0, <1>1, <1>3 DEF IInv, BlobGen, BlobOpens, Dead, TypeOK
<1>8. NothingForgotten'
  BY <1>0, <1>1, <1>2, <1>3 DEF IInv, NothingForgotten, Unpersisted, Carried, Gens,
     MidReseal, Settled
<1>9. ImagesAreStates'
  BY <1>1, <1>3 DEF IInv, ImagesAreStates, Content
<1>10. (Gens /\ Untorn)'
  BY <1>1, <1>3 DEF IInv, Gens, Untorn, Content
<1> QED
  BY <1>4, <1>5, <1>6, <1>7, <1>8, <1>9, <1>10 DEF IInv

LEMMA SettleErrInv ==
  ASSUME IInv, NEW t \in Threads, SettleErr(t)
  PROVE  TypeOK' => IInv'
<1> DEFINE s == th[t].on
<1>0. th[t].pc = "settle" /\ ResealReturns(t, "err") /\ TypeOK
  BY DEF SettleErr, IInv
<1>1. /\ s \in Stores
      /\ th'[t].pc \in {"mark", "returned"} /\ th'[t].on = s
      /\ \A u \in Threads \ {t} : th'[u] = th[u]
      /\ \A v \in Stores : ~MidReseal(t, v)'
      /\ \A u \in Threads \ {t}, v \in Stores : MidReseal(u, v)' <=> MidReseal(u, v)
  BY <1>0, ReturnsFacts
<1>2. /\ th[t].gen \in Nat /\ st[s].persistedGen \in Nat /\ st[s].writeGen \in Nat
      /\ \A u \in Threads : th[u].pc # "idle" => th[u].on \in Stores
  BY <1>0, <1>1, ThreadTyped, StoreTyped DEF TypeOK
<1>3. /\ \A v \in Stores :
           /\ st'[v].status = st[v].status
           /\ st'[v].ram = st[v].ram
           /\ st'[v].closed = st[v].closed
           /\ st'[v].writeGen = st[v].writeGen
           /\ st'[v].timer = st[v].timer
           /\ st'[v].flushMu = st[v].flushMu
           /\ st'[v].persistedGen = st[v].persistedGen
           /\ st'[v].dek = st[v].dek
           /\ st[v].dirty => st'[v].dirty
      /\ st'[s].dirty
      /\ UNCHANGED <<lock, blob, base, overtook>>
  BY <1>1 DEF SettleErr, FlushFailed, IInv, TypeOK, StoreState
<1>4. (Locked /\ Fresh /\ IdleOnNothing)'
  BY <1>0, <1>1, <1>3 DEF IInv, Locked, Fresh, IdleOnNothing
<1>5. (Guarded /\ Settled)'
  BY <1>1, <1>2, <1>3 DEF IInv, Guarded, Settled
<1>6. (Closing /\ Overtaken /\ Keyed)'
  BY <1>0, <1>1, <1>2, <1>3 DEF IInv, Closing, Overtaken, Keyed, Dead
<1>7. (BlobGen /\ BlobOpens)'
  BY <1>0, <1>1, <1>3 DEF IInv, BlobGen, BlobOpens, Dead, TypeOK
<1>8. NothingForgotten'
  BY <1>0, <1>1, <1>2, <1>3 DEF IInv, NothingForgotten, Unpersisted, Carried, Gens,
     MidReseal, Settled
<1>9. ImagesAreStates'
  BY <1>1, <1>3 DEF IInv, ImagesAreStates, Content
<1>10. (Gens /\ Untorn)'
  BY <1>1, <1>3 DEF IInv, Gens, Untorn, Content
<1> QED
  BY <1>4, <1>5, <1>6, <1>7, <1>8, <1>9, <1>10 DEF IInv

LEMMA MarkClosedInv ==
  ASSUME IInv, NEW t \in Threads, MarkClosed(t)
  PROVE  TypeOK' => IInv'
<1>1. (Locked /\ Fresh /\ IdleOnNothing)'
  BY DEF IInv, Locked, Fresh, IdleOnNothing, MarkClosed, TypeOK, StoreState, ThreadState
<1>2. (Guarded /\ Settled)'
  BY DEF IInv, Guarded, Settled, MarkClosed, TypeOK, StoreState, ThreadState
<1>3. (Closing /\ Overtaken /\ Keyed)'
  BY DEF IInv, Closing, Overtaken, Keyed, Dead, MidReseal, MarkClosed, TypeOK, StoreState,
     ThreadState
<1>4. (BlobGen /\ BlobOpens)'
  BY DEF IInv, BlobGen, BlobOpens, Dead, MarkClosed, TypeOK, StoreState, ThreadState

<1>5. NothingForgotten'
  <2>1. /\ \A v \in Stores : /\ st'[v].status = st[v].status /\ st'[v].dirty = st[v].dirty
                             /\ st'[v].writeGen = st[v].writeGen
                             /\ st'[v].persistedGen = st[v].persistedGen
        /\ \A u \in Threads, v \in Stores : MidReseal(u, v) => MidReseal(u, v)' /\ th'[u] = th[u]
    BY DEF IInv, TypeOK, StoreState, ThreadState, MarkClosed, MidReseal
  <2> QED
    BY <2>1 DEF IInv, NothingForgotten, Unpersisted, Carried
<1>6. ImagesAreStates'
  BY DEF IInv, ImagesAreStates, MidReseal, Content, MarkClosed, TypeOK, StoreState, ThreadState
<1>7. (Gens /\ Untorn)'
  BY DEF IInv, Gens, Untorn, MidReseal, Content, MarkClosed, TypeOK, StoreState, ThreadState
<1> QED
  BY <1>1, <1>2, <1>3, <1>4, <1>5, <1>6, <1>7 DEF IInv

LEMMA HardCloseInv ==
  ASSUME IInv, NEW t \in Threads, HardClose(t)
  PROVE  TypeOK' => IInv'
<1> DEFINE s == th[t].on
<1>0. /\ th[t].pc = "hard" /\ s \in Stores /\ th'[t].pc = "returned" /\ th'[t].on = s
      /\ \A u \in Threads \ {t} : th'[u] = th[u]
      /\ \A u \in Threads : th'[u].on = th[u].on
      /\ lock' = IF lock = s THEN NoStore ELSE lock
      /\ \A v \in Stores : v # NoStore /\ (overtook[v] => overtook'[v])
      /\ OthersMidReseal(t, s) => overtook'[s]
      /\ UNCHANGED <<blob, base>>
  <2>1. th[t].pc = "hard" /\ s \in Stores
    BY DEF IInv, TypeOK, HardClose
  <2>2. /\ th'[t].pc = "returned" /\ th'[t].on = s
        /\ \A u \in Threads \ {t} : th'[u] = th[u]
        /\ \A u \in Threads : th'[u].on = th[u].on
    BY DEF IInv, TypeOK, ThreadState, HardClose
  <2>3. /\ lock' = (IF lock = s THEN NoStore ELSE lock)
        /\ UNCHANGED <<blob, base>>
    BY DEF HardClose
  <2>4. /\ \A v \in Stores : overtook[v] => overtook'[v]
        /\ OthersMidReseal(t, s) => overtook'[s]
    BY <2>1 DEF IInv, TypeOK, HardClose
  <2> QED
    BY <2>1, <2>2, <2>3, <2>4, StoreAssumption
<1>00. /\ st'[s].status = "gone" /\ st'[s].dek = FALSE
       /\ \A v \in Stores \ {s} : st'[v] = st[v]
       /\ \A v \in Stores :
            /\ st'[v].closed = st[v].closed /\ st'[v].writeGen = st[v].writeGen
            /\ st'[v].timer = st[v].timer /\ st'[v].flushMu = st[v].flushMu
            /\ st'[v].persistedGen = st[v].persistedGen
  <2>1. st'[s].status = "gone" /\ st'[s].dek = FALSE
    BY <1>0 DEF IInv, TypeOK, StoreState, HardClose
  <2>2. \A v \in Stores \ {s} : st'[v] = st[v]
    BY <1>0 DEF IInv, TypeOK, HardClose
  <2>3. /\ st'[s].closed = st[s].closed /\ st'[s].writeGen = st[s].writeGen
        /\ st'[s].timer = st[s].timer /\ st'[s].flushMu = st[s].flushMu
        /\ st'[s].persistedGen = st[s].persistedGen
    BY <1>0 DEF IInv, TypeOK, StoreState, HardClose
  <2> QED
    BY <2>1, <2>2, <2>3
<1>000. /\ st[s].status # "new" /\ st[s].closed
        /\ \A u \in Threads : th[u].pc # "idle" => th[u].on \in Stores
  BY <1>0 DEF IInv, TypeOK, Fresh, Closing
<1>1. (Locked /\ Fresh /\ IdleOnNothing)'
  BY <1>0, <1>00, <1>000 DEF IInv, Locked, Fresh, IdleOnNothing
<1>2. (Guarded /\ Settled)'
  BY <1>0, <1>00, <1>000 DEF IInv, Guarded, Settled
<1>3. (Closing /\ Overtaken /\ Keyed)'
  BY <1>0, <1>00, <1>000 DEF IInv, Closing, Overtaken, Keyed, Dead, MidReseal, OthersMidReseal
<1>4. (BlobGen /\ BlobOpens)'
  BY <1>0, <1>00, <1>000 DEF IInv, BlobGen, BlobOpens, Dead
<1>5. NothingForgotten'
  BY <1>0, <1>00, <1>000 DEF IInv, NothingForgotten, Unpersisted, Carried, MidReseal
<1>6. ImagesAreStates'
  BY <1>0, <1>00, <1>000 DEF IInv, ImagesAreStates, MidReseal, Content
<1>7. (Gens /\ Untorn)'
  <2>1. Gens'
    <3>1. \A u \in Threads, v \in Stores : MidReseal(u, v)' => MidReseal(u, v) /\ th'[u] = th[u]
      BY <1>0 DEF MidReseal
    <3> QED
      BY <1>00, <3>1 DEF IInv, Gens
  <2>2. Untorn'
    BY <1>0, <1>00 DEF IInv, Untorn, Content
  <2> QED
    BY <2>1, <2>2
<1> QED
  BY <1>1, <1>2, <1>3, <1>4, <1>5, <1>6, <1>7 DEF IInv

LEMMA ReturnInv ==
  ASSUME IInv, NEW t \in Threads, Return(t)
  PROVE  TypeOK' => IInv'
<1>1. (Locked /\ Fresh /\ IdleOnNothing)'
  BY StoreAssumption DEF IInv, Locked, Fresh, IdleOnNothing, Return, Idle, TypeOK,
     StoreState, ThreadState
<1>2. (Guarded /\ Settled)'
  BY DEF IInv, Guarded, Settled, Return, Idle, TypeOK, StoreState, ThreadState
<1>3. (Closing /\ Overtaken /\ Keyed)'
  BY StoreAssumption DEF IInv, Closing, Overtaken, Keyed, Dead, MidReseal, Return, Idle,
     TypeOK, StoreState, ThreadState
<1>4. (BlobGen /\ BlobOpens)'
  BY StoreAssumption DEF IInv, BlobGen, BlobOpens, Dead, Return, Idle, TypeOK, StoreState,
     ThreadState
<1>5. NothingForgotten'
  BY DEF IInv, NothingForgotten, Unpersisted, Carried, MidReseal, Return, TypeOK, StoreState,
     ThreadState
<1>6. ImagesAreStates'
  BY DEF IInv, ImagesAreStates, MidReseal, Content, Return, Idle, TypeOK, StoreState,
     ThreadState
<1>7. (Gens /\ Untorn)'
  BY DEF IInv, Gens, Untorn, MidReseal, Content, Return, Idle, TypeOK, StoreState, ThreadState
<1> QED
  BY <1>1, <1>2, <1>3, <1>4, <1>5, <1>6, <1>7 DEF IInv

LEMMA CrashInv ==
  ASSUME IInv, Crash
  PROVE  TypeOK' => IInv'
<1>1. (Locked /\ Fresh /\ IdleOnNothing)'
  BY StoreAssumption DEF IInv, Locked, Fresh, IdleOnNothing, Crash, NewStore, Idle, TypeOK,
     StoreState, ThreadState
<1>2. (Guarded /\ Settled)'
  BY DEF IInv, Guarded, Settled, Crash, NewStore, Idle, TypeOK, StoreState, ThreadState
<1>3. (Closing /\ Overtaken /\ Keyed)'
  BY StoreAssumption DEF IInv, Closing, Overtaken, Keyed, Dead, MidReseal, Crash, NewStore,
     Idle, TypeOK, StoreState, ThreadState
<1>4. (BlobGen /\ BlobOpens)'
  BY StoreAssumption DEF IInv, BlobGen, BlobOpens, Dead, Crash, NewStore, Idle, TypeOK,
     StoreState, ThreadState
<1>5. NothingForgotten'
  BY DEF IInv, NothingForgotten, Unpersisted, Carried, MidReseal, Crash, NewStore, TypeOK,
     StoreState, ThreadState
<1>6. ImagesAreStates'
  BY DEF IInv, ImagesAreStates, MidReseal, Content, Crash, NewStore, Idle, TypeOK,
     StoreState, ThreadState
<1>7. (Gens /\ Untorn)'
  BY StoreAssumption DEF IInv, Gens, Untorn, MidReseal, Content, Crash, NewStore, Idle,
     TypeOK, StoreState, ThreadState
<1> QED
  BY <1>1, <1>2, <1>3, <1>4, <1>5, <1>6, <1>7 DEF IInv

LEMMA NextIInv == IInv /\ [Next]_vars => IInv'
<1> SUFFICES ASSUME IInv, [Next]_vars PROVE IInv'
  OBVIOUS
<1>1. TypeOK'
  BY NextTypeOK DEF IInv
<1>2. CASE UNCHANGED vars
  BY <1>2 DEF vars, IInv, TypeOK, Locked, Fresh, IdleOnNothing, Guarded, Settled, Closing,
     Dead, Overtaken, Keyed, BlobGen, BlobOpens, NothingForgotten, Unpersisted, Carried,
     ImagesAreStates, Gens, Untorn, MidReseal, Content
<1>3. ASSUME NEW s \in Stores, Open(s) \/ OpenFails(s) \/ Write(s) PROVE IInv'
  BY <1>1, <1>3, OpenInv, OpenFailsInv, WriteInv
<1>4. ASSUME NEW s \in Stores, NEW t \in Callers, Flush(t, s) \/ Close(t, s) PROVE IInv'
  BY <1>1, <1>4, FlushInv, CloseInv
<1>5. ASSUME NEW s \in Stores, NEW t \in Timers, TimerFires(t, s) PROVE IInv'
  BY <1>1, <1>5, TimerFiresInv
<1>6. ASSUME NEW t \in Threads, ResealStep(t) PROVE IInv'
  BY <1>1, <1>6, NothingToDoInv, SnapshotInv, SerializeFailsInv, SupersededInv,
     StartWriteInv, SealInv, AtomicWriteInv, WriteFailsInv, SettleOkInv, SettleErrInv
  DEF ResealStep
<1>7. ASSUME NEW t \in Threads, CloseStep(t) \/ Return(t) PROVE IInv'
  BY <1>1, <1>7, MarkClosedInv, HardCloseInv, ReturnInv DEF CloseStep
<1>8. ASSUME Crash PROVE IInv'
  BY <1>1, <1>8, CrashInv
<1> QED
  BY <1>2, <1>3, <1>4, <1>5, <1>6, <1>7, <1>8 DEF Next, Step

\* The inductive invariant holds in every reachable state: flushes of several
\* goroutines, failures, closes that overlap and crashes preserve it.
THEOREM Inductive == Spec => []IInv
  BY InitIInv, NextIInv, PTL DEF Spec


-----------------------------------------------------------------------------
(* What follows from it *)

\* The blob only changes when a reseal renames its snapshot into place.
LEMMA OnlyAtomicWrite ==
  ASSUME [Next]_vars, blob' # blob
  PROVE  \E t \in Threads : AtomicWrite(t)
<1>1. CASE UNCHANGED vars
  BY <1>1 DEF vars
<1>2. ASSUME NEW s \in Stores, Open(s) \/ OpenFails(s) \/ Write(s) PROVE FALSE
  BY <1>2 DEF Open, OpenFails, Write
<1>3. ASSUME NEW s \in Stores, NEW t \in Callers, Flush(t, s) \/ Close(t, s) PROVE FALSE
  BY <1>3 DEF Flush, Close
<1>4. ASSUME NEW s \in Stores, NEW t \in Timers, TimerFires(t, s) PROVE FALSE
  BY <1>4 DEF TimerFires
<1>5. ASSUME NEW t \in Threads, ResealStep(t) PROVE AtomicWrite(t)
  BY <1>5 DEF ResealStep, NothingToDo, Snapshot, SerializeFails, Superseded, StartWrite,
     Seal, WriteFails, SettleOk, SettleErr
<1>6. ASSUME NEW t \in Threads, CloseStep(t) \/ Return(t) PROVE FALSE
  BY <1>6 DEF CloseStep, MarkClosed, HardClose, Return
<1>7. ASSUME Crash PROVE FALSE
  BY <1>7 DEF Crash
<1> QED
  BY <1>1, <1>2, <1>3, <1>4, <1>5, <1>6, <1>7 DEF Next, Step

LEMMA AtomicWriteFacts ==
  ASSUME IInv, NEW t \in Threads, AtomicWrite(t)
  PROVE  LET s == th[t].on IN
         /\ s \in Stores
         /\ blob'.by = s /\ blob'.gen = th[t].gen /\ blob'.data = th[t].raw
         /\ MidReseal(t, s)
         /\ th[t].gen \in Nat /\ st[s].persistedGen \in Nat /\ st[s].writeGen \in Nat
         /\ st[s].persistedGen < th[t].gen /\ th[t].gen <= st[s].writeGen
         /\ ~overtook[s] => lock = s
<1> DEFINE s == th[t].on
<1>1. /\ s \in Stores /\ th[t].pc = "write"
      /\ blob'.by = s /\ blob'.gen = th[t].gen /\ blob'.data = th[t].raw
  BY DEF IInv, TypeOK, AtomicWrite
<1>2. MidReseal(t, s)
  BY <1>1 DEF MidReseal
<1>3. th[t].gen \in Nat /\ st[s].persistedGen \in Nat /\ st[s].writeGen \in Nat
  BY <1>1, StoreTyped, ThreadTyped DEF IInv
<1>4. st[s].persistedGen < th[t].gen /\ th[t].gen <= st[s].writeGen
  BY <1>1, <1>2, <1>3 DEF IInv, Guarded, Gens
<1>5. ~overtook[s] => lock = s
  BY <1>1, <1>2 DEF IInv, Overtaken, Locked
<1> QED
  BY <1>1, <1>2, <1>3, <1>4, <1>5

\* Every blob, snapshot and live database is a state its Store really had.
THEOREM ImagesCorrect == Spec => []ImagesAreStates
<1>1. IInv => ImagesAreStates
  BY DEF IInv
<1> QED
  BY <1>1, Inductive, PTL

\* No accepted write is ever forgotten: dirty or carried until persisted.
THEOREM NothingForgottenCorrect == Spec => []NothingForgotten
<1>1. IInv => NothingForgotten
  BY DEF IInv
<1> QED
  BY <1>1, Inductive, PTL

\* A blob that does not open is the work of a reseal its Close overtook.
THEOREM BlobOpensCorrect == Spec => []BlobOpens
<1>1. IInv => BlobOpens
  BY DEF IInv
<1> QED
  BY <1>1, Inductive, PTL

\* The generation guard works: a stale snapshot never overwrites a newer one.
THEOREM GuardCorrect == Spec => StaleNeverOverwrites
<1>1. ASSUME IInv, [Next]_vars, blob' # blob, blob'.by = blob.by
      PROVE  blob'.gen > blob.gen
  <2>1. PICK t \in Threads : AtomicWrite(t)
    BY <1>1, OnlyAtomicWrite
  <2> DEFINE s == th[t].on
  <2>2. /\ s \in Stores /\ blob.by = s /\ blob'.gen = th[t].gen
        /\ MidReseal(t, s)
        /\ th[t].gen \in Nat /\ st[s].persistedGen \in Nat
        /\ st[s].persistedGen < th[t].gen
    BY <1>1, <2>1, AtomicWriteFacts
  <2>3. ~Dead(s)
    BY <2>2 DEF Dead, MidReseal
  <2>4. blob.gen <= st[s].persistedGen /\ blob.gen \in Nat
    BY <1>1, <2>2, <2>3 DEF IInv, BlobGen, TypeOK, Image
  <2> QED
    BY <2>2, <2>4
<1>2. IInv /\ [Next]_vars => [blob' # blob /\ blob'.by = blob.by => blob'.gen > blob.gen]_vars
  BY <1>1
<1> QED
  BY <1>2, Inductive, PTL DEF Spec, StaleNeverOverwrites

\* Only the holder of the flock writes, unless its Close overtook a reseal.
THEOREM SingleWriterCorrect == Spec => SingleWriter
<1>1. ASSUME IInv, [Next]_vars, blob' # blob
      PROVE  lock = blob'.by \/ overtook[blob'.by]
  BY <1>1, OnlyAtomicWrite, AtomicWriteFacts
<1>2. IInv /\ [Next]_vars => [blob' # blob => lock = blob'.by \/ overtook[blob'.by]]_vars
  BY <1>1
<1> QED
  BY <1>2, Inductive, PTL DEF Spec, SingleWriter
=============================================================================

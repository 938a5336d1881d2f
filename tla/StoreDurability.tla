-------------------------- MODULE StoreDurability --------------------------
(* What a Close that returns nil, and FlushErr, tell the caller of Store. *)
EXTENDS StoreProofs

\* A snapshot is taken after the call that writes it out.
Asked ==
  \A t \in Threads : th[t].pc # "idle" =>
    /\ th[t].asked <= st[th[t].on].writeGen
    /\ MidReseal(t, th[t].on) => th[t].asked <= th[t].gen

\* NothingForgotten, also of a Store that is gone.
Kept ==
  \A s \in Stores :
    st[s].persistedGen < st[s].writeGen => st[s].dirty \/ Carried(s)

\* What a Store knows to be on its way, or reports, is its newest state.
Known(s) ==
  \/ ResealComing(s) \/ Carried(s)
  \/ st[s].lastFlushErr /\ st[s].writeGen <= st[s].failedGen

Told ==
  ~SerializeFaults => \A s \in Stores : Unpersisted(s) /\ ~st[s].closed => Known(s)

\* Writes are counted up, and a snapshot takes the count of its moment.
LEMMA AskedStep ==
  ASSUME IInv, Asked, [Next]_vars
  PROVE  Asked'
<1>1. ASSUME NEW s \in Stores, Open(s) PROVE Asked'
  BY <1>1 DEF Asked, IInv, MidReseal, Open, CanLock,
     TypeOK, StoreState, ThreadState
<1>2. ASSUME NEW s \in Stores, OpenFails(s) PROVE Asked'
  BY <1>2 DEF Asked, IInv, MidReseal, OpenFails, CanLock,
     TypeOK, StoreState, ThreadState
<1>3. ASSUME NEW s \in Stores, Write(s) PROVE Asked'
  BY <1>3 DEF Asked, IInv, MidReseal, Write, MarkDirty,
     TypeOK, StoreState, ThreadState
<1>4. ASSUME NEW s \in Stores, NEW t \in Callers, Flush(t, s) PROVE Asked'
  BY <1>4 DEF Asked, IInv, MidReseal, Flush, Enter, Idle, Threads,
     TypeOK, StoreState, ThreadState
<1>5. ASSUME NEW s \in Stores, NEW t \in Callers, Close(t, s) PROVE Asked'
  BY <1>5 DEF Asked, IInv, MidReseal, Close, StopTimer, Enter, Idle, Threads,
     TypeOK, StoreState, ThreadState
<1>6. ASSUME NEW s \in Stores, NEW t \in Timers, TimerFires(t, s) PROVE Asked'
  BY <1>6 DEF Asked, IInv, MidReseal, TimerFires, Enter, Idle, Threads,
     TypeOK, StoreState, ThreadState
<1>7. ASSUME NEW t \in Threads, NothingToDo(t) PROVE Asked'
  BY <1>7 DEF Asked, IInv, MidReseal, NothingToDo, ResealReturns, AfterReseal, MustReseal,
     TypeOK, StoreState, ThreadState
<1>8. ASSUME NEW t \in Threads, Snapshot(t) PROVE Asked'
  <2> DEFINE s == th[t].on
  <2>1. /\ th[t].pc = "check" /\ s \in Stores
        /\ th'[t].pc = "guard" /\ th'[t].on = s /\ th'[t].asked = th[t].asked
        /\ th'[t].gen = st[s].writeGen
        /\ \A u \in Threads \ {t} : th'[u] = th[u]
        /\ \A v \in Stores : st'[v].writeGen = st[v].writeGen
        /\ \A u \in Threads : th[u].pc # "idle" => th[u].on \in Stores
    BY <1>8 DEF Snapshot, SnapshotGen, IInv, TypeOK, StoreState, ThreadState
  <2> QED
    BY <2>1 DEF Asked, MidReseal
<1>9. ASSUME NEW t \in Threads, SerializeFails(t) PROVE Asked'
  BY <1>9 DEF Asked, IInv, MidReseal, SerializeFails, ResealReturns, AfterReseal, MustReseal,
     TypeOK, StoreState, ThreadState
<1>10. ASSUME NEW t \in Threads, Superseded(t) PROVE Asked'
  BY <1>10 DEF Asked, IInv, MidReseal, Superseded, IsNewer, ResealReturns, AfterReseal,
     TypeOK, StoreState, ThreadState
<1>11. ASSUME NEW t \in Threads, StartWrite(t) PROVE Asked'
  BY <1>11 DEF Asked, IInv, MidReseal, StartWrite, IsNewer,
     TypeOK, StoreState, ThreadState
<1>12. ASSUME NEW t \in Threads, Seal(t) PROVE Asked'
  BY <1>12 DEF Asked, IInv, MidReseal, Seal,
     TypeOK, StoreState, ThreadState
<1>13. ASSUME NEW t \in Threads, AtomicWrite(t) PROVE Asked'
  BY <1>13 DEF Asked, IInv, MidReseal, AtomicWrite,
     TypeOK, StoreState, ThreadState
<1>14. ASSUME NEW t \in Threads, WriteFails(t) PROVE Asked'
  BY <1>14 DEF Asked, IInv, MidReseal, WriteFails,
     TypeOK, StoreState, ThreadState
<1>15. ASSUME NEW t \in Threads, SettleOk(t) PROVE Asked'
  BY <1>15 DEF Asked, IInv, MidReseal, SettleOk, ClearsError, ResealReturns, AfterReseal,
     TypeOK, StoreState, ThreadState
<1>16. ASSUME NEW t \in Threads, SettleErr(t) PROVE Asked'
  BY <1>16 DEF Asked, IInv, MidReseal, SettleErr, FlushFailed, ResealReturns, AfterReseal,
     TypeOK, StoreState, ThreadState
<1>17. ASSUME NEW t \in Threads, MarkClosed(t) PROVE Asked'
  BY <1>17 DEF Asked, IInv, MidReseal, MarkClosed,
     TypeOK, StoreState, ThreadState
<1>18. ASSUME NEW t \in Threads, HardClose(t) PROVE Asked'
  BY <1>18 DEF Asked, IInv, MidReseal, HardClose,
     TypeOK, StoreState, ThreadState
<1>19. ASSUME NEW t \in Threads, Return(t) PROVE Asked'
  BY <1>19 DEF Asked, IInv, MidReseal, Return, Idle,
     TypeOK, StoreState, ThreadState
<1>20. ASSUME Crash PROVE Asked'
  BY <1>20 DEF Asked, IInv, MidReseal, Crash, NewStore, Idle,
     TypeOK, StoreState, ThreadState
<1>21. CASE UNCHANGED vars
  BY <1>21 DEF Asked, IInv, MidReseal, vars
<1> QED
  BY <1>1, <1>2, <1>3, <1>4, <1>5, <1>6, <1>7, <1>8, <1>9, <1>10, <1>11, <1>12, <1>13, <1>14, <1>15, <1>16, <1>17, <1>18, <1>19, <1>20, <1>21
  DEF Next, Step, ResealStep, CloseStep

-----------------------------------------------------------------------------
(* What the steps of a goroutine change *)

\* One goroutine moves: the others stay where they are.
LEMMA OneMoves ==
  ASSUME TypeOK, NEW t \in Threads, NEW x, th' = [th EXCEPT ![t] = x]
  PROVE  /\ th'[t] = x
         /\ \A u \in Threads \ {t} : th'[u] = th[u]
         /\ \A u \in Threads \ {t}, v \in Stores : MidReseal(u, v)' <=> MidReseal(u, v)
<1>1. th'[t] = x /\ \A u \in Threads \ {t} : th'[u] = th[u]
  BY DEF TypeOK
<1> QED
  BY <1>1 DEF MidReseal

LEMMA OneChanges ==
  ASSUME TypeOK, NEW s \in Stores, NEW r, st' = [st EXCEPT ![s] = r]
  PROVE  st'[s] = r /\ \A v \in Stores \ {s} : st'[v] = st[v]
  BY DEF TypeOK

\* A call of s begins.
LEMMA EnterFacts ==
  ASSUME TypeOK, NEW s \in Stores, NEW t \in Threads, NEW call, Enter(t, s, call)
  PROVE  /\ th[t].pc = "idle" /\ th'[t].pc = "check" /\ th'[t].on = s
         /\ th'[t].op = call /\ th'[t].ret = "nil"
         /\ \A u \in Threads \ {t} : th'[u] = th[u]
         /\ \A u \in Threads, v \in Stores : MidReseal(u, v) =>
              MidReseal(u, v)' /\ th'[u].gen = th[u].gen
<1> DEFINE a == IF call = "timer" THEN 0 ELSE st[s].writeGen
           x == [Idle EXCEPT !.pc = "check", !.op = call, !.on = s, !.asked = a]
<1>1. th[t].pc = "idle" /\ th' = [th EXCEPT ![t] = x]
  BY DEF Enter
<1>2. x.pc = "check" /\ x.on = s /\ x.op = call /\ x.ret = "nil"
  BY DEF Idle
<1> HIDE DEF x
<1>3. /\ th'[t] = x /\ \A u \in Threads \ {t} : th'[u] = th[u]
      /\ \A u \in Threads \ {t}, v \in Stores : MidReseal(u, v)' <=> MidReseal(u, v)
  BY <1>1, OneMoves
<1>4. \A v \in Stores : ~MidReseal(t, v)
  BY <1>1 DEF MidReseal
<1> QED
  BY <1>1, <1>2, <1>3, <1>4

\* A goroutine goes on to the next part of its reseal.
LEMMA OnwardFacts ==
  ASSUME NEW t \in Threads, th[t].pc \in {"guard", "seal", "write"},
         th'[t].pc \in {"seal", "write", "settle"},
         th'[t].on = th[t].on, th'[t].gen = th[t].gen,
         \A u \in Threads \ {t} : th'[u] = th[u]
  PROVE  /\ \A u \in Threads : th'[u].on = th[u].on
         /\ \A u \in Threads : th[u].pc = "check" => th'[u].pc = "check"
         /\ \A u \in Threads, v \in Stores : MidReseal(u, v) =>
              MidReseal(u, v)' /\ th'[u].gen = th[u].gen
  BY DEF MidReseal

\* A goroutine that is done with its reseal goes on.
LEMMA LeavesFacts ==
  ASSUME TypeOK, NEW t \in Threads, th[t].pc \in {"mark", "hard", "returned"},
         NEW x, th' = [th EXCEPT ![t] = x]
  PROVE  /\ \A u \in Threads : th[u].pc = "check" => th'[u] = th[u]
         /\ \A u \in Threads, v \in Stores : MidReseal(u, v) =>
              MidReseal(u, v)' /\ th'[u].gen = th[u].gen
<1>1. /\ th'[t] = x /\ \A u \in Threads \ {t} : th'[u] = th[u]
      /\ \A u \in Threads \ {t}, v \in Stores : MidReseal(u, v)' <=> MidReseal(u, v)
  BY OneMoves
<1>2. \A v \in Stores : ~MidReseal(t, v)
  BY DEF MidReseal
<1> QED
  BY <1>1, <1>2

-----------------------------------------------------------------------------
(* Who owes a reseal, and who has told *)

\* What v owes the drive.
Owes(v) == st[v].persistedGen < st[v].writeGen

\* Nobody who was to reseal v, or holds its newest state, lets go of it.
Undisturbed(v) ==
  /\ st'[v].writeGen = st[v].writeGen /\ st'[v].persistedGen = st[v].persistedGen
  /\ st[v].dirty => st'[v].dirty
  /\ st[v].closed => st'[v].closed
  /\ st'[v].status = "live" => st[v].status = "live"
  /\ st[v].lastFlushErr => st'[v].lastFlushErr
  /\ st'[v].failedGen = st[v].failedGen
  /\ ResealComing(v) => ResealComing(v)'
  /\ \A u \in Threads : MidReseal(u, v) => MidReseal(u, v)' /\ th'[u].gen = th[u].gen

\* What Kept and Told say of one Store.
Duty(v) ==
  Owes(v) =>
    /\ st[v].dirty \/ Carried(v)
    /\ ~SerializeFaults /\ st[v].status = "live" /\ ~st[v].closed => Known(v)

LEMMA DutyIsKeptAndTold == Kept /\ Told <=> \A v \in Stores : Duty(v)
  BY DEF Kept, Told, Duty, Owes, Unpersisted

LEMMA UndisturbedDuty ==
  ASSUME NEW v \in Stores, Duty(v), Undisturbed(v)
  PROVE  Duty(v)'
<1>1. Owes(v)' <=> Owes(v)
  BY DEF Undisturbed, Owes
<1>2. Carried(v) => Carried(v)'
  BY DEF Undisturbed, Carried
<1>3. Known(v) => Known(v)'
  BY <1>2 DEF Undisturbed, Known
<1> QED
  BY <1>1, <1>2, <1>3 DEF Undisturbed, Duty

\* A Store that nobody works on is not disturbed.
LEMMA OthersUndisturbed ==
  ASSUME TypeOK, NEW v \in Stores, st'[v] = st[v], NEW t \in Threads,
         \A u \in Threads \ {t} : th'[u] = th[u], th[t].on # v
  PROVE  Undisturbed(v)
<1>1. \A u \in Threads : MidReseal(u, v) => MidReseal(u, v)' /\ th'[u].gen = th[u].gen
  BY DEF MidReseal
<1>2. ResealComing(v) => ResealComing(v)'
  BY DEF ResealComing
<1> QED
  BY <1>1, <1>2 DEF Undisturbed

\* A write arms the timer; whoever clears dirty carries the newest state until
\* it is on the drive; a goroutine that fails with the newest state leaves
\* failedGen behind, which only a success with a state as new overrides.
LEMMA DutyStep ==
  ASSUME IInv, Kept, Told, [Next]_vars
  PROVE  Kept' /\ Told'
<1> DEFINE P == \A v \in Stores : Duty(v)'
<1>0. /\ \A v \in Stores : Duty(v) /\ st[v] \in StoreState
      /\ TypeOK
      /\ \A t \in Threads : th[t].pc # "idle" => th[t].on \in Stores
      /\ \A t \in Threads : th[t] \in ThreadState
  BY DutyIsKeptAndTold DEF IInv, TypeOK
<1>30. ASSUME NEW s \in Stores, NEW r, st' = [st EXCEPT ![s] = r], th' = th,
             r.writeGen = 0, r.persistedGen = 0
      PROVE  P
  <2>1. st'[s] = r /\ \A v \in Stores \ {s} : st'[v] = st[v]
    BY <1>0, <1>30, OneChanges
  <2>2. Duty(s)'
    BY <1>30, <2>1 DEF Duty, Owes
  <2>3. ASSUME NEW v \in Stores \ {s} PROVE Duty(v)'
    <3>1. Undisturbed(v)
      BY <1>30, <2>1 DEF Undisturbed, ResealComing, MidReseal
    <3> QED BY <1>0, <3>1, UndisturbedDuty
  <2> QED BY <2>2, <2>3
<1>1. ASSUME NEW s \in Stores, Open(s) PROVE P
  <2> DEFINE r == [st[s] EXCEPT !.status = "live", !.ram = blob.data]
  <2>1. st' = [st EXCEPT ![s] = r] /\ st[s].writeGen = 0 /\ st[s].persistedGen = 0 /\ th' = th
    BY <1>1 DEF Open, IInv, Fresh
  <2>2. r.writeGen = 0 /\ r.persistedGen = 0
    BY <1>0, <2>1 DEF StoreState
  <2> HIDE DEF r
  <2> QED BY <1>30, <2>1, <2>2
<1>2. ASSUME NEW s \in Stores, OpenFails(s) PROVE P
  <2> DEFINE r == [st[s] EXCEPT !.status = "gone", !.dek = FALSE]
  <2>1. st' = [st EXCEPT ![s] = r] /\ st[s].writeGen = 0 /\ st[s].persistedGen = 0 /\ th' = th
    BY <1>2 DEF OpenFails, IInv, Fresh
  <2>2. r.writeGen = 0 /\ r.persistedGen = 0
    BY <1>0, <2>1 DEF StoreState
  <2> HIDE DEF r
  <2> QED BY <1>30, <2>1, <2>2
<1>3. ASSUME NEW s \in Stores, Write(s) PROVE P
  <2> DEFINE q == [st[s] EXCEPT !.ram = @ \cup {<<s, st[s].writeGen + 1>>}]
             r == MarkDirty(q)
  <2>1. st' = [st EXCEPT ![s] = r] /\ th' = th
    BY <1>3 DEF Write
  <2>2. q.closed = st[s].closed /\ q.timer = st[s].timer
    BY <1>0 DEF StoreState
  <2>3. r.dirty /\ (r.timer \/ r.closed)
    <3> HIDE DEF q
    <3>1. q \in StoreState
      BY <1>0, <1>3, StoreTyped, StoreAssumption DEF q, Write, Writes, StoreState
    <3> QED BY <3>1 DEF MarkDirty, StoreState
  <2> HIDE DEF q, r
  <2>4. st'[s] = r /\ \A v \in Stores \ {s} : st'[v] = st[v]
    BY <1>0, <2>1, OneChanges
  <2>5. Duty(s)'
    BY <2>3, <2>4 DEF Duty, Known, ResealComing
  <2>6. ASSUME NEW v \in Stores \ {s} PROVE Duty(v)'
    <3>1. Undisturbed(v)
      BY <2>1, <2>4 DEF Undisturbed, ResealComing, MidReseal
    <3> QED BY <1>0, <3>1, UndisturbedDuty
  <2> QED BY <2>5, <2>6
<1>4. ASSUME NEW s \in Stores, NEW t \in Callers, Flush(t, s) PROVE P
  <2>1. t \in Threads /\ Enter(t, s, "flush") /\ st' = st
    BY <1>4 DEF Flush, Threads
  <2>2. /\ th[t].pc = "idle"
        /\ \A u \in Threads \ {t} : th'[u] = th[u]
        /\ \A u \in Threads, v \in Stores : MidReseal(u, v) =>
             MidReseal(u, v)' /\ th'[u].gen = th[u].gen
    BY <1>0, <2>1, EnterFacts
  <2>3. \A v \in Stores : Undisturbed(v)
    BY <2>1, <2>2 DEF Undisturbed, ResealComing
  <2> QED BY <1>0, <2>3, UndisturbedDuty
<1>31. ASSUME NEW s \in Stores, NEW t \in Threads, NEW call, Enter(t, s, call),
             st' = [st EXCEPT ![s] = [st[s] EXCEPT !.timer = FALSE]]
      PROVE  P
  <2> DEFINE r == [st[s] EXCEPT !.timer = FALSE]
  <2>1. st' = [st EXCEPT ![s] = r]
    BY <1>31
  <2>2. /\ th[t].pc = "idle" /\ th'[t].pc = "check" /\ th'[t].on = s
        /\ \A u \in Threads \ {t} : th'[u] = th[u]
        /\ \A u \in Threads, v \in Stores : MidReseal(u, v) =>
             MidReseal(u, v)' /\ th'[u].gen = th[u].gen
    BY <1>0, <1>31, EnterFacts
  <2>3. /\ r.writeGen = st[s].writeGen /\ r.persistedGen = st[s].persistedGen
        /\ r.dirty = st[s].dirty /\ r.closed = st[s].closed /\ r.status = st[s].status
        /\ r.lastFlushErr = st[s].lastFlushErr /\ r.failedGen = st[s].failedGen
    BY <1>0 DEF StoreState
  <2> HIDE DEF r
  <2>4. st'[s] = r /\ \A v \in Stores \ {s} : st'[v] = st[v]
    BY <1>0, <2>1, OneChanges
  <2>5. \A v \in Stores : ResealComing(v) => ResealComing(v)'
    BY <2>2, <2>4 DEF ResealComing
  <2>6. \A v \in Stores : Undisturbed(v)
    BY <2>2, <2>3, <2>4, <2>5 DEF Undisturbed
  <2> QED BY <1>0, <2>6, UndisturbedDuty
<1>5. ASSUME NEW s \in Stores, NEW t \in Callers, Close(t, s) PROVE P
  <2>1. /\ t \in Threads /\ Enter(t, s, "close")
        /\ st' = [st EXCEPT ![s] = [st[s] EXCEPT !.timer = FALSE]]
    BY <1>5 DEF Close, StopTimer, Threads
  <2> QED BY <1>31, <2>1
<1>6. ASSUME NEW s \in Stores, NEW t \in Timers, TimerFires(t, s) PROVE P
  <2>1. /\ t \in Threads /\ Enter(t, s, "timer")
        /\ st' = [st EXCEPT ![s] = [st[s] EXCEPT !.timer = FALSE]]
    BY <1>6 DEF TimerFires, Threads
  <2> QED BY <1>31, <2>1
<1>7. ASSUME NEW t \in Threads, NothingToDo(t) PROVE P
  <2>0. PICK s \in Stores : th[t].on = s
    BY <1>0, <1>7 DEF NothingToDo
  <2> USE <2>0
  <2>1. th[t].pc = "check" /\ ResealReturns(t, "nil") /\ st' = st /\ ~(st[s].dirty /\ ~st[s].closed)
    BY <1>7 DEF NothingToDo, MustReseal
  <2>2. /\ s \in Stores /\ th'[t].gen = th[t].gen
        /\ \A u \in Threads \ {t} : th'[u] = th[u]
        /\ \A u \in Threads \ {t}, v \in Stores : MidReseal(u, v)' <=> MidReseal(u, v)
    BY <1>0, <2>1, ReturnsFacts
  <2>3. \A v \in Stores : ~MidReseal(t, v)
    BY <2>1 DEF MidReseal
  <2>4. Duty(s)'
    <3>1. Carried(s) => Carried(s)'
      BY <2>1, <2>2, <2>3 DEF Carried
    <3>2. Owes(s)' => Owes(s)
      BY <2>1 DEF Owes
    <3>3. Owes(s)' => st'[s].dirty \/ Carried(s)'
      BY <1>0, <2>1, <2>2, <3>1, <3>2 DEF Duty
    <3>4. Owes(s)' /\ ~st'[s].closed => Carried(s)'
      BY <2>1, <3>3
    <3> QED BY <3>3, <3>4 DEF Duty, Known
  <2>5. ASSUME NEW v \in Stores \ {s} PROVE Duty(v)'
    <3>1. Undisturbed(v)
      BY <1>0, <2>1, <2>2, OthersUndisturbed
    <3> QED BY <1>0, <3>1, UndisturbedDuty
  <2> QED BY <2>4, <2>5
<1>8. ASSUME NEW t \in Threads, Snapshot(t) PROVE P
  <2>0. PICK s \in Stores : th[t].on = s
    BY <1>0, <1>8 DEF Snapshot
  <2> USE <2>0
  <2>1. /\ s \in Stores /\ th'[t].pc = "guard" /\ th'[t].on = s /\ th'[t].gen = st[s].writeGen
        /\ \A u \in Threads \ {t} : th'[u] = th[u]
        /\ st'[s].writeGen = st[s].writeGen
    BY <1>0, <1>8, SnapshotFacts
  <2>2. Carried(s)'
    BY <2>1 DEF Carried, MidReseal
  <2>3. Duty(s)'
    BY <2>2 DEF Duty, Known
  <2>4. ASSUME NEW v \in Stores \ {s} PROVE Duty(v)'
    <3>1. st'[v] = st[v]
      BY <1>0, <1>8 DEF Snapshot, TypeOK
    <3>2. Undisturbed(v)
      BY <1>0, <2>1, <3>1, OthersUndisturbed
    <3> QED BY <1>0, <3>2, UndisturbedDuty
  <2> QED BY <2>3, <2>4
<1>9. ASSUME NEW t \in Threads, SerializeFails(t) PROVE P
  <2>0. PICK s \in Stores : th[t].on = s
    BY <1>0, <1>9 DEF SerializeFails
  <2> USE <2>0
  <2> DEFINE r == [st[s] EXCEPT !.lastFlushErr = TRUE]
  <2>1. /\ SerializeFaults /\ th[t].pc = "check" /\ ResealReturns(t, "err")
        /\ st[s].dirty /\ st' = [st EXCEPT ![s] = r]
    BY <1>9 DEF SerializeFails, MustReseal
  <2>2. s \in Stores /\ \A u \in Threads \ {t} : th'[u] = th[u]
    BY <1>0, <2>1, ReturnsFacts
  <2>3. r.dirty = st[s].dirty
    BY <1>0, <2>2 DEF StoreState
  <2> HIDE DEF r
  <2>4. st'[s] = r /\ \A v \in Stores \ {s} : st'[v] = st[v]
    BY <1>0, <2>1, <2>2, OneChanges
  <2>5. Duty(s)'
    BY <2>1, <2>3, <2>4 DEF Duty
  <2>6. ASSUME NEW v \in Stores \ {s} PROVE Duty(v)'
    <3>1. Undisturbed(v)
      BY <1>0, <2>2, <2>4, OthersUndisturbed
    <3> QED BY <1>0, <3>1, UndisturbedDuty
  <2> QED BY <2>5, <2>6
<1>10. ASSUME NEW t \in Threads, Superseded(t) PROVE P
  <2>0. PICK s \in Stores : th[t].on = s
    BY <1>0, <1>10 DEF Superseded
  <2> USE <2>0
  <2>1. /\ th[t].pc = "guard" /\ ResealReturns(t, "nil") /\ st' = st
        /\ ~(th[t].gen > st[s].persistedGen)
    BY <1>10 DEF Superseded, IsNewer
  <2>2. /\ s \in Stores /\ th'[t].on = s /\ th'[t].pc # "idle"
        /\ \A u \in Threads \ {t} : th'[u] = th[u]
        /\ \A u \in Threads \ {t}, v \in Stores : MidReseal(u, v)' <=> MidReseal(u, v)
    BY <1>0, <2>1, ReturnsFacts
  <2>3. th[t].gen \in Nat /\ st[s].persistedGen \in Nat /\ st[s].writeGen \in Nat
    BY <1>0, <2>2, ThreadTyped, StoreTyped
  <2>4. Duty(s)'
    <3>1. Owes(s) /\ Carried(s) => Carried(s)'
      BY <2>1, <2>2, <2>3 DEF Carried, Owes
    <3>2. ResealComing(s) => ResealComing(s)'
      BY <2>1, <2>2 DEF ResealComing
    <3>3. Owes(s) <=> Owes(s)'
      BY <2>1 DEF Owes
    <3>4. Owes(s) /\ Known(s) => Known(s)'
      BY <2>1, <3>1, <3>2 DEF Known
    <3> QED BY <1>0, <2>1, <2>2, <3>1, <3>3, <3>4 DEF Duty
  <2>5. ASSUME NEW v \in Stores \ {s} PROVE Duty(v)'
    <3>1. Undisturbed(v)
      BY <1>0, <2>1, <2>2, OthersUndisturbed
    <3> QED BY <1>0, <3>1, UndisturbedDuty
  <2> QED BY <2>4, <2>5
<1>11. ASSUME NEW t \in Threads, StartWrite(t) PROVE P
  <2>0. PICK s \in Stores : th[t].on = s
    BY <1>0, <1>11 DEF StartWrite
  <2> USE <2>0
  <2> DEFINE r == [st[s] EXCEPT !.flushMu = t]
             x == [th[t] EXCEPT !.pc = "seal"]
  <2>1. th[t].pc = "guard" /\ st' = [st EXCEPT ![s] = r] /\ th' = [th EXCEPT ![t] = x]
    BY <1>11 DEF StartWrite
  <2>2. s \in Stores /\ x.pc = "seal" /\ x.on = s /\ x.gen = th[t].gen
    BY <1>0, <2>1 DEF ThreadState
  <2>3. /\ r.writeGen = st[s].writeGen /\ r.persistedGen = st[s].persistedGen
        /\ r.dirty = st[s].dirty /\ r.closed = st[s].closed /\ r.status = st[s].status
        /\ r.lastFlushErr = st[s].lastFlushErr /\ r.failedGen = st[s].failedGen
        /\ r.timer = st[s].timer
    BY <1>0, <2>2 DEF StoreState
  <2> HIDE DEF r, x
  <2>4. st'[s] = r /\ \A v \in Stores \ {s} : st'[v] = st[v]
    BY <1>0, <2>1, <2>2, OneChanges
  <2>9. th'[t] = x /\ \A u \in Threads \ {t} : th'[u] = th[u]
    BY <1>0, <2>1, OneMoves
  <2>5. /\ \A u \in Threads : th'[u].on = th[u].on
        /\ \A u \in Threads : th[u].pc = "check" => th'[u].pc = "check"
        /\ \A u \in Threads, v \in Stores : MidReseal(u, v) =>
             MidReseal(u, v)' /\ th'[u].gen = th[u].gen
    BY <2>1, <2>2, <2>9, OnwardFacts
  <2>6. \A v \in Stores : ResealComing(v) => ResealComing(v)'
    BY <2>3, <2>4, <2>5 DEF ResealComing
  <2>7. \A v \in Stores : Undisturbed(v)
    BY <2>3, <2>4, <2>5, <2>6 DEF Undisturbed
  <2> QED BY <1>0, <2>7, UndisturbedDuty
<1>12. ASSUME NEW t \in Threads, Seal(t) PROVE P
  <2> DEFINE x == [th[t] EXCEPT !.sealed = st[th[t].on].dek, !.pc = "write"]
  <2>1. th[t].pc = "seal" /\ st' = st /\ th' = [th EXCEPT ![t] = x]
    BY <1>12 DEF Seal
  <2>2. x.pc = "write" /\ x.on = th[t].on /\ x.gen = th[t].gen
    BY <1>0 DEF ThreadState
  <2> HIDE DEF x
  <2>9. th'[t] = x /\ \A u \in Threads \ {t} : th'[u] = th[u]
    BY <1>0, <2>1, OneMoves
  <2>3. /\ \A u \in Threads : th'[u].on = th[u].on
        /\ \A u \in Threads : th[u].pc = "check" => th'[u].pc = "check"
        /\ \A u \in Threads, v \in Stores : MidReseal(u, v) =>
             MidReseal(u, v)' /\ th'[u].gen = th[u].gen
    BY <2>1, <2>2, <2>9, OnwardFacts
  <2>4. \A v \in Stores : ResealComing(v) => ResealComing(v)'
    BY <2>1, <2>3 DEF ResealComing
  <2>5. \A v \in Stores : Undisturbed(v)
    BY <2>1, <2>3, <2>4 DEF Undisturbed
  <2> QED BY <1>0, <2>5, UndisturbedDuty
<1>13. ASSUME NEW t \in Threads, AtomicWrite(t) PROVE P
  <2>0. PICK s \in Stores : th[t].on = s
    BY <1>0, <1>13 DEF AtomicWrite
  <2> USE <2>0
  <2> DEFINE r == [st[s] EXCEPT !.persistedGen = th[t].gen, !.flushMu = NoThread]
             x == [th[t] EXCEPT !.ret = "nil", !.pc = "settle"]
  <2>1. th[t].pc = "write" /\ st' = [st EXCEPT ![s] = r] /\ th' = [th EXCEPT ![t] = x]
    BY <1>13 DEF AtomicWrite
  <2>2. s \in Stores /\ x.pc = "settle" /\ x.on = s /\ x.gen = th[t].gen
    BY <1>0, <2>1 DEF ThreadState
  <2>3. /\ r.writeGen = st[s].writeGen /\ r.persistedGen = th[t].gen
        /\ r.dirty = st[s].dirty /\ r.closed = st[s].closed /\ r.status = st[s].status
        /\ r.lastFlushErr = st[s].lastFlushErr /\ r.failedGen = st[s].failedGen
        /\ r.timer = st[s].timer
    BY <1>0, <2>2 DEF StoreState
  <2> HIDE DEF r, x
  <2>4. st'[s] = r /\ \A v \in Stores \ {s} : st'[v] = st[v]
    BY <1>0, <2>1, <2>2, OneChanges
  <2>9. th'[t] = x /\ \A u \in Threads \ {t} : th'[u] = th[u]
    BY <1>0, <2>1, OneMoves
  <2>5. /\ \A u \in Threads : th'[u].on = th[u].on
        /\ \A u \in Threads : th[u].pc = "check" => th'[u].pc = "check"
        /\ \A u \in Threads, v \in Stores : MidReseal(u, v) =>
             MidReseal(u, v)' /\ th'[u].gen = th[u].gen
    BY <2>1, <2>2, <2>9, OnwardFacts
  <2>6. \A v \in Stores : ResealComing(v) => ResealComing(v)'
    BY <2>3, <2>4, <2>5 DEF ResealComing
  <2>7. ASSUME NEW v \in Stores \ {s} PROVE Duty(v)'
    <3>1. Undisturbed(v)
      BY <2>4, <2>5, <2>6 DEF Undisturbed
    <3> QED BY <1>0, <3>1, UndisturbedDuty
  <2>8. Duty(s)'
    <3>1. /\ th[t].gen \in Nat /\ st[s].persistedGen \in Nat /\ st[s].writeGen \in Nat
          /\ st[s].persistedGen < th[t].gen
      BY <1>13, AtomicWriteFacts
    <3>2. Owes(s)' => Owes(s)
      BY <2>3, <2>4, <3>1 DEF Owes
    <3>3. Carried(s) => Carried(s)'
      BY <2>2, <2>3, <2>4, <2>5 DEF Carried
    <3>4. Known(s) => Known(s)'
      BY <2>2, <2>3, <2>4, <2>6, <3>3 DEF Known
    <3> QED BY <1>0, <2>2, <2>3, <2>4, <3>2, <3>3, <3>4 DEF Duty
  <2> QED BY <2>7, <2>8
<1>14. ASSUME NEW t \in Threads, WriteFails(t) PROVE P
  <2>0. PICK s \in Stores : th[t].on = s
    BY <1>0, <1>14 DEF WriteFails
  <2> USE <2>0
  <2> DEFINE r == [st[s] EXCEPT !.flushMu = NoThread]
             x == [th[t] EXCEPT !.ret = "err", !.pc = "settle"]
  <2>1. th[t].pc = "write" /\ st' = [st EXCEPT ![s] = r] /\ th' = [th EXCEPT ![t] = x]
    BY <1>14 DEF WriteFails
  <2>2. s \in Stores /\ x.pc = "settle" /\ x.on = s /\ x.gen = th[t].gen
    BY <1>0, <2>1 DEF ThreadState
  <2>3. /\ r.writeGen = st[s].writeGen /\ r.persistedGen = st[s].persistedGen
        /\ r.dirty = st[s].dirty /\ r.closed = st[s].closed /\ r.status = st[s].status
        /\ r.lastFlushErr = st[s].lastFlushErr /\ r.failedGen = st[s].failedGen
        /\ r.timer = st[s].timer
    BY <1>0, <2>2 DEF StoreState
  <2> HIDE DEF r, x
  <2>4. st'[s] = r /\ \A v \in Stores \ {s} : st'[v] = st[v]
    BY <1>0, <2>1, <2>2, OneChanges
  <2>9. th'[t] = x /\ \A u \in Threads \ {t} : th'[u] = th[u]
    BY <1>0, <2>1, OneMoves
  <2>5. /\ \A u \in Threads : th'[u].on = th[u].on
        /\ \A u \in Threads : th[u].pc = "check" => th'[u].pc = "check"
        /\ \A u \in Threads, v \in Stores : MidReseal(u, v) =>
             MidReseal(u, v)' /\ th'[u].gen = th[u].gen
    BY <2>1, <2>2, <2>9, OnwardFacts
  <2>6. \A v \in Stores : ResealComing(v) => ResealComing(v)'
    BY <2>3, <2>4, <2>5 DEF ResealComing
  <2>7. \A v \in Stores : Undisturbed(v)
    BY <2>3, <2>4, <2>5, <2>6 DEF Undisturbed
  <2> QED BY <1>0, <2>7, UndisturbedDuty
<1>15. ASSUME NEW t \in Threads, SettleOk(t) PROVE P
  <2>0. PICK s \in Stores : th[t].on = s
    BY <1>0, <1>15 DEF SettleOk
  <2> USE <2>0
  <2> DEFINE b == st[s].lastFlushErr /\ ~ClearsError(t)
             r == [st[s] EXCEPT !.lastFlushErr = b]
  <2>1. /\ th[t].pc = "settle" /\ th[t].ret = "nil" /\ ResealReturns(t, "nil")
        /\ st' = [st EXCEPT ![s] = r]
    BY <1>15 DEF SettleOk
  <2>2. /\ s \in Stores /\ th'[t].on = s
        /\ \A u \in Threads \ {t} : th'[u] = th[u]
        /\ \A u \in Threads \ {t}, v \in Stores : MidReseal(u, v)' <=> MidReseal(u, v)
    BY <1>0, <2>1, ReturnsFacts
  <2>3. /\ th[t].gen \in Nat /\ st[s].persistedGen \in Nat /\ st[s].writeGen \in Nat
        /\ st[s].failedGen \in Nat /\ th[t].gen <= st[s].persistedGen
    BY <1>0, <2>1, <2>2, ThreadTyped, StoreTyped DEF IInv, Settled
  <2>4. /\ r.writeGen = st[s].writeGen /\ r.persistedGen = st[s].persistedGen
        /\ r.dirty = st[s].dirty /\ r.closed = st[s].closed /\ r.status = st[s].status
        /\ r.lastFlushErr = b /\ r.failedGen = st[s].failedGen
        /\ r.timer = st[s].timer
    BY <1>0, <2>2 DEF StoreState
  <2>5. st[s].lastFlushErr /\ ~b => th[t].gen >= st[s].failedGen
    BY DEF ClearsError
  <2> HIDE DEF r, b
  <2>6. st'[s] = r /\ \A v \in Stores \ {s} : st'[v] = st[v]
    BY <1>0, <2>1, <2>2, OneChanges
  <2>7. ASSUME NEW v \in Stores \ {s} PROVE Duty(v)'
    <3>1. Undisturbed(v)
      BY <1>0, <2>2, <2>6, OthersUndisturbed
    <3> QED BY <1>0, <3>1, UndisturbedDuty
  <2>8. Duty(s)'
    <3>1. Owes(s)' <=> Owes(s)
      BY <2>2, <2>4, <2>6 DEF Owes
    <3>2. Owes(s) /\ Carried(s) => Carried(s)'
      BY <2>2, <2>3, <2>4, <2>6 DEF Carried, Owes
    <3>3. ResealComing(s) => ResealComing(s)'
      BY <2>1, <2>2, <2>4, <2>6 DEF ResealComing
    <3>4. Owes(s) /\ st[s].lastFlushErr /\ st[s].writeGen <= st[s].failedGen => b
      BY <2>3, <2>5 DEF Owes
    <3>5. Owes(s) /\ Known(s) => Known(s)'
      BY <2>2, <2>4, <2>6, <3>2, <3>3, <3>4 DEF Known
    <3> QED BY <1>0, <2>2, <2>4, <2>6, <3>1, <3>2, <3>5 DEF Duty
  <2> QED BY <2>7, <2>8
<1>16. ASSUME NEW t \in Threads, SettleErr(t) PROVE P
  <2>0. PICK s \in Stores : th[t].on = s
    BY <1>0, <1>16 DEF SettleErr
  <2> USE <2>0
  <2> DEFINE r == FlushFailed(st[s], th[t].gen)
  <2>1. /\ th[t].pc = "settle" /\ th[t].ret = "err" /\ ResealReturns(t, "err")
        /\ st' = [st EXCEPT ![s] = r]
    BY <1>16 DEF SettleErr
  <2>2. /\ s \in Stores /\ th'[t].on = s
        /\ \A u \in Threads \ {t} : th'[u] = th[u]
        /\ \A u \in Threads \ {t}, v \in Stores : MidReseal(u, v)' <=> MidReseal(u, v)
    BY <1>0, <2>1, ReturnsFacts
  <2>3. th[t].gen \in Nat /\ st[s].writeGen \in Nat /\ st[s].failedGen \in Nat
    BY <1>0, <2>2, ThreadTyped, StoreTyped
  <2>4. /\ r.writeGen = st[s].writeGen /\ r.persistedGen = st[s].persistedGen
        /\ r.dirty /\ r.closed = st[s].closed /\ r.status = st[s].status
        /\ r.lastFlushErr /\ r.timer = st[s].timer
        /\ r.failedGen = IF th[t].gen > st[s].failedGen THEN th[t].gen ELSE st[s].failedGen
    BY <1>0, <2>2 DEF FlushFailed, StoreState
  <2> HIDE DEF r
  <2>5. st'[s] = r /\ \A v \in Stores \ {s} : st'[v] = st[v]
    BY <1>0, <2>1, <2>2, OneChanges
  <2>6. ASSUME NEW v \in Stores \ {s} PROVE Duty(v)'
    <3>1. Undisturbed(v)
      BY <1>0, <2>2, <2>5, OthersUndisturbed
    <3> QED BY <1>0, <3>1, UndisturbedDuty
  <2>7. Duty(s)'
    <3>1. Owes(s)' <=> Owes(s)
      BY <2>2, <2>4, <2>5 DEF Owes
    <3>2. st'[s].lastFlushErr /\ r.failedGen >= th[t].gen /\ r.failedGen >= st[s].failedGen
      BY <2>2, <2>3, <2>4, <2>5
    <3>3. ResealComing(s) => ResealComing(s)'
      BY <2>1, <2>2, <2>4, <2>5 DEF ResealComing
    <3>4. r.failedGen \in Nat
      BY <2>3, <2>4
    <3>5. Carried(s) => Carried(s)' \/ st'[s].writeGen <= st'[s].failedGen
      BY <2>2, <2>3, <2>4, <2>5, <3>2, <3>4 DEF Carried
    <3>6. Known(s) => Known(s)'
      BY <2>2, <2>3, <2>4, <2>5, <3>2, <3>3, <3>4, <3>5 DEF Known
    <3> QED BY <1>0, <2>2, <2>4, <2>5, <3>1, <3>6 DEF Duty
  <2> QED BY <2>6, <2>7
<1>17. ASSUME NEW t \in Threads, MarkClosed(t) PROVE P
  <2>0. PICK s \in Stores : th[t].on = s
    BY <1>0, <1>17 DEF MarkClosed
  <2> USE <2>0
  <2> DEFINE r == [st[s] EXCEPT !.closed = TRUE]
             x == [th[t] EXCEPT !.pc = "hard"]
  <2>1. th[t].pc = "mark" /\ st' = [st EXCEPT ![s] = r] /\ th' = [th EXCEPT ![t] = x]
    BY <1>17 DEF MarkClosed
  <2>2. s \in Stores
    BY <1>0, <2>1
  <2>3. /\ r.writeGen = st[s].writeGen /\ r.persistedGen = st[s].persistedGen
        /\ r.dirty = st[s].dirty /\ r.closed /\ r.status = st[s].status
        /\ r.lastFlushErr = st[s].lastFlushErr /\ r.failedGen = st[s].failedGen
        /\ r.timer = st[s].timer
    BY <1>0, <2>2 DEF StoreState
  <2> HIDE DEF r, x
  <2>4. st'[s] = r /\ \A v \in Stores \ {s} : st'[v] = st[v]
    BY <1>0, <2>1, <2>2, OneChanges
  <2>5. /\ \A u \in Threads : th[u].pc = "check" => th'[u] = th[u]
        /\ \A u \in Threads, v \in Stores : MidReseal(u, v) =>
             MidReseal(u, v)' /\ th'[u].gen = th[u].gen
    BY <1>0, <2>1, LeavesFacts
  <2>6. \A v \in Stores : ResealComing(v) => ResealComing(v)'
    BY <2>3, <2>4, <2>5 DEF ResealComing
  <2>7. \A v \in Stores : Undisturbed(v)
    BY <2>3, <2>4, <2>5, <2>6 DEF Undisturbed
  <2> QED BY <1>0, <2>7, UndisturbedDuty
<1>18. ASSUME NEW t \in Threads, HardClose(t) PROVE P
  <2>0. PICK s \in Stores : th[t].on = s
    BY <1>0, <1>18 DEF HardClose
  <2> USE <2>0
  <2> DEFINE r == [st[s] EXCEPT !.status = "gone", !.ram = {}, !.dek = FALSE]
             x == [th[t] EXCEPT !.pc = "returned"]
  <2>1. th[t].pc = "hard" /\ st' = [st EXCEPT ![s] = r] /\ th' = [th EXCEPT ![t] = x]
    BY <1>18 DEF HardClose
  <2>2. s \in Stores
    BY <1>0, <2>1
  <2>3. /\ r.writeGen = st[s].writeGen /\ r.persistedGen = st[s].persistedGen
        /\ r.dirty = st[s].dirty /\ r.closed = st[s].closed /\ r.status # "live"
        /\ r.lastFlushErr = st[s].lastFlushErr /\ r.failedGen = st[s].failedGen
        /\ r.timer = st[s].timer
    BY <1>0, <2>2 DEF StoreState
  <2> HIDE DEF r, x
  <2>4. st'[s] = r /\ \A v \in Stores \ {s} : st'[v] = st[v]
    BY <1>0, <2>1, <2>2, OneChanges
  <2>5. /\ \A u \in Threads : th[u].pc = "check" => th'[u] = th[u]
        /\ \A u \in Threads, v \in Stores : MidReseal(u, v) =>
             MidReseal(u, v)' /\ th'[u].gen = th[u].gen
    BY <1>0, <2>1, LeavesFacts
  <2>6. \A v \in Stores : ResealComing(v) => ResealComing(v)'
    BY <2>3, <2>4, <2>5 DEF ResealComing
  <2>7. \A v \in Stores : Undisturbed(v)
    BY <2>3, <2>4, <2>5, <2>6 DEF Undisturbed
  <2> QED BY <1>0, <2>7, UndisturbedDuty
<1>19. ASSUME NEW t \in Threads, Return(t) PROVE P
  <2>1. th[t].pc = "returned" /\ st' = st /\ th' = [th EXCEPT ![t] = Idle]
    BY <1>19 DEF Return
  <2>2. /\ \A u \in Threads : th[u].pc = "check" => th'[u] = th[u]
        /\ \A u \in Threads, v \in Stores : MidReseal(u, v) =>
             MidReseal(u, v)' /\ th'[u].gen = th[u].gen
    BY <1>0, <2>1, LeavesFacts
  <2>3. \A v \in Stores : ResealComing(v) => ResealComing(v)'
    BY <2>1, <2>2 DEF ResealComing
  <2>4. \A v \in Stores : Undisturbed(v)
    BY <2>1, <2>2, <2>3 DEF Undisturbed
  <2> QED BY <1>0, <2>4, UndisturbedDuty
<1>20. ASSUME Crash PROVE P
  <2> DEFINE r == [NewStore EXCEPT !.status = "gone"]
  <2>1. \A v \in Stores : st'[v] = IF st[v].status = "new" THEN st[v] ELSE r
    BY <1>20 DEF Crash
  <2>2. r.writeGen = 0 /\ r.persistedGen = 0
    BY DEF NewStore
  <2> HIDE DEF r
  <2>3. \A v \in Stores : st[v].status = "new" => st[v].writeGen = 0 /\ st[v].persistedGen = 0
    BY DEF IInv, Fresh
  <2>4. \A v \in Stores : ~Owes(v)'
    BY <2>1, <2>2, <2>3 DEF Owes
  <2> QED BY <2>4 DEF Duty
<1>21. ASSUME UNCHANGED vars PROVE P
  <2>1. st' = st /\ th' = th
    BY <1>21 DEF vars
  <2>2. \A v \in Stores : Undisturbed(v)
    BY <2>1 DEF Undisturbed, ResealComing, MidReseal
  <2> QED BY <1>0, <2>2, UndisturbedDuty
<1>22. P
  BY <1>1, <1>2, <1>3, <1>4, <1>5, <1>6, <1>7, <1>8, <1>9, <1>10, <1>11, <1>12, <1>13, <1>14,
     <1>15, <1>16, <1>17, <1>18, <1>19, <1>20, <1>21
  DEF Next, Step, ResealStep, CloseStep
<1> QED
  BY <1>22 DEF Kept, Told, Duty, Owes, Unpersisted

-----------------------------------------------------------------------------
(* What was on the drive stays there, while no Close overtakes a reseal *)

Clean == \A s \in Stores : ~overtook[s]

\* What persistedGen covers is in the blob, whoever wrote it last.
OnDrive ==
  Clean => \A s \in Stores : Content(s, st[s].persistedGen) \subseteq blob.data

\* A Close whose reseal returned nil.
Sealed(t) ==
  th[t].op = "close" /\ th[t].ret = "nil" /\ th[t].pc \in {"mark", "hard", "returned"}

Served ==
  Clean => \A t \in Threads : Sealed(t) => Content(th[t].on, th[t].asked) \subseteq blob.data

LEMMA ContentMonotone ==
  ASSUME NEW s, NEW g \in Nat, NEW h \in Nat, g <= h
  PROVE  Content(s, g) \subseteq Content(s, h)
<1>1. 1..g \subseteq 1..h
  OBVIOUS
<1> QED
  BY <1>1 DEF Content

\* A Close that has overtaken something stays on record.
LEMMA OvertookStays ==
  ASSUME IInv, [Next]_vars, Clean'
  PROVE  Clean
<1> SUFFICES ASSUME NEW s \in Stores, overtook[s] PROVE overtook'[s]
  BY DEF Clean
<1>1. overtook \in [Stores -> BOOLEAN]
  BY DEF IInv, TypeOK
<1>2. ASSUME NEW t \in Threads, NothingToDo(t) \/ HardClose(t) PROVE overtook'[s]
  BY <1>1, <1>2 DEF NothingToDo, HardClose
<1>3. CASE \E t \in Threads : NothingToDo(t) \/ HardClose(t)
  BY <1>2, <1>3
<1>4. CASE ~\E t \in Threads : NothingToDo(t) \/ HardClose(t)
  <2>1. overtook' = overtook
    BY <1>4 DEF Next, Step, ResealStep, CloseStep, Open, OpenFails, Write, Flush, Close,
       TimerFires, Snapshot, SerializeFails, Superseded, StartWrite, Seal, AtomicWrite,
       WriteFails, SettleOk, SettleErr, MarkClosed, Return, Crash, vars
  <2> QED BY <2>1
<1> QED
  BY <1>3, <1>4

LEMMA AtomicWriteGrows ==
  ASSUME IInv, Clean, NEW t \in Threads, AtomicWrite(t)
  PROVE  /\ blob.data \subseteq blob'.data
         /\ blob'.data = Content(th[t].on, th[t].gen)
<1> DEFINE s == th[t].on
<1>1. /\ s \in Stores /\ blob'.data = th[t].raw /\ MidReseal(t, s)
      /\ th[t].gen \in Nat /\ st[s].persistedGen \in Nat
      /\ st[s].persistedGen < th[t].gen
      /\ lock = s
  BY AtomicWriteFacts DEF Clean
<1>2. th[t].raw = Content(s, th[t].gen)
  BY <1>1 DEF IInv, ImagesAreStates
<1>3. blob.data = Content(s, st[s].persistedGen)
  BY <1>1 DEF IInv, Untorn, Clean
<1>4. Content(s, st[s].persistedGen) \subseteq Content(s, th[t].gen)
  BY <1>1, ContentMonotone
<1> QED
  BY <1>1, <1>2, <1>3, <1>4

\* Whichever Store writes: the new blob has all that the old one had.
LEMMA BlobGrows ==
  ASSUME IInv, [Next]_vars, Clean
  PROVE  blob.data \subseteq blob'.data
<1>1. CASE blob' = blob
  BY <1>1
<1>2. CASE blob' # blob
  BY <1>2, OnlyAtomicWrite, AtomicWriteGrows
<1> QED
  BY <1>1, <1>2

\* Only opening a Store, which nobody has touched before, sets its base.
LEMMA BaseKept ==
  ASSUME IInv, [Next]_vars, NEW v \in Stores
  PROVE  \/ base'[v] = base[v]
         \/ Open(v) /\ st[v].persistedGen = 0 /\ \A t \in Threads : th[t].on # v
<1>1. base \in [Stores -> SUBSET Writes]
  BY DEF IInv, TypeOK
<1>2. ASSUME NEW s \in Stores, Open(s)
      PROVE  \/ base'[v] = base[v]
             \/ Open(v) /\ st[v].persistedGen = 0 /\ \A t \in Threads : th[t].on # v
  BY <1>1, <1>2 DEF Open, IInv, Fresh
<1>3. CASE \E s \in Stores : Open(s)
  BY <1>2, <1>3
<1>4. CASE ~\E s \in Stores : Open(s)
  <2>1. base' = base
    BY <1>4 DEF Next, Step, ResealStep, CloseStep, OpenFails, Write, Flush, Close,
       TimerFires, NothingToDo, Snapshot, SerializeFails, Superseded, StartWrite, Seal,
       AtomicWrite, WriteFails, SettleOk, SettleErr, MarkClosed, HardClose, Return, Crash, vars
  <2> QED BY <2>1
<1> QED
  BY <1>3, <1>4

\* persistedGen follows the rename; a crash forgets it.
LEMMA PersistedMoves ==
  ASSUME IInv, [Next]_vars, NEW v \in Stores
  PROVE  \/ st'[v].persistedGen = st[v].persistedGen
         \/ st'[v].persistedGen = 0
         \/ \E t \in Threads : AtomicWrite(t) /\ th[t].on = v /\ st'[v].persistedGen = th[t].gen
<1> DEFINE P == \/ st'[v].persistedGen = st[v].persistedGen
                \/ st'[v].persistedGen = 0
                \/ \E t \in Threads : AtomicWrite(t) /\ th[t].on = v
                                      /\ st'[v].persistedGen = th[t].gen
<1>0. /\ st \in [Stores -> StoreState] /\ st[v] \in StoreState
      /\ \A t \in Threads : th[t].pc # "idle" => th[t].on \in Stores
  BY DEF IInv, TypeOK
<1>1. ASSUME NEW s \in Stores, Open(s) \/ OpenFails(s) \/ Write(s) PROVE P
  <2>1. CASE Open(s) \/ OpenFails(s)
    <3>1. /\ [st[s] EXCEPT !.status = "live", !.ram = blob.data].persistedGen
               = st[s].persistedGen
          /\ [st[s] EXCEPT !.status = "gone", !.dek = FALSE].persistedGen
               = st[s].persistedGen
      BY <1>0 DEF StoreState
    <3>2. st'[s].persistedGen = st[s].persistedGen /\ (v # s => st'[v] = st[v])
      BY <1>0, <2>1, <3>1 DEF Open, OpenFails
    <3> QED BY <3>2
  <2>2. CASE Write(s)
    <3>1. \A g : MarkDirty([st[s] EXCEPT !.ram = g]).persistedGen = st[s].persistedGen
      BY <1>0 DEF MarkDirty, TypeOK, IInv, StoreState
    <3>2. st'[s].persistedGen = st[s].persistedGen /\ (v # s => st'[v] = st[v])
      BY <1>0, <2>2, <3>1 DEF Write
    <3> QED BY <3>2
  <2> QED BY <1>1, <2>1, <2>2
<1>2. ASSUME NEW s \in Stores, NEW t \in Callers, Flush(t, s) \/ Close(t, s) PROVE P
  BY <1>0, <1>2 DEF Flush, Close, StopTimer, StoreState
<1>3. ASSUME NEW s \in Stores, NEW t \in Timers, TimerFires(t, s) PROVE P
  BY <1>0, <1>3 DEF TimerFires, StoreState
<1>4. ASSUME NEW t \in Threads, ResealStep(t) PROVE P
  <2>1. CASE AtomicWrite(t)
    <3> DEFINE s == th[t].on
    <3>1. s \in Stores /\ st[s] \in StoreState
      BY <1>0, <2>1 DEF AtomicWrite
    <3>2. st' = [st EXCEPT ![s] = [st[s] EXCEPT !.persistedGen = th[t].gen,
                                                !.flushMu = NoThread]]
      BY <2>1 DEF AtomicWrite
    <3>3. st'[s].persistedGen = th[t].gen
      BY <1>0, <3>1, <3>2 DEF StoreState
    <3>4. v # s => st'[v] = st[v]
      BY <1>0, <3>1, <3>2
    <3> QED BY <2>1, <3>3, <3>4
  <2>2. CASE NothingToDo(t) \/ Superseded(t) \/ Seal(t)
    BY <2>2 DEF NothingToDo, Superseded, Seal
  <2>3. CASE Snapshot(t) \/ SerializeFails(t) \/ SettleOk(t)
    BY <1>0, <2>3 DEF Snapshot, SerializeFails, SettleOk, StoreState
  <2>4. CASE StartWrite(t) \/ WriteFails(t)
    BY <1>0, <2>4 DEF StartWrite, WriteFails, StoreState
  <2>5. CASE SettleErr(t)
    <3>1. th[t].on \in Stores
      BY <1>0, <2>5 DEF SettleErr
    <3>2. FlushFailed(st[th[t].on], th[t].gen).persistedGen = st[th[t].on].persistedGen
      BY <1>0, <3>1 DEF FlushFailed, StoreState
    <3> QED BY <1>0, <2>5, <3>1, <3>2 DEF SettleErr
  <2> QED BY <1>4, <2>1, <2>2, <2>3, <2>4, <2>5 DEF ResealStep
<1>5. ASSUME NEW t \in Threads, CloseStep(t) \/ Return(t) PROVE P
  <2>1. CASE MarkClosed(t) \/ Return(t)
    BY <1>0, <2>1 DEF MarkClosed, Return, StoreState
  <2>2. CASE HardClose(t)
    <3>1. PICK s \in Stores : th[t].on = s
      BY <1>0, <2>2 DEF HardClose
    <3>2. [st[s] EXCEPT !.status = "gone", !.ram = {}, !.dek = FALSE].persistedGen
            = st[s].persistedGen
      BY <1>0 DEF StoreState
    <3>3. st'[s].persistedGen = st[s].persistedGen /\ (v # s => st'[v] = st[v])
      BY <1>0, <2>2, <3>1, <3>2 DEF HardClose
    <3> QED BY <3>3
  <2> QED BY <1>5, <2>1, <2>2 DEF CloseStep
<1>6. ASSUME Crash PROVE P
  BY <1>0, <1>6 DEF Crash, NewStore, StoreState
<1>7. ASSUME UNCHANGED vars PROVE P
  BY <1>7 DEF vars
<1> QED
  BY <1>1, <1>2, <1>3, <1>4, <1>5, <1>6, <1>7 DEF Next, Step

LEMMA OnDriveStep ==
  ASSUME IInv, TypeOK', OnDrive, [Next]_vars
  PROVE  OnDrive'
<1> SUFFICES ASSUME Clean', NEW v \in Stores
             PROVE  Content(v, st[v].persistedGen)' \subseteq blob'.data
  BY DEF OnDrive
<1>1. Clean /\ blob.data \subseteq blob'.data
  BY OvertookStays, BlobGrows
<1>2. /\ Content(v, st[v].persistedGen) \subseteq blob.data
      /\ st[v].persistedGen \in Nat
  BY <1>1, StoreTyped DEF OnDrive, IInv
<1>3. Content(v, 0) \subseteq blob.data
  BY <1>2, ContentMonotone
<1>4. CASE base'[v] = base[v]
  <2>1. \A g : Content(v, g)' = Content(v, g)
    BY <1>4 DEF Content
  <2>2. Content(v, st[v].persistedGen)' = Content(v, st'[v].persistedGen)
    BY <1>4 DEF Content
  <2>3. CASE st'[v].persistedGen = st[v].persistedGen
    BY <1>1, <1>2, <2>2, <2>3
  <2>4. CASE st'[v].persistedGen = 0
    BY <1>1, <1>3, <2>2, <2>4
  <2>5. ASSUME NEW t \in Threads, AtomicWrite(t), th[t].on = v, st'[v].persistedGen = th[t].gen
        PROVE  Content(v, st[v].persistedGen)' \subseteq blob'.data
    BY <1>1, <2>2, <2>5, AtomicWriteGrows
  <2> QED BY <2>3, <2>4, <2>5, PersistedMoves
<1>5. CASE Open(v) /\ st[v].persistedGen = 0
  <2>1. base'[v] = blob.data /\ st'[v].persistedGen = 0
    BY <1>5 DEF Open, IInv, TypeOK, StoreState
  <2>2. 1..0 = {}
    OBVIOUS
  <2> QED BY <1>1, <2>1, <2>2 DEF Content
<1> QED
  BY <1>4, <1>5, BaseKept

-----------------------------------------------------------------------------
(* What a Close that returns nil promises *)

\* A Close gets a nil from its reseal in one of three ways.
LEMMA SealedHow ==
  ASSUME IInv, [Next]_vars, NEW t \in Threads, Sealed(t)'
  PROVE  /\ th'[t].on = th[t].on /\ th'[t].asked = th[t].asked /\ th[t].op = "close"
         /\ th[t].on \in Stores
         /\ Sealed(t) \/ NothingToDo(t) \/ Superseded(t) \/ SettleOk(t)
<1> DEFINE P == /\ th'[t].on = th[t].on /\ th'[t].asked = th[t].asked /\ th[t].op = "close"
                /\ th[t].on \in Stores
                /\ Sealed(t) \/ NothingToDo(t) \/ Superseded(t) \/ SettleOk(t)
<1>0. /\ th \in [Threads -> ThreadState] /\ th[t] \in ThreadState
      /\ th[t].pc # "idle" => th[t].on \in Stores
      /\ Callers \subseteq Threads /\ Timers \subseteq Threads
  BY DEF IInv, TypeOK, Threads
<1>1. ASSUME th' = th PROVE P
  BY <1>0, <1>1 DEF Sealed
<1>2. ASSUME NEW s \in Stores, Open(s) \/ OpenFails(s) \/ Write(s) PROVE P
  BY <1>1, <1>2 DEF Open, OpenFails, Write
<1>3. ASSUME NEW u \in Threads, NEW s \in Stores, NEW call, Enter(u, s, call) PROVE P
  BY <1>0, <1>3 DEF Enter, Idle, Sealed, ThreadState
<1>4. ASSUME NEW u \in Threads \ {t}, Step(u) PROVE P
  <2>1. th'[t] = th[t]
    BY <1>0, <1>4 DEF Step, ResealStep, CloseStep, NothingToDo, Snapshot, SerializeFails,
       Superseded, StartWrite, Seal, AtomicWrite, WriteFails, SettleOk, SettleErr,
       ResealReturns, MarkClosed, HardClose, Return
  <2> QED BY <1>0, <2>1 DEF Sealed
<1>5. ASSUME NothingToDo(t) \/ Superseded(t) \/ SettleOk(t) PROVE P
  <2>1. th[t].pc # "idle" /\ ResealReturns(t, "nil")
    BY <1>5 DEF NothingToDo, Superseded, SettleOk
  <2>2. /\ th[t].on \in Stores /\ th'[t].on = th[t].on /\ th'[t].op = th[t].op
        /\ th'[t].asked = th[t].asked
    BY <2>1, ReturnsFacts DEF IInv
  <2> QED BY <1>5, <2>2 DEF Sealed
<1>6. ASSUME SerializeFails(t) \/ SettleErr(t) PROVE P
  <2>1. th[t].pc # "idle" /\ ResealReturns(t, "err")
    BY <1>6 DEF SerializeFails, SettleErr
  <2>2. th'[t].ret = "err"
    BY <2>1, ReturnsFacts DEF IInv
  <2> QED BY <2>2 DEF Sealed
<1>7. ASSUME Snapshot(t) \/ StartWrite(t) \/ Seal(t) \/ AtomicWrite(t) \/ WriteFails(t) PROVE P
  <2>1. CASE Snapshot(t)
    <3>1. th'[t].pc = "guard"
      BY <2>1, SnapshotFacts DEF IInv
    <3> QED BY <3>1 DEF Sealed
  <2>2. CASE StartWrite(t)
    BY <1>0, <2>2 DEF StartWrite, Sealed, ThreadState
  <2>3. CASE Seal(t)
    <3> DEFINE x == [th[t] EXCEPT !.sealed = st[th[t].on].dek, !.pc = "write"]
    <3>1. x.pc = "write"
      BY <1>0 DEF ThreadState
    <3>2. th'[t] = x
      BY <1>0, <2>3 DEF Seal
    <3> QED BY <3>1, <3>2 DEF Sealed
  <2>4. CASE AtomicWrite(t) \/ WriteFails(t)
    <3>1. /\ [th[t] EXCEPT !.ret = "nil", !.pc = "settle"].pc = "settle"
          /\ [th[t] EXCEPT !.ret = "err", !.pc = "settle"].pc = "settle"
      BY <1>0 DEF ThreadState
    <3>2. th'[t].pc = "settle"
      BY <1>0, <2>4, <3>1 DEF AtomicWrite, WriteFails
    <3> QED BY <3>2 DEF Sealed
  <2> QED BY <1>7, <2>1, <2>2, <2>3, <2>4
<1>8. ASSUME CloseStep(t) \/ Return(t) PROVE P
  BY <1>0, <1>8 DEF CloseStep, MarkClosed, HardClose, Return, Idle, Sealed, ThreadState
<1>9. ASSUME Crash PROVE P
  BY <1>0, <1>9 DEF Crash, Idle, Sealed
<1>10. ASSUME NEW u \in Threads, Step(u) PROVE P
  BY <1>4, <1>5, <1>6, <1>7, <1>8, <1>10 DEF Step, ResealStep
<1>11. ASSUME NEW s \in Stores, NEW u \in Callers, Flush(u, s) \/ Close(u, s) PROVE P
  BY <1>0, <1>3, <1>11 DEF Flush, Close
<1>12. ASSUME NEW s \in Stores, NEW u \in Timers, TimerFires(u, s) PROVE P
  BY <1>0, <1>3, <1>12 DEF TimerFires
<1>13. CASE UNCHANGED vars
  BY <1>1, <1>13 DEF vars
<1> QED
  BY <1>2, <1>9, <1>10, <1>11, <1>12, <1>13 DEF Next

\* In each of them persistedGen has reached what the Close was asked for.
LEMMA AskedIsPersisted ==
  ASSUME IInv, Asked, Kept, Clean', NEW t \in Threads, th[t].op = "close",
         NothingToDo(t) \/ Superseded(t) \/ SettleOk(t)
  PROVE  /\ th[t].asked \in Nat
         /\ th[t].asked <= st[th[t].on].persistedGen
<1> DEFINE s == th[t].on
<1>1. th[t].pc # "idle"
  BY DEF NothingToDo, Superseded, SettleOk
<1>2. /\ s \in Stores /\ th[t].asked \in Nat /\ th[t].gen \in Nat
      /\ st[s].writeGen \in Nat /\ st[s].persistedGen \in Nat
      /\ th[t].asked <= st[s].writeGen
      /\ MidReseal(t, s) => th[t].asked <= th[t].gen
  BY <1>1, ThreadTyped, StoreTyped DEF IInv, Asked, ThreadState
<1>3. CASE NothingToDo(t)
  <2>1. overtook' = [overtook EXCEPT ![s] = @ \/ st[s].dirty \/ OthersMidReseal(t, s)]
    BY <1>3 DEF NothingToDo
  <2>2. overtook \in [Stores -> BOOLEAN]
    BY DEF IInv, TypeOK
  <2>3. ~st[s].dirty /\ ~OthersMidReseal(t, s)
    BY <1>2, <2>1, <2>2 DEF Clean
  <2>4. ~MidReseal(t, s)
    BY <1>3 DEF NothingToDo, MidReseal
  <2>5. ~Carried(s)
    BY <2>3, <2>4 DEF Carried, OthersMidReseal
  <2>6. ~(st[s].persistedGen < st[s].writeGen)
    BY <1>2, <2>3, <2>5 DEF Kept
  <2> QED BY <1>2, <2>6
<1>4. CASE Superseded(t)
  <2>1. MidReseal(t, s) /\ ~(th[t].gen > st[s].persistedGen)
    BY <1>4 DEF Superseded, IsNewer, MidReseal
  <2> QED BY <1>2, <2>1
<1>5. CASE SettleOk(t)
  <2>1. MidReseal(t, s) /\ th[t].gen <= st[s].persistedGen
    BY <1>5 DEF SettleOk, MidReseal, IInv, Settled
  <2> QED BY <1>2, <2>1
<1> QED
  BY <1>3, <1>4, <1>5

LEMMA ServedStep ==
  ASSUME IInv, Asked, Kept, OnDrive, Served, [Next]_vars
  PROVE  Served'
<1> SUFFICES ASSUME Clean', NEW t \in Threads, Sealed(t)'
             PROVE  Content(th[t].on, th[t].asked)' \subseteq blob'.data
  BY DEF Served
<1> DEFINE s == th[t].on
<1>1. Clean /\ blob.data \subseteq blob'.data
  BY OvertookStays, BlobGrows
<1>2. /\ th'[t].on = s /\ th'[t].asked = th[t].asked /\ th[t].op = "close" /\ s \in Stores
      /\ Sealed(t) \/ NothingToDo(t) \/ Superseded(t) \/ SettleOk(t)
  BY SealedHow
<1>3. base'[s] = base[s]
  BY <1>2, BaseKept
<1>4. Content(th[t].on, th[t].asked)' = Content(s, th[t].asked)
  BY <1>2, <1>3 DEF Content
<1>5. Content(s, th[t].asked) \subseteq blob.data
  <2>1. CASE Sealed(t)
    BY <1>1, <2>1 DEF Served
  <2>2. CASE NothingToDo(t) \/ Superseded(t) \/ SettleOk(t)
    <3>1. /\ th[t].asked \in Nat /\ st[s].persistedGen \in Nat
          /\ th[t].asked <= st[s].persistedGen
      BY <1>2, <2>2, AskedIsPersisted, StoreTyped DEF IInv
    <3>2. Content(s, th[t].asked) \subseteq Content(s, st[s].persistedGen)
      BY <3>1, ContentMonotone
    <3> QED BY <1>1, <1>2, <3>2 DEF OnDrive
  <2> QED BY <1>2, <2>1, <2>2
<1> QED
  BY <1>1, <1>4, <1>5

-----------------------------------------------------------------------------
(* The theorems *)

DInv == IInv /\ Asked /\ Kept /\ Told /\ OnDrive /\ Served

LEMMA InitDInv == Init => DInv
<1> SUFFICES ASSUME Init PROVE DInv
  OBVIOUS
<1>1. /\ \A s \in Stores : st[s] = NewStore /\ base[s] = {}
      /\ \A t \in Threads : th[t] = Idle
  BY DEF Init
<1>2. Asked /\ Kept /\ Told
  BY <1>1 DEF Asked, Kept, Told, Unpersisted, NewStore, Idle
<1>3. \A s \in Stores : st[s].persistedGen = 0 /\ Content(s, 0) = {}
  <2> TAKE s \in Stores
  <2>1. Content(s, 0) = base[s]
    BY ContentZero
  <2> QED BY <1>1, <2>1 DEF NewStore
<1>4. OnDrive
  BY <1>3 DEF OnDrive
<1>5. Served
  BY <1>1 DEF Served, Sealed, Idle
<1> QED
  BY <1>2, <1>4, <1>5, InitIInv DEF DInv

LEMMA NextDInv == DInv /\ [Next]_vars => DInv'
<1> SUFFICES ASSUME DInv, [Next]_vars PROVE DInv'
  OBVIOUS
<1>1. IInv' /\ TypeOK'
  BY NextIInv DEF DInv, IInv
<1>2. Asked' /\ Kept' /\ Told'
  BY AskedStep, DutyStep DEF DInv
<1>3. OnDrive' /\ Served'
  BY <1>1, OnDriveStep, ServedStep DEF DInv
<1> QED
  BY <1>1, <1>2, <1>3 DEF DInv

\* What a caller of Close or FlushErr may conclude is kept by every step.
THEOREM DurabilityInductive == Spec => []DInv
  BY InitDInv, NextDInv, PTL DEF Spec

\* Close returned nil: everything written before it was called is on the drive,
\* and stays there, unless a Close went past a reseal.
THEOREM CleanCloseCorrect == Spec => []CleanCloseIsDurable
<1>1. DInv => CleanCloseIsDurable
  BY DEF DInv, Served, Sealed, Clean, CleanCloseIsDurable
<1> QED
  BY <1>1, DurabilityInductive, PTL

\* Where Serialize does not fail, FlushErr is never silent about a write that
\* nobody is going to persist any more.
THEOREM ReportedCorrect == Spec => [](~SerializeFaults => UnpersistedIsReported)
<1>1. DInv => (~SerializeFaults => UnpersistedIsReported)
  BY DEF DInv, Told, Known, UnpersistedIsReported
<1> QED
  BY <1>1, DurabilityInductive, PTL
=============================================================================

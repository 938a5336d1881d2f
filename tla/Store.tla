------------------------------- MODULE Store -------------------------------
(***************************************************************************)
(* The persistence half of internal/store: an in-RAM database whose image  *)
(* is re-sealed to one blob by a debounced timer, by Flush and by Close.   *)
(*                                                                         *)
(* Stores are the *Store values opened on one drive, in this or in another *)
(* process (lock and unlock give a new one).  The goroutines that run      *)
(* reseal are Callers (Flush, Close) and Timers (time.AfterFunc).  Each    *)
(* critical section of Store.mu or Store.flushMu is one action; everything *)
(* between two of them may interleave.  The database is the set of writes  *)
(* it has absorbed: <<s, k>> is the k-th write that store s accepted.      *)
(***************************************************************************)
EXTENDS Naturals

CONSTANTS
  Stores, NoStore,       \* *Store values on this drive
  Callers, Timers,       \* goroutines
  NoThread,
  MaxGen,                \* bound: writes accepted by each Store value
  SerializeFaults        \* whether Serialize() may fail

Threads == Callers \cup Timers

ASSUME StoreAssumption ==
  /\ NoStore \notin Stores
  /\ NoThread \notin Threads
  /\ Callers \cap Timers = {}
  /\ MaxGen \in [Stores -> Nat]
  /\ SerializeFaults \in BOOLEAN

VARIABLES
  lock,                  \* the Store that holds the flock on blob.lock
  blob,                  \* foundry.db.enc: by whom, which state, good key?
  st,                    \* each Store: the struct's fields
  th,                    \* each goroutine: where it is, on what, its locals
  base,                  \* history: what each Store loaded when opened
  overtook               \* history: a Close went past unfinished work

vars == <<lock, blob, st, th, base, overtook>>

Writes == UNION {{s} \X (1..MaxGen[s]) : s \in Stores}

\* The database of s once it has absorbed its first g writes.
Content(s, g) == base[s] \cup {<<s, k>> : k \in 1..g}

\* A Store value before Open.  status says whether the connection exists;
\* dek whether the key bytes are still there; timer whether it is armed.
NewStore ==
  [status |-> "new", ram |-> {}, dirty |-> FALSE, closed |-> FALSE,
   writeGen |-> 0, timer |-> FALSE, lastFlushErr |-> FALSE, failedGen |-> 0,
   flushMu |-> NoThread, persistedGen |-> 0, dek |-> TRUE]

\* A goroutine outside any call.  asked is history: writeGen at its call.
Idle ==
  [pc |-> "idle", op |-> "none", on |-> NoStore, raw |-> {}, gen |-> 0,
   sealed |-> TRUE, ret |-> "nil", asked |-> 0]

Init ==
  /\ lock = NoStore
  /\ blob = [by |-> NoStore, gen |-> 0, data |-> {}, good |-> TRUE]
  /\ st = [s \in Stores |-> NewStore]
  /\ th = [t \in Threads |-> Idle]
  /\ base = [s \in Stores |-> {}]
  /\ overtook = [s \in Stores |-> FALSE]

\* t is between the snapshot and the last critical section of a reseal of s.
MidReseal(t, s) ==
  th[t].on = s /\ th[t].pc \in {"guard", "seal", "write", "settle"}

OthersMidReseal(t, s) == \E u \in Threads \ {t} : MidReseal(u, s)

-----------------------------------------------------------------------------
(* Opening a Store and writing to it *)

\* acquireLock: flock(LOCK_EX | LOCK_NB) succeeds.
CanLockAlways == TRUE
CanLock == lock = NoStore

\* Open: the flock, then the blob, decrypted and loaded into RAM.
Open(s) ==
  /\ st[s].status = "new"
  /\ CanLock
  /\ blob.good
  /\ lock' = s
  /\ st' = [st EXCEPT ![s] = [@ EXCEPT !.status = "live", !.ram = blob.data]]
  /\ base' = [base EXCEPT ![s] = blob.data]
  /\ UNCHANGED <<blob, th, overtook>>

\* Open on a blob that was sealed under another key: hardClose gives the
\* flock back and the caller gets the error.
OpenFails(s) ==
  /\ st[s].status = "new"
  /\ CanLock
  /\ ~blob.good
  /\ st' = [st EXCEPT ![s] = [@ EXCEPT !.status = "gone", !.dek = FALSE]]
  /\ UNCHANGED <<lock, blob, th, base, overtook>>

\* markDirtyLocked on a Store: the timer is armed, or reset, unless closed.
MarkDirtyNoReset(r) ==
  [r EXCEPT !.dirty = TRUE, !.writeGen = @ + 1, !.timer = @ \/ r.writeGen = 0]
MarkDirty(r) ==
  [r EXCEPT !.dirty = TRUE, !.writeGen = @ + 1, !.timer = @ \/ ~r.closed]

\* Any mutating operation (KVSet, QueuePush, PutTool, ...) that succeeds, up
\* to its markDirtyLocked.
Write(s) ==
  LET r == st[s]
      g == r.writeGen + 1
  IN
  /\ r.status = "live"
  /\ g <= MaxGen[s]
  /\ st' = [st EXCEPT ![s] = MarkDirty([r EXCEPT !.ram = r.ram \cup {<<s, g>>}])]
  /\ UNCHANGED <<lock, blob, th, base, overtook>>

-----------------------------------------------------------------------------
(* Entering and leaving a call *)

EnterUnbound(t, s, call) ==
  /\ th[t].pc = "idle"
  /\ th' = [th EXCEPT ![t] = [Idle EXCEPT !.pc = "check", !.op = call]]
Enter(t, s, call) ==
  /\ th[t].pc = "idle"
  /\ th' = [th EXCEPT ![t] =
             [Idle EXCEPT !.pc = "check", !.op = call, !.on = s,
                          !.asked = IF call = "timer" THEN 0 ELSE st[s].writeGen]]

Flush(t, s) ==
  /\ st[s].status = "live"
  /\ Enter(t, s, "flush")
  /\ UNCHANGED <<lock, blob, st, base, overtook>>

\* The debounce timer runs out: reseal on a goroutine of its own.
TimerFires(t, s) ==
  /\ st[s].timer
  /\ st' = [st EXCEPT ![s].timer = FALSE]
  /\ Enter(t, s, "timer")
  /\ UNCHANGED <<lock, blob, base, overtook>>

StopTimerZeroDek(r) == [r EXCEPT !.timer = FALSE, !.dek = FALSE]
StopTimer(r) == [r EXCEPT !.timer = FALSE]

\* Close up to its first unlock (a Store already marked closed returns there).
Close(t, s) ==
  /\ st[s].status = "live"
  /\ ~st[s].closed
  /\ st' = [st EXCEPT ![s] = StopTimer(@)]
  /\ Enter(t, s, "close")
  /\ UNCHANGED <<lock, blob, base, overtook>>

\* Where a goroutine is once reseal has returned: on in Close, or done.
AfterReseal(t) == IF th[t].op = "close" THEN "mark" ELSE "returned"

ResealSwallows(t, r) ==
  th' = [th EXCEPT ![t] = [@ EXCEPT !.ret = "nil", !.pc = AfterReseal(t)]]
ResealReturns(t, r) ==
  th' = [th EXCEPT ![t] = [@ EXCEPT !.ret = r, !.pc = AfterReseal(t)]]

Return(t) ==
  /\ th[t].pc = "returned"
  /\ th' = [th EXCEPT ![t] = Idle]
  /\ UNCHANGED <<lock, blob, st, base, overtook>>

-----------------------------------------------------------------------------
(* reseal *)

MustReseal(s) == st[s].dirty /\ ~st[s].closed

\* Nothing to write, or closed.  A Close that finds it so although writes are
\* still on their way to the drive has overtaken them.
NothingToDo(t) ==
  LET s == th[t].on IN
  /\ th[t].pc = "check"
  /\ ~MustReseal(s)
  /\ ResealReturns(t, "nil")
  /\ overtook' = [overtook EXCEPT ![s] =
       @ \/ (th[t].op = "close" /\ (st[s].dirty \/ OthersMidReseal(t, s)))]
  /\ UNCHANGED <<lock, blob, st, base>>

SnapshotGenByFlush(s) == st[s].persistedGen + 1
SnapshotGen(s) == st[s].writeGen

\* Phase 1, under mu: the snapshot.
Snapshot(t) ==
  LET s == th[t].on IN
  /\ th[t].pc = "check"
  /\ MustReseal(s)
  /\ th' = [th EXCEPT ![t] =
       [@ EXCEPT !.raw = st[s].ram, !.gen = SnapshotGen(s), !.pc = "guard"]]
  /\ st' = [st EXCEPT ![s].dirty = FALSE]
  /\ UNCHANGED <<lock, blob, base, overtook>>

SerializeFails(t) ==
  LET s == th[t].on IN
  /\ SerializeFaults
  /\ th[t].pc = "check"
  /\ MustReseal(s)
  /\ st' = [st EXCEPT ![s].lastFlushErr = TRUE]
  /\ ResealReturns(t, "err")
  /\ UNCHANGED <<lock, blob, base, overtook>>

\* The generation guard: this snapshot may still be written.
IsNewerUnguarded(t) == TRUE
IsNewer(t) == th[t].gen > st[th[t].on].persistedGen

\* Phase 2, flushMu: a snapshot no newer than the blob is dropped.
Superseded(t) ==
  /\ th[t].pc = "guard"
  /\ st[th[t].on].flushMu = NoThread
  /\ ~IsNewer(t)
  /\ ResealReturns(t, "nil")
  /\ UNCHANGED <<lock, blob, st, base, overtook>>

StartWrite(t) ==
  LET s == th[t].on IN
  /\ th[t].pc = "guard"
  /\ st[s].flushMu = NoThread
  /\ IsNewer(t)
  /\ st' = [st EXCEPT ![s].flushMu = t]
  /\ th' = [th EXCEPT ![t].pc = "seal"]
  /\ UNCHANGED <<lock, blob, base, overtook>>

\* secret.Seal reads the dek; nothing orders that with hardClose zeroing it.
Seal(t) ==
  /\ th[t].pc = "seal"
  /\ th' = [th EXCEPT ![t] = [@ EXCEPT !.sealed = st[th[t].on].dek, !.pc = "write"]]
  /\ UNCHANGED <<lock, blob, st, base, overtook>>

\* atomicWrite up to its rename, then persistedGen.
AtomicWrite(t) ==
  LET s == th[t].on IN
  /\ th[t].pc = "write"
  /\ blob' = [by |-> s, gen |-> th[t].gen, data |-> th[t].raw, good |-> th[t].sealed]
  /\ st' = [st EXCEPT ![s] = [@ EXCEPT !.persistedGen = th[t].gen, !.flushMu = NoThread]]
  /\ th' = [th EXCEPT ![t] = [@ EXCEPT !.ret = "nil", !.pc = "settle"]]
  /\ UNCHANGED <<lock, base, overtook>>

\* Drive full, unplugged, read-only: some step before the rename fails.
WriteFailsLocked(t) ==
  /\ th[t].pc = "write"
  /\ th' = [th EXCEPT ![t] = [@ EXCEPT !.ret = "err", !.pc = "settle"]]
  /\ UNCHANGED <<lock, blob, st, base, overtook>>
WriteFails(t) ==
  LET s == th[t].on IN
  /\ th[t].pc = "write"
  /\ st' = [st EXCEPT ![s].flushMu = NoThread]
  /\ th' = [th EXCEPT ![t] = [@ EXCEPT !.ret = "err", !.pc = "settle"]]
  /\ UNCHANGED <<lock, blob, base, overtook>>

\* Phase 3, under mu: a success clears the error unless a newer state failed.
ClearsErrorAlways(t) == TRUE
ClearsError(t) == th[t].gen >= st[th[t].on].failedGen

SettleOk(t) ==
  LET s == th[t].on IN
  /\ th[t].pc = "settle"
  /\ th[t].ret = "nil"
  /\ st' = [st EXCEPT ![s].lastFlushErr = @ /\ ~ClearsError(t)]
  /\ ResealReturns(t, "nil")
  /\ UNCHANGED <<lock, blob, base, overtook>>

FlushFailedClean(r, g) ==
  [r EXCEPT !.lastFlushErr = TRUE, !.failedGen = IF g > @ THEN g ELSE @]
FlushFailed(r, g) ==
  [r EXCEPT !.lastFlushErr = TRUE, !.dirty = TRUE,
            !.failedGen = IF g > @ THEN g ELSE @]

SettleErr(t) ==
  /\ th[t].pc = "settle"
  /\ th[t].ret = "err"
  /\ st' = [st EXCEPT ![th[t].on] = FlushFailed(@, th[t].gen)]
  /\ ResealReturns(t, "err")
  /\ UNCHANGED <<lock, blob, base, overtook>>

-----------------------------------------------------------------------------
(* The rest of Close, and the end of a process *)

MarkClosed(t) ==
  /\ th[t].pc = "mark"
  /\ st' = [st EXCEPT ![th[t].on].closed = TRUE]
  /\ th' = [th EXCEPT ![t].pc = "hard"]
  /\ UNCHANGED <<lock, blob, base, overtook>>

\* The connection goes, the flock is dropped and the dek is zeroed, whether
\* or not another goroutine is still between its snapshot and its rename.
HardClose(t) ==
  LET s == th[t].on IN
  /\ th[t].pc = "hard"
  /\ st' = [st EXCEPT ![s] = [@ EXCEPT !.status = "gone", !.ram = {}, !.dek = FALSE]]
  /\ lock' = IF lock = s THEN NoStore ELSE lock
  /\ th' = [th EXCEPT ![t].pc = "returned"]
  /\ overtook' = [overtook EXCEPT ![s] = @ \/ OthersMidReseal(t, s)]
  /\ UNCHANGED <<blob, base>>

\* The processes on this drive are killed: goroutines, timers and memory are
\* gone, the kernel drops the flock, the blob is what was last renamed.
Crash ==
  /\ lock # NoStore \/ \E t \in Threads : th[t] # Idle
  /\ lock' = NoStore
  /\ st' = [s \in Stores |-> IF st[s].status = "new" THEN st[s]
                             ELSE [NewStore EXCEPT !.status = "gone"]]
  /\ th' = [t \in Threads |-> Idle]
  /\ UNCHANGED <<blob, base, overtook>>

-----------------------------------------------------------------------------
ResealStep(t) ==
  \/ NothingToDo(t) \/ Snapshot(t) \/ SerializeFails(t)
  \/ Superseded(t) \/ StartWrite(t) \/ Seal(t)
  \/ AtomicWrite(t) \/ WriteFails(t)
  \/ SettleOk(t) \/ SettleErr(t)

CloseStep(t) == MarkClosed(t) \/ HardClose(t)

Step(t) == ResealStep(t) \/ CloseStep(t) \/ Return(t)

Next ==
  \/ \E s \in Stores : Open(s) \/ OpenFails(s) \/ Write(s)
  \/ \E s \in Stores, t \in Callers : Flush(t, s) \/ Close(t, s)
  \/ \E s \in Stores, t \in Timers : TimerFires(t, s)
  \/ \E t \in Threads : Step(t)
  \/ Crash

Spec == Init /\ [][Next]_vars

\* A goroutine that runs keeps running, sync.Mutex does not starve one that
\* waits for flushMu, and the runtime fires an armed timer.
Fairness ==
  /\ \A t \in Threads : WF_vars(Step(t))
  /\ \A t \in Threads : SF_vars(Superseded(t) \/ StartWrite(t))
  /\ \A s \in Stores : WF_vars(\E t \in Timers : TimerFires(t, s))

FairSpec == Spec /\ Fairness

-----------------------------------------------------------------------------
(* Properties *)

StoreState ==
  [status : {"new", "live", "gone"}, ram : SUBSET Writes, dirty : BOOLEAN,
   closed : BOOLEAN, writeGen : Nat, timer : BOOLEAN, lastFlushErr : BOOLEAN,
   failedGen : Nat, flushMu : Threads \cup {NoThread}, persistedGen : Nat,
   dek : BOOLEAN]

ThreadState ==
  [pc : {"idle", "check", "guard", "seal", "write", "settle", "mark", "hard",
         "returned"},
   op : {"none", "flush", "timer", "close"}, on : Stores \cup {NoStore},
   raw : SUBSET Writes, gen : Nat, sealed : BOOLEAN, ret : {"nil", "err"},
   asked : Nat]

Image == [by : Stores \cup {NoStore}, gen : Nat, data : SUBSET Writes, good : BOOLEAN]

\* Every variable has its type, and a goroutine in a call knows its Store.
TypeOK ==
  /\ lock \in Stores \cup {NoStore}
  /\ blob \in Image
  /\ st \in [Stores -> StoreState]
  /\ th \in [Threads -> ThreadState]
  /\ \A t \in Threads : th[t].pc # "idle" => th[t].on \in Stores
  /\ base \in [Stores -> SUBSET Writes]
  /\ overtook \in [Stores -> BOOLEAN]

\* A generation names one database state: the RAM, every snapshot on its way
\* to the drive and the blob are all what their Store held at that
\* generation, never a mixture (reseal copies and reads writeGen in one
\* critical section).
ImagesAreStates ==
  /\ \A s \in Stores : st[s].status = "live" => st[s].ram = Content(s, st[s].writeGen)
  /\ \A t \in Threads : \A s \in Stores :
       MidReseal(t, s) => th[t].raw = Content(s, th[t].gen)
  /\ blob.by # NoStore => blob.data = Content(blob.by, blob.gen)

\* "A monotonic generation guard ensures a stale snapshot can't overwrite a
\* newer blob": among the writes of one Store the blob only moves forward,
\* whichever goroutine gets there last.
StaleNeverOverwrites ==
  [][blob' # blob /\ blob'.by = blob.by => blob'.gen > blob.gen]_vars

\* s has accepted writes that no successful reseal has covered.
Unpersisted(s) == st[s].status = "live" /\ st[s].persistedGen < st[s].writeGen

\* Some goroutine holds a snapshot of the newest state of s.
Carried(s) == \E t \in Threads : MidReseal(t, s) /\ th[t].gen = st[s].writeGen

\* No accepted write is forgotten: until it is on the drive, either the dirty
\* flag asks for a reseal or one is under way that carries it.
NothingForgotten == \A s \in Stores : Unpersisted(s) => st[s].dirty \/ Carried(s)

\* A goroutine of s is about to take a snapshot.
ResealComing(s) ==
  st[s].timer \/ \E t \in Threads : th[t].on = s /\ th[t].pc = "check"

\* Data that is not on the drive is either on its way (armed timer, reseal
\* about to look, snapshot under way) or FlushErr says so: a flush failure
\* may lose the timer, but not silently.  Once Close has marked the Store
\* closed it reports through its own return value instead.
UnpersistedIsReported ==
  \A s \in Stores :
    Unpersisted(s) /\ ~st[s].closed => st[s].lastFlushErr \/ ResealComing(s) \/ Carried(s)

\* One writer per drive: only the Store that holds the flock replaces the
\* blob, unless its Close overtook a reseal.
SingleWriter ==
  [][blob' # blob => lock = blob'.by \/ overtook[blob'.by]]_vars

\* The blob always opens under the DEK, unless a Close overtook a reseal.
BlobOpens == ~blob.good => blob.by \in Stores /\ overtook[blob.by]

\* A Close that returns nil and overtook nothing has left on the drive
\* everything that was written before it was called.
CleanCloseIsDurable ==
  \A t \in Threads :
    th[t].pc = "returned" /\ th[t].op = "close" /\ th[t].ret = "nil"
      /\ (\A s \in Stores : ~overtook[s])
    => Content(th[t].on, th[t].asked) \subseteq blob.data

\* "Close flushes, releases the connection, and drops the drive lock", and
\* only a crash can end a Store otherwise: the blob opens, whatever overlaps.
BlobAlwaysOpens == blob.good

\* A write is on the drive in the end, or FlushErr has reported a failure, or
\* the Store was closed or killed.  Whoever keeps writing may postpone the
\* debounced timer; the bound on writes is where they pause.
EventuallyDurableOrReported ==
  \A s \in Stores :
    Unpersisted(s) ~> (~Unpersisted(s) \/ st[s].lastFlushErr \/ st[s].closed)

\* A Close that was called drops the flock, or the process is killed: it is
\* never stuck behind flushMu or a failing drive.
CloseReleases ==
  \A s \in Stores :
    (\E t \in Threads : th[t].op = "close" /\ th[t].on = s /\ th[t].pc # "idle")
      ~> (st[s].status = "gone" /\ lock # s)

\* The flush machinery is a DurableLog: snapshots, concurrent reseals, the
\* guard, failures and crashes together behave as one atomic persist.
Log == INSTANCE DurableLog WITH
  Update   <- Writes,
  live     <- lock # NoStore,
  volatile <- IF lock = NoStore THEN {} ELSE st[lock].ram,
  versions <- IF lock = NoStore THEN {}
              ELSE {Content(lock, g) : g \in 0..st[lock].writeGen},
  durable  <- blob.data,
  torn     <- \E s \in Stores : overtook[s]

ImplementsLog == Log!Spec
=============================================================================

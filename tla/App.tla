-------------------------------- MODULE App --------------------------------
(***************************************************************************)
(* The life of Foundry on one drive: internal/gui with the component it    *)
(* unlocks and locks, `foundry serve` as a second process, and the two     *)
(* files they share, foundry.key.json and foundry.db.enc.                  *)
(*                                                                         *)
(* The GUI process runs its requests Reqs and the loop Main of App.Run.    *)
(* App.mu is held for single steps, except by open, which holds it from    *)
(* deriving the key until the store is up; Argon2 alone takes a second.    *)
(* The flock, the files and a store that is being closed are not under mu. *)
(*                                                                         *)
(* A Session is what one attempt to open creates: a Component with its     *)
(* store, server, cookie and tokens.  Its number also names the data key   *)
(* that attempt would mint.  The database is the number of writes it has   *)
(* absorbed.  Its debounced reseal runs on a goroutine of its own, beside  *)
(* the thread that closes the store; what else happens inside one store is *)
(* module Store.                                                           *)
(***************************************************************************)
EXTENDS Naturals, FiniteSets

CONSTANTS
  Reqs,                  \* requests of the GUI process
  Main,                  \* its main goroutine, and the process itself
  Servers,               \* `foundry serve` processes
  Timers,                \* goroutines that run a debounced reseal
  Passwords,
  MaxOpens,              \* bound: attempts to open the store
  MaxWrites,             \* bound: writes accepted
  NoThread

Threads  == Reqs \cup {Main} \cup Servers
Sessions == 1..MaxOpens
None     == 0            \* no session, no data key
Zeroed   == MaxOpens + 1 \* the bytes of a data key after hardClose

ASSUME AppAssumption ==
  /\ Main \notin Reqs /\ Main \notin Servers /\ Reqs \cap Servers = {}
  /\ NoThread \notin Threads
  /\ MaxOpens \in Nat /\ MaxWrites \in Nat

VARIABLES
  key,                   \* foundry.key.json: absent, torn, or an envelope
  blob,                  \* foundry.db.enc: its data key (or None), its state
  flock,                 \* the session that holds the drive lock
  sess,                  \* each session's store
  reseal,                \* each debounced reseal: where it is, its locals
  opens,                 \* attempts so far
  comp,                  \* App.comp, and with it planes and session cookie
  stale,                 \* App.lastSeen, read while unlocked: too old
  mu,                    \* the request inside open, or NoThread
  th,                    \* each thread: where it is, its locals
  written,               \* history: writes accepted so far
  away,                  \* history: the human did nothing for the idle limit
  overwrote,             \* history: a key file was created over another
  overtook,              \* history: a Close went past a reseal under way
  excused                \* history: accepted writes were given up

app     == <<comp, stale, mu, away>>
flush   == <<reseal, overtook>>
drive   == <<key, blob, flock, sess, overwrote, flush>>
history == <<written, excused>>
vars    == <<drive, opens, app, th, history>>

NoKey == [state |-> "absent", pw |-> NoThread, dek |-> None]
Torn  == [state |-> "torn", pw |-> NoThread, dek |-> None]

\* NewEnvelope and Unwrap: the data key under the password.
Envelope(pw, dek) == [state |-> "envelope", pw |-> pw, dek |-> dek]
UnwrapsUnchecked(pw) == TRUE
Unwraps(pw) == key.state = "envelope" /\ key.pw = pw

\* A store that was never opened.  by is the process it lives in, done the
\* newest state it has put on the drive or loaded from it (persistedGen).
NoStore ==
  [pc |-> "none", by |-> NoThread, dek |-> None, ram |-> 0, dirty |-> FALSE, done |-> 0]

\* A store whose process is gone.
Gone == [NoStore EXCEPT !.pc = "closed", !.dek = Zeroed]

\* A timer that runs no reseal.  dek is the key that was read to seal.
NoReseal == [pc |-> "idle", on |-> None, gen |-> 0, dek |-> None]

\* op sets setup apart from unlock, and a lock that ends the process.  absent
\* is what the thread saw of the key file, on is its session: the one it opens
\* or closes, or the one whose handler it runs.
Idle ==
  [pc |-> "idle", op |-> "none", cred |-> None, on |-> None, pw |-> NoThread,
   dek |-> None, absent |-> FALSE]

Init ==
  /\ key = NoKey /\ blob = [dek |-> None, gen |-> 0] /\ flock = None
  /\ sess = [n \in Sessions |-> NoStore] /\ reseal = [r \in Timers |-> NoReseal]
  /\ opens = 0
  /\ comp = None /\ stale = FALSE /\ mu = NoThread
  /\ th = [t \in Threads |-> Idle]
  /\ written = 0 /\ away = FALSE
  /\ overwrote = FALSE /\ overtook = FALSE /\ excused = FALSE

\* The program points of a thread with a session of its own: before its store
\* is open, and while it answers for the store.
Opening == {"stat", "open", "create", "write", "read", "load", "store"}
Holding == {"engine", "serving", "seal", "release"}

At(t, pc) == th[t].pc = pc
Goto(t, pc) == th' = [th EXCEPT ![t].pc = pc]

\* The response is sent; the main loop waits for its next tick.
Respond(t) == th' = [th EXCEPT ![t] = Idle]

Process(t) == IF t \in Servers THEN t ELSE Main

-----------------------------------------------------------------------------
(* Requests arrive.  touch comes first, and waits for mu unless the request  *)
(* is an agent's. *)

TouchAlways(agent) == stale' = FALSE
Touch(agent) == stale' = (stale /\ (agent \/ comp = None))

Arrive(t, agent, local) ==
  /\ At(t, "idle")
  /\ agent \/ mu = NoThread
  /\ Touch(agent)
  /\ away' = (away /\ agent)
  /\ th' = [th EXCEPT ![t] = local]
  /\ UNCHANGED <<drive, comp, mu, history>>

\* Shutdown lets nobody in.
Listening == th[Main].op # "stop"

\* Anything outside /v1/ that changes nothing else: the page, /api/state, a
\* request that lacks the launch token or the password.
Visit(t) == Listening /\ Arrive(t, FALSE, Idle) /\ UNCHANGED opens

\* setup and unlock, with the launch token.
Setup(t, pw) ==
  /\ Listening /\ opens < MaxOpens
  /\ opens' = opens + 1
  /\ Arrive(t, FALSE, [Idle EXCEPT !.pc = "stat", !.op = "setup", !.on = opens', !.pw = pw])

Unlock(t, pw) ==
  /\ Listening /\ opens < MaxOpens
  /\ opens' = opens + 1
  /\ Arrive(t, FALSE, [Idle EXCEPT !.pc = "open", !.on = opens', !.pw = pw])

\* lock and the planes come with a credential of some session there is or was.
\* They have mu again after touch, to find their session.  What happens between
\* the two is what happens between a Visit and one of these, whose request came
\* before the signal to stop if need be.
Issued == {n \in Sessions : sess[n].pc # "none"}

\* hasSession, requireToken and controlAuth: the credential of the session
\* whose planes these are.  They read nothing else.
AuthorisedAny(c, n) == TRUE
Authorised(c, n) == c = n

\* lock, and hasSession; lockNow takes mu once more.
Lock(t, c) ==
  /\ mu = NoThread
  /\ Arrive(t, FALSE, IF comp # None /\ c = comp THEN [Idle EXCEPT !.pc = "detach"] ELSE Idle)
  /\ UNCHANGED opens

\* proxy reads planes under mu; what it found guards and handles the request,
\* whatever App.comp is by then.  The use plane is under /v1/, the control
\* plane is not.
Proxy(t, agent, c) ==
  /\ mu = NoThread
  /\ Arrive(t, agent, IF comp # None /\ Authorised(c, comp)
                      THEN [Idle EXCEPT !.pc = "work", !.cred = c, !.on = comp] ELSE Idle)
  /\ UNCHANGED opens

Use(t, c) == Proxy(t, TRUE, c)
Control(t, c) == Proxy(t, FALSE, c)

-----------------------------------------------------------------------------
(* setup, unlock: open *)

\* setup's os.Stat, before mu is taken.
KeyNeverThere == FALSE
KeyThere == key.state # "absent"

StatKey(t) ==
  /\ At(t, "stat")
  /\ IF KeyThere THEN Respond(t)
     ELSE th' = [th EXCEPT ![t] = [@ EXCEPT !.pc = "open", !.absent = (key = NoKey)]]
  /\ UNCHANGED <<drive, opens, app, history>>

\* open takes mu, and keeps it unless the app is unlocked already.
TakeMu(t) ==
  /\ At(t, "open") /\ mu = NoThread
  /\ IF comp # None
     THEN Respond(t) /\ UNCHANGED mu
     ELSE /\ mu' = t
          /\ Goto(t, IF th[t].op = "setup" THEN "create" ELSE "read")
  /\ UNCHANGED <<drive, opens, comp, stale, away, history>>

\* open returns with an error; a server that cannot open exits.
Fail(t) == Respond(t) /\ mu' = (IF mu = t THEN NoThread ELSE mu)

\* deriveDEK, create: NewEnvelope, then WriteFile, which truncates first.
Truncate(t) ==
  /\ At(t, "create")
  /\ key' = Torn
  /\ overwrote' = (overwrote \/ (th[t].absent /\ key # NoKey))
  /\ th' = [th EXCEPT ![t] = [@ EXCEPT !.pc = "write", !.absent = FALSE]]
  /\ UNCHANGED <<blob, flock, sess, flush, opens, app, history>>

WriteKey(t) ==
  /\ At(t, "write")
  /\ key' = Envelope(th[t].pw, th[t].on)
  /\ th' = [th EXCEPT ![t] = [@ EXCEPT !.pc = "store", !.dek = th[t].on]]
  /\ UNCHANGED <<blob, flock, sess, flush, overwrote, opens, app, history>>

\* The drive is full, or gone: before or after the file was truncated.
CreateFails(t) ==
  /\ th[t].pc \in {"create", "write"}
  /\ Fail(t)
  /\ UNCHANGED <<drive, opens, comp, stale, away, history>>

\* deriveDEK, unlock.
ReadKey(t) ==
  /\ At(t, "read") /\ Unwraps(th[t].pw)
  /\ th' = [th EXCEPT ![t] = [@ EXCEPT !.pc = "store", !.dek = key.dek]]
  /\ UNCHANGED <<drive, opens, app, history>>

\* No file, a torn one, a wrong password, or the drive is gone.
ReadFails(t) ==
  /\ At(t, "read")
  /\ Fail(t)
  /\ UNCHANGED <<drive, opens, comp, stale, away, history>>

\* store.Open: the flock, then the blob, if there is one, under the data key.
DriveFree == flock = None
BlobOpens(dek) == blob.dek \in {None, dek}

OpenStore(t) ==
  LET n == th[t].on IN
  /\ At(t, "store")
  /\ DriveFree /\ BlobOpens(th[t].dek)
  /\ flock' = n
  /\ sess' = [sess EXCEPT ![n] = [NoStore EXCEPT !.pc = "open", !.by = Process(t),
                                    !.dek = th[t].dek, !.ram = blob.gen, !.done = blob.gen]]
  /\ th' = [th EXCEPT ![t] = [Idle EXCEPT !.pc = "engine", !.on = n]]
  /\ UNCHANGED <<key, blob, flush, overwrote, opens, app, history>>

\* Someone else has the drive, the blob does not open, or cannot be read.
OpenStoreFails(t) ==
  /\ At(t, "store")
  /\ Fail(t)
  /\ UNCHANGED <<drive, opens, comp, stale, away, history>>

\* A debounced reseal of n is under way that may still write the blob.
Unfinished(n) ==
  \E r \in Timers : reseal[r].pc # "idle" /\ reseal[r].on = n /\ reseal[r].gen > sess[n].done

\* hardClose: the drive lock is dropped and the key zeroed, whether or not a
\* reseal is still under way.
Closed(n) ==
  /\ sess' = [sess EXCEPT ![n] = [@ EXCEPT !.pc = "closed", !.ram = 0, !.dek = Zeroed]]
  /\ flock' = IF flock = n THEN None ELSE flock
  /\ overtook' = (overtook \/ Unfinished(n))
  /\ excused' = (excused \/ Unfinished(n))

\* jsengine.New fails: Unlock closes the store, which is not dirty.
EngineFailsLeaks(n) == UNCHANGED <<sess, flock, overtook, excused>>
GiveBack(n) == Closed(n)

EngineFails(t) ==
  /\ At(t, "engine")
  /\ GiveBack(th[t].on)
  /\ Fail(t)
  /\ UNCHANGED <<key, blob, reseal, overwrote, opens, comp, stale, away, written>>

\* open's last assignments; a server listens.
Unlocked(t) ==
  /\ At(t, "engine")
  /\ IF t \in Servers
     THEN Goto(t, "serving") /\ UNCHANGED app
     ELSE /\ comp' = th[t].on /\ stale' = FALSE /\ away' = FALSE
          /\ Fail(t)
  /\ UNCHANGED <<drive, opens, history>>

-----------------------------------------------------------------------------
(* The two planes *)

Live(n) == sess[n].pc \in {"open", "sealed"}

\* A write is accepted.  Between Close's flush and its end it is accepted,
\* too, and lost.
Accept(n) ==
  /\ written < MaxWrites
  /\ written' = written + 1
  /\ sess' = [sess EXCEPT ![n] = [@ EXCEPT !.ram = sess[n].ram + 1, !.dirty = TRUE]]
  /\ excused' = (excused \/ sess[n].pc = "sealed")
  /\ UNCHANGED <<key, blob, flock, flush, overwrote>>

\* The handler changes its store, or finds nothing to do or the store closed.
Work(t) ==
  /\ At(t, "work")
  /\ \/ Live(th[t].on) /\ Accept(th[t].on)
     \/ UNCHANGED <<drive, history>>
  /\ Respond(t)
  /\ UNCHANGED <<opens, app>>

\* A server handles its requests, Shutdown's stragglers too.
ServerWork(t) ==
  /\ t \in Servers /\ th[t].pc \in {"serving", "seal", "release"}
  /\ Accept(th[t].on)
  /\ UNCHANGED <<opens, app, th>>

-----------------------------------------------------------------------------
(* The debounced reseal, in the critical sections of Store.mu and flushMu *)

\* Phase 1, under mu: the snapshot; reseal bails out once hardClose is next.
Snapshot(r, n) ==
  /\ reseal[r].pc = "idle"
  /\ Live(n) /\ sess[n].dirty
  /\ reseal' = [reseal EXCEPT ![r] = [NoReseal EXCEPT !.pc = "guard", !.on = n, !.gen = sess[n].ram]]
  /\ sess' = [sess EXCEPT ![n].dirty = FALSE]
  /\ UNCHANGED <<key, blob, flock, overwrote, overtook, opens, app, th, history>>

\* Nobody is between taking flushMu of n and its rename.
FlushMuFree(n) == \A r \in Timers : reseal[r].pc = "write" => reseal[r].on # n

\* Phase 2, flushMu: a snapshot no newer than the blob is dropped, ...
Superseded(r) ==
  LET n == reseal[r].on IN
  /\ reseal[r].pc = "guard" /\ FlushMuFree(n)
  /\ reseal[r].gen <= sess[n].done
  /\ reseal' = [reseal EXCEPT ![r] = NoReseal]
  /\ UNCHANGED <<key, blob, flock, sess, overwrote, overtook, opens, app, th, history>>

\* ... another is sealed under the key, or under what hardClose left of it ...
StartWrite(r) ==
  LET n == reseal[r].on IN
  /\ reseal[r].pc = "guard" /\ FlushMuFree(n)
  /\ reseal[r].gen > sess[n].done
  /\ reseal' = [reseal EXCEPT ![r] =
       [@ EXCEPT !.pc = "write", !.dek = sess[n].dek]]
  /\ UNCHANGED <<key, blob, flock, sess, overwrote, overtook, opens, app, th, history>>

\* ... and renamed over the blob, whoever has the drive by then.
AtomicWrite(r) ==
  LET n == reseal[r].on IN
  /\ reseal[r].pc = "write"
  /\ blob' = [dek |-> reseal[r].dek, gen |-> reseal[r].gen]
  /\ sess' = [sess EXCEPT ![n].done = reseal[r].gen]
  /\ reseal' = [reseal EXCEPT ![r] = NoReseal]
  /\ UNCHANGED <<key, flock, overwrote, overtook, opens, app, th, history>>

\* The drive is full or gone.  The store is dirty again; a Close that has
\* already looked will not try again.
WriteFails(r) ==
  LET n == reseal[r].on IN
  /\ reseal[r].pc = "write"
  /\ sess' = [sess EXCEPT ![n].dirty = TRUE]
  /\ reseal' = [reseal EXCEPT ![r] = NoReseal]
  /\ excused' = (excused \/ sess[n].pc # "open")
  /\ UNCHANGED <<key, blob, flock, overwrote, overtook, opens, app, th, written>>

-----------------------------------------------------------------------------
(* lock, the idle lock, and the ends of a process *)

\* Time passes.
IdleLimit ==
  /\ comp # None /\ ~away
  /\ stale' = TRUE /\ away' = TRUE
  /\ UNCHANGED <<drive, opens, comp, mu, th, history>>

\* maybeIdleLock, its test; the lock follows outside mu.
Tick ==
  /\ At(Main, "idle") /\ mu = NoThread
  /\ comp # None /\ stale
  /\ th' = [th EXCEPT ![Main] = [Idle EXCEPT !.pc = "detach"]]
  /\ UNCHANGED <<drive, opens, app, history>>

\* The signal: Shutdown waits five seconds for requests, then goes on.
Stop ==
  /\ At(Main, "idle")
  /\ th' = [th EXCEPT ![Main] = [Idle EXCEPT !.pc = "detach", !.op = "stop"]]
  /\ UNCHANGED <<drive, opens, app, history>>

StopServing(t) ==
  /\ At(t, "serving")
  /\ th' = [th EXCEPT ![t] = [@ EXCEPT !.pc = "seal", !.op = "stop"]]
  /\ UNCHANGED <<drive, opens, app, history>>

\* Where a thread goes after its lock: the process ends, or the thread does.
AfterLock(t) ==
  th' = [th EXCEPT ![t] = IF th[t].op = "stop" THEN [Idle EXCEPT !.pc = "exit"] ELSE Idle]

\* lockNow under mu: whatever session there is by now is taken.
Detach(t) ==
  /\ At(t, "detach") /\ mu = NoThread
  /\ IF comp = None THEN AfterLock(t)
     ELSE th' = [th EXCEPT ![t] = [@ EXCEPT !.pc = "seal", !.on = comp]]
  /\ comp' = None /\ stale' = FALSE /\ away' = FALSE
  /\ UNCHANGED <<drive, opens, mu, history>>

\* Component.Lock, outside mu: the reseal that Close runs itself.  What no
\* snapshot has taken is flushed, after whoever has flushMu ...
SealsNever(n) == FALSE
MustSeal(n) == sess[n].dirty /\ sess[n].ram > sess[n].done

Seal(t) ==
  LET n == th[t].on IN
  /\ At(t, "seal") /\ MustSeal(n) /\ FlushMuFree(n)
  /\ blob' = [dek |-> sess[n].dek, gen |-> sess[n].ram]
  /\ sess' = [sess EXCEPT ![n] =
       [@ EXCEPT !.pc = "sealed", !.dirty = FALSE, !.done = sess[n].ram]]
  /\ Goto(t, "release")
  /\ UNCHANGED <<key, flock, flush, overwrote, opens, app, history>>

\* ... or cannot be; lock and the idle lock drop that error.
SealFails(t) ==
  LET n == th[t].on IN
  /\ At(t, "seal") /\ MustSeal(n) /\ FlushMuFree(n)
  /\ sess' = [sess EXCEPT ![n].pc = "sealed"]
  /\ excused' = TRUE
  /\ Goto(t, "release")
  /\ UNCHANGED <<key, blob, flock, flush, overwrote, opens, app, written>>

\* It is not dirty, and Close goes on at once, without looking at flushMu; or
\* what it holds is on the drive already.
NothingToSeal(t) ==
  /\ At(t, "seal") /\ ~MustSeal(th[t].on)
  /\ sess' = [sess EXCEPT ![th[t].on] = [@ EXCEPT !.pc = "sealed", !.dirty = FALSE]]
  /\ Goto(t, "release")
  /\ UNCHANGED <<key, blob, flock, flush, overwrote, opens, app, history>>

Release(t) ==
  /\ At(t, "release")
  /\ Closed(th[t].on)
  /\ AfterLock(t)
  /\ UNCHANGED <<key, blob, reseal, overwrote, opens, app, written>>

\* Process p is gone, with its threads, timers and stores; the kernel drops
\* its flock.
Dies(p) ==
  LET mine == {n \in Sessions : sess[n].by = p} IN
  /\ th' = [t \in Threads |-> IF Process(t) = p THEN Idle ELSE th[t]]
  /\ sess' = [n \in Sessions |-> IF n \in mine THEN Gone ELSE sess[n]]
  /\ reseal' = [r \in Timers |->
       IF reseal[r].on \in mine THEN NoReseal ELSE reseal[r]]
  /\ flock' = IF flock \in mine THEN None ELSE flock
  /\ excused' = (excused \/ \E n \in mine : (Live(n) /\ sess[n].dirty) \/ Unfinished(n))
  /\ IF p = Main
     THEN comp' = None /\ mu' = NoThread /\ stale' = FALSE /\ away' = FALSE
     ELSE UNCHANGED app
  /\ UNCHANGED <<key, blob, overwrote, overtook, opens, written>>

\* Run returns, or the process is killed; it can be started again.
Exit(t) == At(t, "exit") /\ Dies(Process(t))

Kill(p) ==
  /\ \/ \E t \in Threads : Process(t) = p /\ th[t] # Idle
     \/ \E n \in Sessions : sess[n].by = p /\ Live(n)
  /\ Dies(p)

-----------------------------------------------------------------------------
(* foundry serve *)

Serve(s, pw) ==
  /\ At(s, "idle")
  /\ opens < MaxOpens
  /\ opens' = opens + 1
  /\ th' = [th EXCEPT ![s] = [Idle EXCEPT !.pc = "load", !.on = opens', !.pw = pw]]
  /\ UNCHANGED <<drive, app, history>>

\* loadOrCreateDEK: a file that was read is used or refused ...
LoadKey(s) ==
  /\ At(s, "load") /\ key # NoKey
  /\ IF Unwraps(th[s].pw)
     THEN th' = [th EXCEPT ![s] = [@ EXCEPT !.pc = "store", !.dek = key.dek]]
     ELSE Respond(s)
  /\ UNCHANGED <<drive, opens, app, history>>

\* ... and any error of ReadFile makes a new one, as any error of Stat lets
\* setup go on.
LookFails(t) ==
  /\ th[t].pc \in {"stat", "load"}
  /\ th' = [th EXCEPT ![t] =
       [@ EXCEPT !.pc = IF th[t].pc = "stat" THEN "open" ELSE "create", !.absent = TRUE]]
  /\ UNCHANGED <<drive, opens, app, history>>

-----------------------------------------------------------------------------
OpenStep(t) ==
  \/ StatKey(t) \/ TakeMu(t) \/ Truncate(t) \/ WriteKey(t) \/ CreateFails(t) \/ ReadKey(t)
  \/ ReadFails(t) \/ LoadKey(t) \/ LookFails(t)
  \/ OpenStore(t) \/ OpenStoreFails(t) \/ EngineFails(t) \/ Unlocked(t)

LockStep(t) ==
  \/ Detach(t) \/ Seal(t) \/ SealFails(t) \/ NothingToSeal(t) \/ Release(t) \/ Exit(t)

ResealStep(r) ==
  \/ \E n \in Sessions : Snapshot(r, n)
  \/ Superseded(r) \/ StartWrite(r) \/ AtomicWrite(r) \/ WriteFails(r)

Arrival(t) ==
  \/ Visit(t)
  \/ \E pw \in Passwords : Setup(t, pw) \/ Unlock(t, pw)
  \/ \E c \in Issued : Lock(t, c) \/ Use(t, c) \/ Control(t, c)

Next ==
  \/ \E t \in Reqs : Arrival(t)
  \/ \E s \in Servers, pw \in Passwords : Serve(s, pw)
  \/ \E s \in Servers : ServerWork(s) \/ StopServing(s)
  \/ \E t \in Threads : OpenStep(t) \/ Work(t) \/ LockStep(t)
  \/ \E r \in Timers : ResealStep(r)
  \/ IdleLimit \/ Tick \/ Stop
  \/ \E p \in {Main} \cup Servers : Kill(p)

Spec == Init /\ [][Next]_vars

\* The ticker ticks and the main goroutine goes on.
Fairness == WF_vars(Tick) /\ WF_vars(LockStep(Main))

FairSpec == Spec /\ Fairness

-----------------------------------------------------------------------------
(* Properties *)

KeyFile ==
  {NoKey, Torn} \cup {Envelope(pw, d) : pw \in Passwords, d \in Sessions}

StoreState ==
  [pc : {"none", "open", "sealed", "closed"}, by : Servers \cup {Main, NoThread},
   dek : Sessions \cup {None, Zeroed}, ram : 0..MaxWrites, dirty : BOOLEAN,
   done : 0..MaxWrites]

ResealState ==
  [pc : {"idle", "guard", "write"}, on : Sessions \cup {None}, gen : 0..MaxWrites,
   dek : Sessions \cup {None, Zeroed}]

ThreadState ==
  [pc : Opening \cup Holding \cup {"idle", "work", "detach", "exit"},
   op : {"none", "setup", "stop"},
   cred : Sessions \cup {None}, on : Sessions \cup {None}, pw : Passwords \cup {NoThread},
   dek : Sessions \cup {None}, absent : BOOLEAN]

\* Every variable has its type, a thread that works on a store has one,
\* whoever opens has a password, and no store is open under a key that no envelope gave.
TypeOK ==
  /\ key \in KeyFile
  /\ blob \in [dek : Sessions \cup {None, Zeroed}, gen : 0..MaxWrites]
  /\ flock \in Sessions \cup {None} /\ comp \in Sessions \cup {None}
  /\ sess \in [Sessions -> StoreState] /\ reseal \in [Timers -> ResealState]
  /\ opens \in 0..MaxOpens /\ written \in 0..MaxWrites
  /\ mu \in Threads \cup {NoThread}
  /\ th \in [Threads -> ThreadState]
  /\ \A b \in {stale, away, overwrote, overtook, excused} : b \in BOOLEAN
  /\ \A t \in Threads : th[t].pc \in Opening \cup Holding \cup {"work"} => th[t].on \in Sessions
  /\ \A t \in Threads : th[t].pc \in Opening => th[t].pw \in Passwords
  /\ \A n \in Sessions : Live(n) => sess[n].dek \in Sessions
  /\ \A r \in Timers : reseal[r].pc # "idle" => reseal[r].on \in Sessions

\* The password that was chosen opens the data: the blob is under the key in
\* the key file, whatever store or late reseal wrote it.  Two exceptions: a key
\* file was created over one that appeared after its creator had looked; a
\* Close went past a reseal, which then sealed under the zeroed key.
KeyOpensBlob ==
  ~overwrote => blob.dek \in {None, key.dek} \/ (blob.dek = Zeroed /\ overtook)

\* The same whoever creates key files: "this password seals every tool and its
\* data".  (That no store seals under a zeroed key is BlobAlwaysOpens of Store.)
KeyAlwaysOpensBlob == blob.dek \notin {None, Zeroed} => key.dek = blob.dek

\* The drive lock is never orphaned: it belongs to the unlocked app, or to
\* someone who is opening, serving or closing that store and will drop it.
DriveHasOwner ==
  flock # None =>
    \/ comp = flock
    \/ \E t \in Threads : th[t].on = flock /\ th[t].pc \in Holding

\* Locking, idle locking, exiting and opening again lose nothing: while no
\* store is open, every write ever accepted is on the drive.  It is not if a
\* process ended that had not sealed it, the drive failed, the request outlived
\* its session, or a Close went past the reseal that carried it.
AcceptedIsSealed == flock = None /\ ~excused => blob.gen = written

\* A credential is worth nothing beyond its session: a request changes only
\* the store of the session that issued it, however many locks and unlocks
\* have come between its arrival and its work.
WritesAreAuthorised ==
  [][\A n \in Sessions : Live(n) /\ sess[n].by = Main /\ sess[n].ram' > sess[n].ram =>
       \E t \in Reqs : At(t, "work") /\ ~At(t, "work")' /\ th[t].cred = n]_vars

\* "Idle auto-lock that ignores agent traffic": when the human is away for
\* the idle limit, the app is locked unless the human comes back, however
\* busy the agents are.
IdleIsLocked == (comp # None /\ away) ~> (comp = None \/ ~away)
=============================================================================

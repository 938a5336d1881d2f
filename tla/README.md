# A TLA+ development of mykeep-foundry

mykeep-foundry is a local host for small JavaScript tools that an AI agent calls.
It runs each tool in a sandbox (quickjs in wazero), gives it storage in one
encrypted file on a removable drive, lets a human approve its capabilities, and
installs tools from a signed marketplace that a Cloudflare Worker reviews and
publishes.  This directory models the parts of it that keep state, checks them
with TLC on small instances, and proves with TLAPS what holds for every instance.

`PROJECT.json` is the index: components, runs, mutants (one plausible bug for
each property, which the property must catch), the lines of the source that each
definition stands for, hazards, findings and theorems.

To repeat it: `tlc -config MCStore.cfg MCStore`, and likewise for each run of the
table below; `tlapm StoreProofs.tla`, and likewise `StoreDurability`, `StoreRefinement`,
`RegistryProofs`, `AppProofs`, `MarketProofs`, `EngineProofs` and `StorageProofs`.


## 1. The system

| part | source | state | operations | status |
|---|---|---|---|---|
| store: persistence | `internal/store/store.go`, `util.go`, `lock_*.go` | SQLite database in RAM; `dirty`, `closed`, `writeGen`, `timer`, `lastFlushErr`, `failedGen` under `mu`; `persistedGen` under `flushMu`; `dek`; the flock; the blob | Open, any write, debounce timer, Flush, reseal, Close, hardClose | modelled: `Store` |
| store: data | `store.go` 104-329, `internal/host` | tables kv, cache, blob, queue, quota | KVSet/Get/Del, CacheSet/Get, BlobPut/Get, QueuePush/Pop, SetQuota | modelled: `Storage` |
| registry, tools and grants | `internal/registry`, `store/tools.go` | tables tools, grants | InstallDev, InstallMarketplace, Remove, SetGrant, Grant, List | modelled: `Registry` |
| runtime | `internal/runtime` | none between runs | Run | modelled: `Registry` |
| server | `internal/server` | tokens | the USE and the CONTROL plane | partly: handlers that change state in `Registry` and `MarketClient`, sessions in `App` |
| jsengine | `internal/jsengine` | per invocation: frame buffer, response pipe, deadline, idle count | InvokeWithLimits | partly: `Engine` |
| host | `internal/host` | none | Dispatcher.Call, broker fetch | partly: storage operations, in `Storage` |
| market client | `internal/registry/client.go`, `index.go` | `Client.idx` | EnsureIndex, Install | modelled: `MarketClient` |
| marketplace Worker | `cloudflare/src` | D1 tables rate, flagged; R2 objects | submit, publish, serve | partly: `Marketplace` |
| secret | `internal/secret` | none | Seal, Open, NewEnvelope, Unwrap | partly: which key opens what, in `App` and `Store` |
| component | `component` | `store`, `engine`, `srv` | Unlock, Mount, Lock | modelled: `App` |
| gui | `internal/gui` | `comp`, `planes`, `session`, `lastSeen`; the key file | setup, unlock, lock, idle lock, proxy | modelled: `App` |
| cmd/foundry | `cmd/foundry` | the key file | serve, loadOrCreateDEK, start-up | partly: `App` |

How they interact.  `gui` (or `cmd/foundry serve`) derives the data key and calls
`component.Unlock`, which opens the one `Store`, builds the engine, the registry,
the runtime and the server, and mounts the planes.  net/http runs each request on
a goroutine of its own.  A run goes server -> runtime -> registry (three store
calls: tool, tool again, grant) -> store (quota) -> jsengine, whose event loop calls
back into `host.Dispatcher` for each host call of the tool, and that into the store.
Every store method takes `Store.mu` for its own duration only, so whatever makes
two calls can be interleaved between them.  Each write arms a timer that re-seals
the database on another goroutine.  Install requests of the control plane share
one `Client`, which fetches from the bucket that the Worker writes concurrently.

What is hard:

* the flush machinery: three kinds of callers of `reseal`, two mutexes, snapshots
  written out of order, failing drives, a Close that overlaps all of it, kills;
* the life of the app: requests that overlap setup, unlock and lock, a mutex that covers
  some of it, two files that must fit each other, a drive lock that outlives the mutex, a
  second process, an idle clock that agents must not wind;
* check-then-act sequences over several store calls (class check and load,
  approval and grant, grant check and run);
* the frame protocol between a tool that may do anything, an event loop that is
  only entered now and then, and a deadline that may pass at any moment;
* the Worker: read-modify-write of an index without a condition, four objects that
  must agree put one by one, requests that overlap or die half-way;
* a client that caches an index for the life of the process while the artifacts
  it names are replaced.

What makes each part correct is stated in section 3 next to the run that checks
it; `hazards` in `PROJECT.json` lists all of it at the lines where it bites.


## 2. Modules

| module | models |
|---|---|
| `Store` | one drive, the `*Store` values opened on it (by this or another process, before and after a lock), the goroutines in `Flush`, `Close` and the timer |
| `DurableLog` | abstract: what the store promises once the machinery is left out |
| `StoreProofs`, `StoreDurability`, `StoreRefinement` | theorems about `Store` |
| `Registry` | install, grant, run: the tables and the requests in flight |
| `RegistryProofs` | theorems about `Registry` |
| `App` | the GUI process with its requests and idle loop, the component, `foundry serve` as a second process, key file and blob |
| `AppProofs` | theorems about `App` |
| `Storage` | the data tables with quota and clock |
| `StorageProofs` | theorems about `Storage` |
| `Mailboxes` | abstract: one FIFO per namespace and queue name |
| `Engine` | one invocation: driver, tool, frame buffer, response pipe, deadline |
| `EngineProofs` | theorems about `Engine` |
| `Marketplace` | the Worker with D1 and R2 |
| `MarketClient` | `Marketplace` composed with the client that installs from it |
| `MarketProofs` | theorems about both |
| `MC*` | constants for TLC; `Engine` needs none and is run as it is |

### Store

`st[s]` holds the fields of the struct, `th[t]` where a goroutine is and its locals
(`raw`, `gen`, the error it will return).  Each critical section is one action:

| action | code |
|---|---|
| `Open`, `OpenFails` | `Open` (store.go 58-100): flock, then the blob |
| `Write` | any mutating method, up to `markDirtyLocked` |
| `Flush`, `TimerFires`, `Close` | the entry of the call (`Close` up to its first unlock) |
| `NothingToDo`, `Snapshot`, `SerializeFails` | reseal, phase 1, under `mu` |
| `Superseded`, `StartWrite` | reseal, phase 2: `flushMu` taken, the generation guard |
| `Seal`, `AtomicWrite`, `WriteFails` | sealing, rename, `persistedGen`, `flushMu` released |
| `SettleOk`, `SettleErr` | reseal, phase 3, under `mu` |
| `MarkClosed`, `HardClose` | the rest of `Close` |
| `Crash` | the processes are killed: the kernel drops the flock |

The database is abstracted to the set of writes it has absorbed: `<<s, k>>` is the
k-th write of Store value `s`, and `Content(s, g)` the state after `g` of them.  That
is exactly what tells a lost, a mixed and a stale image apart.  Sealing and
`hardClose` are separate actions because nothing in the code orders them: `Seal`
reads whatever `dek` holds.  `overtook[s]` is a history variable: a Close of `s` went
on although another goroutine was between its snapshot and its settling (or the
store was dirty and marked closed already).  Several properties hold only while it
is FALSE, and say so; run `blob_always_opens` shows what happens otherwise.

### Registry

`tools`, `grants` and `quota` are the tables, `req[t]` a request with the locals of its
handler.  `Load`, `GrantTool` and `GrantCheck` are the three reads of a run, `GrantRead`
and `GrantWrite` the two calls of `SetGrant`.  A manifest is its own hash and a signature
is membership in `Signed`, so "the same manifest", "another manifest" and "not signed" are
what is distinguished.  `RemoveFails` is DeleteTool with its second DELETE failing: the tool
is gone, its grant stays.

`approved` is history: the approvals that stand, each with the manifest that was installed when
the human sent it (not the one `SetGrant` reads again).  A removal withdraws those of its name.
`stray` holds the names whose row of `grants` no standing approval covers, which happens in three
ways: `SetGrant` found another manifest than the human had seen (run `grant_approval`), the
row was stored after the tool had been removed, or a removal failed half-way.
`RunsAreApproved` allows a run a standing approval or a stray row and nothing else; what
would be left if it excused nothing is `UndisturbedCorrect` in section 4.

### App

`comp` is `App.comp` and with it `planes` and `session`, which are always assigned together;
`stale` is whether `lastSeen` is older than the idle limit; `mu` is the request inside
`open`, the one holder of `App.mu` that does anything long.  All other critical sections of
`App.mu` are single actions, which wait for `mu` to be free.  A session is an attempt to
open: its number stands for the component, its store, its tokens and cookie, and the data
key it would mint.  `sess[n]` is that store, `th[t]` a goroutine (a request, the loop of
`App.Run`, a `serve` process) with its locals, `reseal[r]` a goroutine that runs a debounced
reseal, with its snapshot and the key it has read.

| action | code |
|---|---|
| `Visit`, `Setup`, `Unlock`, `Lock`, `Use`, `Control` | a request arrives: routing and `touch` |
| `StatKey`, `TakeMu` | `setup`'s Stat, before the mutex; `open` takes it |
| `Truncate`, `WriteKey`, `CreateFails`, `ReadKey`, `ReadFails` | `deriveDEK`, and `loadOrCreateDEK`; WriteFile truncates, then writes |
| `OpenStore`, `OpenStoreFails`, `EngineFails`, `Unlocked` | `Component.Unlock` and the end of `open`; a server starts to listen |
| `Proxy`, `Work` | `proxy` picks up the planes, whose guard compares the credential; their handler, later |
| `Detach`, `Seal`, `SealFails`, `NothingToSeal`, `Release` | `lockNow`, then `Component.Lock` outside the mutex: the reseal of Close, its hardClose |
| `Snapshot`, `Superseded`, `StartWrite`, `AtomicWrite`, `WriteFails` | the debounced reseal, one action per critical section of `Store.mu` and `flushMu` |
| `IdleLimit`, `Tick`, `Stop` | time passes; `maybeIdleLock`'s test; the signal |
| `Serve`, `LoadKey`, `LookFails`, `ServerWork`, `StopServing` | `runServe`; any error of ReadFile, and of setup's Stat, counts as "no key file" |
| `Exit`, `Kill` | a process ends, and may be started again |

A request's `touch` and the critical section that follows it (`hasSession`, `proxy`) are one
step: what can happen between the two also happens between a `Visit` and the step.

A Close waits for `flushMu` only if it has something to seal.  While a debounced reseal holds the
only copy of the newest state, the store is not dirty, Close goes on (`NothingToSeal`), and
`Release` drops the drive lock and zeroes the key: the reseal then seals under the zeroed key, or
renames the image of a session that is over, perhaps onto the blob of the next.  This
is the overtaken Close of run `blob_always_opens`; `App` has it with everything that can follow
it, and `overtook` records it.  The Close's own reseal is one step (`Seal`), because nobody writes
between its snapshot and its rename what the snapshot should have had: a write that comes then is
one that Close loses whichever way.

The database is the number of writes it has absorbed, the key file absent, torn or an
envelope of one data key under one password.  Four history variables carry what the
properties excuse or measure: `overwrote` (a key file was created over one that its creator
had not seen), `overtook` (a Close went past a reseal that could still write), `excused` (an
accepted write was given up: by a kill, a failing drive, a request that outlived its session, or
an overtaken reseal), `away` (the human did nothing for the idle limit).

### Storage

One database record `tables` and its persisted copy `disk`; `Persist` and `Restart` stand
for what `Store` establishes (the image on the drive is a state that existed).  `Set`
is KVSet, CacheSet and BlobPut, which differ in the table and the TTL only.  `Used` is
`nsUsedLocked`, `Fits` is `checkQuota`.  An AUTOINCREMENT id goes back with a restart,
as SQLite's does with the image.

### Engine

The tool and the driver alternate: the tool's code runs inside `Eval` and `LoopOnce`, its
read handler inside `PollIO`.  The tool's choices are free: it may write calls, log lines
and one terminal frame in any order, set timers, leave promises unawaited, or loop for ever.
`ToolTimer` is `os.setTimeout` (the engine runs with `--std`); `TimerFires` runs its callback in
whatever spin it is due, which the model leaves open, so a spin that finds only a timer that is
not due counts as idle, as it does in the code.  `wall` is whether the grant names a limit: only
then is there a `Deadline`.  `Cancelled` is the client of the run request going away, whose
context the invocation has.  A tool writes frames through `console`, `foundry.*` and `__run` only;
one that forges them on std.out itself is outside the model.
Calls and log lines carry their number, so that a lost, repeated or swapped one shows.
`HandleEnd` looks at the head of the batch only, as the loop over frames does; `pipe` is
drained one 64 KiB chunk per `PollIO`.  quickjs and wazero appear only as what
`invoke.go` relies on: entered or running after the deadline, they return an error.

### Marketplace and MarketClient

One action per await on D1, R2 or the model.  `work[w]` is a request's place and locals,
`Dies` the platform or an exception ending it.  A signature is the document it signs.
`Merge` is `loadIndex`, `upsertVersion` and signing; `PutIndex`, `PutSig` and `PutCatalog`
are the three puts that follow.  On the other side one action per GET and per use of
`Client.idx`.  `Key` is the bucket key that a host answers a path with, since the bucket's
domain and the Worker's mirror differ in it.  The model picks a host for every GET, which is
more than one `baseURL` can do: the bucket's domain has the index under `v1/` and the mirror the
artifacts, so with one of them alone no install would be reached.  What is shown of installs
therefore holds whichever front, or mixture of them, a deployment puts before the bucket.  A tool is
installed under the name in its manifest, which two authors may share.


## 3. Runs

Passing runs (every property has a mutant that it catches):

| run | instance | shows |
|---|---|---|
| `store_safety` | two Store values (2 and 1 writes), one caller, one timer goroutine, failing drive and failing Serialize | **ImagesAreStates**: RAM, snapshots in flight and the blob are states that existed, never mixtures. **NothingForgotten**: an accepted write is persisted, flagged dirty, or carried. **StaleNeverOverwrites**: the generation guard. **SingleWriter**: only the holder of the flock replaces the blob. **BlobOpens**: it opens under its key. **CleanCloseIsDurable**: Close returning nil means durable. The last three except after an overtaken reseal. **ImplementsLog**: the machinery implements `DurableLog`. |
| `store_flush` | one Store value, 3 writes, fairness | **UnpersistedIsReported**: data not on the drive is on its way, or `FlushErr` says so. **EventuallyDurableOrReported**, **CloseReleases**: it gets there or is reported; Close is never stuck. |
| `registry` | one name in three artifacts (signed twice, edited once), two requests, two approvals | **RunsAreApproved**: Run's check passes only capabilities that a human approved with that manifest in front of them and that nobody has removed since, or a stray row. **MarketplaceIsSigned**. **RunsAreLimited**: a run whose grant has a quota finds an approved limit. |
| `app` | two requests and the main loop of the GUI process, one `serve` process, one password, two attempts to open, two writes, one debounced reseal at a time; file operations fail, processes are killed; 504,510 states | **KeyOpensBlob**: once there is a blob, the key file holds its key, unless a key file was created over one that its creator had not seen, or a Close overtook a reseal, which sealed under the zeroed key. **DriveHasOwner**: the drive lock always has someone who will drop it. **AcceptedIsSealed**: locking, idle locking, exiting and opening again lose nothing except what is excused above. **WritesAreAuthorised**: a request changes only the store of the session whose credential it carries, however many locks and unlocks it slept through. **IdleIsLocked**: an app whose human is away gets locked, however busy the agents are. |
| `storage` | one namespace, kv and cache, two queues, two messages, limit 3, two ticks, two ids | **QuotaCeiling**: no operation grows a namespace past its limit. **NeverServedExpired**. **ImplementsMailboxes**: the one queue table is a FIFO per mailbox, also across restarts. |
| `engine` | 2 calls, 2 log lines, responses of up to 2 chunks, timers of the tool, with a wall-clock limit and without, `maxIdleSpins` 3 | **CallsOnceInOrder**: host calls take effect once, in the tool's order. **ResponsesAnswerCalls**: a promise is settled once, by its own answer. **NothingBeforeResultIsLost**: all calls and log lines written before the result were handled, in order. **AtMostOneLateCall**: one host call at most begins after the deadline. **StalledIsStuck**: only a tool that waits for nothing the host will deliver is given up; a timer of its own it may wait for. **InvocationEnds**: with a limit, or once the client has gone. |
| `market` | two submissions of one tool (two versions, three contents), limit 2, one client request, requests may die | **BadgeIsEarned**, **UnverifiedIsQueued**: what is listed was passed or flagged as that content, and a human is asked about the flagged. **BudgetIsCounted**: overlapping submissions lose no count (the refusal itself, which overlapping submissions may pass, is not reached with two of them and limit 2). **PublishRepairs**: an undisturbed publish makes index, signature and catalog agree whatever came before. **PublishedStays**: a listed version is lost only to an overlapping publish. **InstalledIsReviewed**: what a client installs was reviewed as a whole. **NoRollback**: its index never goes back although publishes may put an older one last, except between overlapping refreshes. |

Runs that show a disagreement between the code and what it says of itself
(`findings` quotes the lines):

| run | what the trace shows |
|---|---|
| `blob_always_opens` | the timer's reseal has taken its snapshot and cleared `dirty`; Close finds nothing to do, and its hardClose zeroes the key that the other reseal is about to seal with |
| `use_plane` | a dev install between useRun's class check and Run's Get makes the agent plane run dev code |
| `grant_approval` | an install between the human's approval and SetGrant's Get binds the grant to a manifest nobody looked at |
| `badge_drift` | two overlapping publishes end with the index of one and the catalog of the other |
| `key_file` | setup finds no key file; before it gets the mutex, `serve` creates key and store; setup overwrites the key, and the store never opens again |

Deadlock is checked in `registry`, `storage`, `market` and `app`; a store that was
closed and an invocation that returned really stop, so the runs of `Store` and `Engine`
switch it off.

### Bounds, and why they are enough to be interesting

* `Store`: two goroutines are what the guard, the settling of errors and the overtaken
  reseal need; two Store values give lock, unlock, another process, and a late reseal of
  the first landing on the second.  Three writes let a reseal be overtaken by a newer
  one that fails.  The theorems cover any number of all of these.
* `SerializeFaults` is FALSE in `store_flush`: a failing `Serialize` (a driver failure,
  not a drive failure) sets `lastFlushErr` but not `failedGen`, so an older reseal that
  then succeeds clears it, and `UnpersistedIsReported` fails.  `store_safety` has it TRUE.
* `Registry`: two requests and three artifacts of one name allow every order of a run
  against an approval, an update and a removal.  Names do not interact except
  through the quota of a shared namespace, which the theorems cover.
* `App`: two requests give every overlap of setup, unlock, lock and use; two attempts to open
  give two sessions, in one process or in two, hence stale credentials, a request that
  sleeps through lock and unlock, a key overwritten by the second attempt, and a reseal of the
  first session that ends in the second.  Two writes let a write come while the first is being
  resealed; run `key_file` needs one only.  One password suffices (a wrong one is `ReadFails`).
  With two debounced reseals at a time the same properties hold (1.3 million states, too long to
  be a run).  The theorems cover any number of all of these.
* `Storage`: sizes and limit are chosen so that one value and one message fit, and two
  values do not; ids are bounded at 2, where a pop and a restart already reuse one.
* `Engine`: two calls and two log lines allow a response that is late, one that is read in two
  chunks, and calls that nobody awaits.  `maxIdleSpins` is 256 in the code and 3 here;
  `StalledIsStuck` needs what is in the pipe to drain in fewer spins (16 MiB in the
  code): `ResponsesFit`, which holds of the run's constants (2 calls with 2 chunks
  each, of which the first is read at once, against 3 spins) and would not with 2 spins.
* `Marketplace`: two publishes suffice for each anomaly.  With two client requests the
  exception in `NoRollback` is exercised too and nothing else changes; the run keeps one, so
  it checks the freshness test and not the overlap.

### Fairness

* `Store`: weak fairness of each goroutine's steps (a goroutine that can run does), strong
  fairness of passing the guard (`sync.Mutex` in starvation mode hands over, so a waiter
  is not passed over for ever), weak fairness of an armed timer.  None for writes,
  calls, `Open` or `Crash`.  The bound on writes is the pause that the debounce waits
  for: the code postpones the flush for as long as writes keep coming.
* `Engine`: a deadline comes if the grant has a limit (`context.WithTimeout`); a grant is stored as
  the client sent it, and without `wall` there is none (invoke.go 85).  The driver goes on where
  only the driver decides, and once the context is done, by the deadline or because the client
  has gone, the sandbox and the host call return (`WithCloseOnContextDone`, the call's
  context).  No fairness for the tool, for its timers or for the client's leaving.
* `App`: weak fairness of the idle tick and of the lock steps of the main goroutine.  Both are
  enabled only while `mu` is free; that it stays free for them needs no fairness of the
  requests, because whoever holds it inside `open` keeps it only while no session is
  unlocked.  None for requests, time, kills or the agents.
* The other modules state safety only.


## 4. Theorems

Proved for every value of the constants, from the named assumptions on constants alone
(`StoreAssumption`, `RegistryAssumption`, `AppAssumption`, `EngineAssumption`,
`StorageAssumption`, `RowAssumption`, `MarketplaceAssumption`, `NothingAssumption`,
`WantAssumption`): bounds are natural numbers, the sets of threads,
requests and names do not contain their null values, no row and no answer is the null
value.  TLC evaluates them on every run of those modules.  Two theorems have a further
hypothesis on constants (`SerializeFaults` is FALSE; `ResponsesFit`), which the run that
checks the property satisfies; two have one on the behaviour (`PipeFits`, `Undisturbed`).
Each is explained below.

A convention of the modules that the proofs rely on: several fields of `f[x]` change as
`[f EXCEPT ![x] = [@ EXCEPT !.a = ..., !.b = ...]]`, with no further `@` inside, because
tlapm 1.4.5 misreads `![x].a = ..., ![x].b = ...` and an `@` at the inner level.

**Type correctness of the store** (`TypeCorrect`), one step per action.

**The store's safety** (`Inductive`, then `ImagesCorrect`, `NothingForgottenCorrect`,
`BlobOpensCorrect`, `GuardCorrect`, `SingleWriterCorrect`).  None of these properties is
inductive.  `StaleNeverOverwrites` needs that what the guard found true is still true at
the rename, hence that only the holder of `flushMu` is between the two (`Guarded`);
and that `persistedGen` covers the blob (`BlobGen`), which is so only while no other
Store value wrote in between with goroutines of the first still around, hence the life
cycle (`Locked`, `Fresh`, `Closing`, `Dead`).  `BlobOpens` and `SingleWriter` need that a
reseal that outlives its Store was recorded as overtaken (`Overtaken`, `Keyed`).
`NothingForgotten` needs that a reseal that succeeded is covered by `persistedGen`
(`Settled`).  `IInv` is the conjunction, and is preserved by each action in a lemma
of its own.

**What Close and FlushErr tell** (`DurabilityInductive`, then `CleanCloseCorrect`, `ReportedCorrect`).
While no Close overtook a reseal the blob only grows (`OnDrive`: it contains what every
Store's `persistedGen` names), a snapshot is not older than the call that takes it
(`Asked`), and what is not persisted is dirty or carried also in a Store that is gone
(`Kept`); so a nil of the Close's reseal means that `persistedGen` has reached what was written
before the call (`Served`).  `UnpersistedIsReported` needs to know for which state an error
stands: it counts only while `failedGen` covers the newest write (`Told`), which is why a
late success with an older state cannot clear it.  That theorem is about a `Serialize` that
does not fail, as its statement says.

**Refinement** (`Refinement`: `Spec => ImplementsLog`).  Under the mapping `live <- lock is
held`, `volatile <- its RAM`, `durable <- blob.data`: Open is Begin, Write is Put, the
rename is Persist, HardClose and Crash are End, every other step is invisible.  The step
that needs the invariant is the rename: the image was one of the versions of the
session (`ImagesAreStates`, `Gens`) and contains the one on the drive (`Untorn`, `Guarded`).

**The registry** (`RegistryInductive`, then `RegistryTypeCorrect`, `RunsAreApprovedCorrect`,
`MarketplaceIsSignedCorrect`, `RunsAreLimitedCorrect`).  `RInv` adds that each row of the grants
table is a standing approval, for the manifest that was shown, or stray; removal is where this
could break, since it withdraws approvals.  The limit of a namespace is always that of some grant
for it, also when several tools share it.

**Two reads of one row** (`UndisturbedCorrect`).  The runs `use_plane` and `grant_approval` show what
an install can do between two reads of a request.  This theorem says that nothing else does:
if no step puts another row in the place of one that a request is about to read again
and no removal leaves its grant behind (`Undisturbed`), then the USE plane runs marketplace code
only, a grant is bound to the manifest the human was shown, and, what no run states, a tool
passes the check only with capabilities that were approved, and not removed, for the very
manifest it was loaded with (`RunsUnderOwnGrant`).  `ReadsAgree` follows what a request has
read from one call to the next, `NothingStray` says that no row is stray; other requests,
grants and limits do not matter, nor does a removal elsewhere.

**The app** (`AppInductive`, then `AppTypeCorrect`, `KeyOpensBlobCorrect`, `DriveHasOwnerCorrect`,
`AcceptedIsSealedCorrect`, `WritesAreAuthorisedCorrect`).  `DriveHasOwner` rests on who may be
where (`Roles`, `OwnSession`: no two threads open or close one session), on the mutex
(`MuHeld`: inside `open` means holding `mu`, and nothing is unlocked meanwhile) and on a live
store holding the flock (`LockedLive`, `StoreOfThread`).  `KeyOpensBlob` is not inductive either:
`KeyBound` says of the key file, the blob, each live store, each reseal that is writing and each
data key in a thread's hands that they agree wherever one could still reach the drive, unless
`overwrote`; a reseal that writes under the zeroed key was overtaken.  `AcceptedIsSealed` follows
from `WritesKept`: what was accepted is on the drive, or in the live store and there marked dirty,
or carried by a reseal of that store.  Both need that a reseal still under way when its
store is closed either finds the blob newer than its snapshot or was counted as overtaken
(`ResealOfStore`), which is where the generation guard comes in.  `WritesAreAuthorised` follows from `WorkIsAuthorised` (the planes a request picked up
were those its credential opened).

**The marketplace** (`ClientInductive`, `PublishInductive`, `BudgetInductive`, then
`MarketTypes`, `BadgeIsEarnedCorrect`, `UnverifiedIsQueuedCorrect`, `InstalledIsReviewedCorrect`,
`PublishRepairsCorrect`, `PublishedStaysCorrect`, `BudgetIsCountedCorrect`, `NoRollbackCorrect`).
`BadgeIsEarned` needs the same of everything an index entry can come from: each cached
verdict and each decision a request holds is that of a review of its own body, and each
index that was read and not yet put is sound too (`ReviewInv`).  `ClientInv` carries this
on to the index that a client has fetched or cached and to the artifact it compares with
it.  `PublishRepairs` follows a publish put by put: what is already there is what this one
wrote, as long as nobody overlapped it (`Repairing`); `PublishedStays` needs that the index
in its hands contains the one it will replace, unless that one changed meanwhile
(`Growing`).  `BudgetIsCounted` is not inductive, because a review comes after the count:
`BudgetInv` adds to an author's reviews those that were counted and are still to come
(`Spending`), which keeps the sum below the counter.

**The engine** (`EngineInductive`, then `EngineTypeCorrect`, `CallsOnceInOrderCorrect`,
`ResponsesAnswerCallsCorrect`, `NothingLostCorrect`, `AtMostOneLateCallCorrect`).  `AnswerInv`
follows a frame from the tool's buffer through the batch to its effect: what was handled and
what is left, in this order, is everything the tool wrote, and before the terminal frame
stand exactly the frames that were written before it (`FrameInv`).  Answers are in the pipe in
increasing order and only for calls that were executed and not yet settled.  `LateInv` adds
that whoever began a call late is on the way out and begins no other.

**Stalls** (`StalledIsStuckCorrect`, `ResponsesFitCorrect`).  A tool is given up after
`maxIdleSpins` spins without progress, and the claim is that no later spin could have
helped.  `SpinInv` says why: while anything is on its way to the tool, the spins made and the
reads left stay together below `maxIdleSpins`, because every spin reads a chunk if there
is one and any progress starts the count again; once nothing is on its way and no job is
ready, nothing changes before the end (`Stuck`), unless a timer of the tool comes due: what it makes
the tool write is progress, except in the very last spin (`fired`).  What the count starts from is the
hypothesis: `PipeFits` says that whenever the driver enters the loop, what is in the pipe is
read in fewer than `maxIdleSpins` spins.  It is not a property of the code, which gives up
a tool that has more than 16 MiB to read.  `ResponsesFitCorrect` derives it from the constants:
each response is read once as it is written, so at most `MaxChunks - 1` reads are left
of each (`ReadBound`).  The bound is tight: TLC finds a tool given up too early with
`MaxCalls * (MaxChunks - 1) = MaxIdle`.

**Storage** (`StorageTypeCorrect`, `NeverServedExpiredCorrect`).  `SInv` says, in memory and on
the drive, that a cache row expires exactly when it was last set to (`Dated`); type correctness needs
that the queue's ids are those its counter has given, once each (`Counted`).

**The quota** (`QuotaCeilingCorrect`).  The bytes used are written as the cardinality of the set
of stored bytes (`RowBytes`, `QueueBytes`), so that a sum over rows needs no recursion: an
upsert replaces the bytes of one row (`RowReplaced`), a push adds a message's, a pop takes
them away.  Cardinalities make sense for finite sets only, and neither keys nor
namespaces need be finitely many: that the bytes stored are is an invariant (`Stored`, in memory
and on the drive).  Only a restart may bring back more than the limit allows.

**The mailboxes** (`MailboxRefinement`: `Spec => ImplementsMailboxes`).  The mapping takes the
messages of a mailbox in the order of their places, where a message's place is the number of
waiting messages with an id no larger.  In a finite queue of distinct ids (`Orderly`) the
places are exactly `1..Cardinality` (`PlaceBounds`, `PlaceOrder`, and by counting
`EveryPlace`), so this is a sequence of messages without gaps; a new largest id comes last
(`LastInLine`), removing the smallest moves every other one up (`FirstInLine`).  Then
QueuePush is Push, QueuePop is Pop with the message it answers, Persist and Restart are
themselves and all else stutters on the mailboxes.  Ids that go back with a restart are
the reason for `Counted`: a new id must be larger than those that came back.

### Only model-checked

* Liveness (`EventuallyDurableOrReported`, `CloseReleases`, `InvocationEnds`, `IdleIsLocked`), which
  the proof system does not handle under fairness.  Every other property of the passing runs
  is a theorem.


## 5. Not modelled

* The cryptography of `secret` and `sign`: `Store` and `App` keep which key an image was sealed
  under and which password opens which key; signatures are ideal.
* Power loss after a rename (`atomicWrite` syncs file and directory, the model takes the rename
  as durable), and the steps before it, which leave the old blob and are `WriteFails`.
* Of the app: that a session has three credentials, one per plane and one for the cookie (which
  of them opens which plane is a comparison, see `controlAuth`), the loopback guard, the page,
  an idle limit of 0, flags, the reading of the passphrase.
* The suite's use of `component`: its code is not in this repository.
* Frames that a tool forges by writing to std.out itself instead of through `console`,
  `foundry.*` and `__run`.
* The broker's URL and address checks: no state.  Listings, the guide, tokens, JSON.
* Boot of the sandbox, its compilation cache, UTF-8 and JSON framing.
* The Worker's validation, review report, change of day and edge caching.
* Failing SQL statements on the in-memory database, but for the second DELETE of a removal.

Disagreements met on the way that no run states, because they are plain to see in the code
or depend on what is not modelled: Flush returns nil while the snapshot of another reseal is
still in flight (store.go 364; 349 calls it synchronous), which nothing but tests calls;
`FlushErr` is "surfaced via health" (351), and no caller reads it; the Worker's mirror looks
`index.json` up under that key (worker.js 22-24) where publish stores `v1/index.json` (104), and artifacts are stored at `tools/...` (87-88), where a
`baseURL` that ends in `v1/` does not look (client.go 19, 97), though each artifact is a "relative path
under the registry base URL" (index.go 39); a
key file torn by a crash in the first setup answers 409 to setup and 500 to unlock from then
on (gui.go 150, 229); a deadline that passes in `PollIO` is returned as "poll
io" (invoke.go 142-144, 172-174), not as the documented `ErrTimeout` (14-16);
`schema.sql` 11 says that flagged submissions are never published automatically, and
worker.js 64-69 publishes them as unverified; `EnsureIndex` tests freshness and stores without a
lock (client.go 53-56), so overlapping refreshes may step back; a cached `reject` does not
stop a concurrent submission of the same body that is already past its lookup; a tool that
awaits a timer of its own is given up as stalled, although the limit is for one "awaiting something the
host never delivers" (invoke.go 38), and "a real deployment always passes a timeout" (39), which a
grant without `wall` does not; a grant that was stored after its tool was removed, or left behind by
a removal that failed half-way, approves the same manifest when it is installed again; a
lock that overtakes the timer's reseal may lose what it carried, and a later unlock may find its blob
replaced (`App`, `overtook`).


## 6. Plan

Done: `Store`, `Registry`, `App`, `Storage`, `Engine`, `Marketplace` and `MarketClient`, each
with its proofs, and the refinements of `Store` and of the queue table.  In order of importance, next:

1. What a grant that was stored after its tool was removed allows later, once it is decided
   what it should.
2. An abstract specification of a publication (one atomic step that lists a reviewed
   version) that `Marketplace` implements while publishes do not overlap.
3. The broker as pure operators (host and address rules) against a reference definition.

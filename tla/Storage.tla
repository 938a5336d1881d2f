------------------------------- MODULE Storage ------------------------------
(***************************************************************************)
(* The data a tool keeps: the tables kv, cache, blob, queue and quota of   *)
(* internal/store, as host.Dispatcher offers them.  Each operation is one  *)
(* critical section of Store.mu, so it is one action; tools interleave     *)
(* between operations.  Of a value only its size matters, of a message     *)
(* also which one it is.                                                   *)
(*                                                                         *)
(* Persist and Restart stand for module Store: the image on the drive is a *)
(* state the tables really had, and opening it again brings that back.     *)
(***************************************************************************)
EXTENDS Integers, Sequences, FiniteSets

CONSTANTS
  Namespaces, Keys, QueueNames,
  Tables,                \* of "kv", "cache", "blob": the keyed tables
  Sizes,                 \* bytes of a value or message
  Msgs, SizeOf,          \* messages, and the bytes of each
  Limits,                \* what SetQuota may set; 0 removes the limit
  Lifetimes,             \* TTLs; 0 never expires
  Nothing,               \* no row, no answer
  MaxId, MaxTime         \* bounds: rows ever queued, clock ticks

ASSUME StorageAssumption ==
  /\ Tables \subseteq {"kv", "cache", "blob"}
  /\ Sizes \subseteq Nat /\ SizeOf \in [Msgs -> Nat]
  /\ Limits \subseteq Nat /\ Lifetimes \subseteq Nat
  /\ MaxId \in Nat /\ MaxTime \in Nat

VARIABLES
  tables,                \* rows, queue, limit and lastId: the database
  disk,                  \* the database as last persisted
  now,                   \* wall clock
  answer,                \* what the last operation returned
  deadline               \* history: when each cache entry was set to expire

vars == <<tables, disk, now, answer, deadline>>

Empty ==
  [rows |-> [i \in Tables \X Namespaces \X Keys |-> Nothing],
   queue |-> {}, lastId |-> 0, limit |-> [n \in Namespaces |-> 0]]

NoDeadlines == [e \in Namespaces \X Keys |-> 0]

Init ==
  /\ tables = Empty
  /\ disk = [db |-> Empty, deadline |-> NoDeadlines]
  /\ now = 0
  /\ answer = Nothing
  /\ deadline = NoDeadlines

Row(t, n, k) == tables.rows[<<t, n, k>>]

Answer(op, n, k, v) == [op |-> op, ns |-> n, key |-> k, value |-> v]

-----------------------------------------------------------------------------
(* Quota *)

Bytes(row) == IF row = Nothing THEN 0 ELSE row.bytes

\* The bytes a namespace has stored, each with the row it is in.
RowBytes(db, n) == UNION {{i} \X (1..Bytes(db.rows[i])) : i \in Tables \X {n} \X Keys}
QueueBytes(db, n) == UNION {{m} \X (1..m.bytes) : m \in {o \in db.queue : o.ns = n}}

\* nsUsedLocked: SUM(bytes) over the keyed tables and the queue.
Used(db, n) == Cardinality(RowBytes(db, n)) + Cardinality(QueueBytes(db, n))

\* checkQuota: existing is what the write would overwrite.
FitsOwnTable(n, existing, add) ==
  \/ tables.limit[n] <= 0
  \/ add <= tables.limit[n]
Fits(n, existing, add) ==
  \/ tables.limit[n] <= 0
  \/ Used(tables, n) - existing + add <= tables.limit[n]

\* SetQuota accepts a limit below what is used already.
SetQuota(n, l) ==
  /\ tables' = [tables EXCEPT !.limit[n] = l]
  /\ answer' = Nothing
  /\ UNCHANGED <<disk, now, deadline>>

\* ErrQuota.
Refuse ==
  /\ answer' = Nothing
  /\ UNCHANGED <<tables, disk, now, deadline>>

-----------------------------------------------------------------------------
(* Keyed tables *)

\* INSERT ... ON CONFLICT DO UPDATE, expires_at included.
UpsertKeepsExpiry(old, new) == IF old = Nothing THEN new ELSE [new EXCEPT !.exp = old.exp]
Upsert(old, new) == new

\* KVSet, BlobPut and CacheSet.
Set(t, n, k, b, ttl) ==
  LET exp == IF ttl > 0 THEN now + ttl ELSE 0 IN
  /\ t # "cache" => ttl = 0
  /\ IF Fits(n, Bytes(Row(t, n, k)), b)
     THEN /\ tables' = [tables EXCEPT !.rows[<<t, n, k>>] = Upsert(@, [bytes |-> b, exp |-> exp])]
          /\ deadline' = IF t = "cache" THEN [deadline EXCEPT ![<<n, k>>] = exp] ELSE deadline
          /\ answer' = Nothing
          /\ UNCHANGED <<disk, now>>
     ELSE Refuse

KVDel(n, k) ==
  /\ "kv" \in Tables
  /\ tables' = [tables EXCEPT !.rows[<<"kv", n, k>>] = Nothing]
  /\ answer' = Nothing
  /\ UNCHANGED <<disk, now, deadline>>

Expired(row) == row.exp > 0 /\ now >= row.exp

\* CacheGet sweeps an expired entry on read.
CacheGet(n, k) ==
  LET row == Row("cache", n, k) IN
  /\ "cache" \in Tables
  /\ row # Nothing
  /\ IF Expired(row)
     THEN /\ tables' = [tables EXCEPT !.rows[<<"cache", n, k>>] = Nothing]
          /\ answer' = Nothing
     ELSE /\ answer' = Answer("cacheGet", n, k, row.bytes)
          /\ UNCHANGED tables
  /\ UNCHANGED <<disk, now, deadline>>

-----------------------------------------------------------------------------
(* The queue table: one for all names, ordered by id *)

\* AUTOINCREMENT: one more than any id ever given.
NewIdNotAdvanced == tables.lastId
NewId == tables.lastId + 1

QueuePush(n, q, m) ==
  /\ tables.lastId < MaxId
  /\ IF Fits(n, 0, SizeOf[m])
     THEN /\ tables' =
               [tables EXCEPT !.lastId = @ + 1,
                  !.queue = @ \cup {[ns |-> n, name |-> q, id |-> NewId, msg |-> m,
                                     bytes |-> SizeOf[m]]}]
          /\ answer' = Nothing
          /\ UNCHANGED <<disk, now, deadline>>
     ELSE Refuse

Waiting(db, n, q) == {m \in db.queue : m.ns = n /\ m.name = q}

\* SELECT id ... ORDER BY id LIMIT 1, deleted and returned in one statement.
OldestOfAll(n, q) == CHOOSE m \in tables.queue : \A o \in tables.queue : m.id <= o.id
Oldest(n, q) ==
  CHOOSE m \in Waiting(tables, n, q) : \A o \in Waiting(tables, n, q) : m.id <= o.id

QueuePop(n, q) ==
  /\ Waiting(tables, n, q) # {}
  /\ tables' = [tables EXCEPT !.queue = @ \ {Oldest(n, q)}]
  /\ answer' = Answer("queuePop", n, q, Oldest(n, q).msg)
  /\ UNCHANGED <<disk, now, deadline>>

-----------------------------------------------------------------------------
(* The clock, and the image on the drive *)

Tick ==
  /\ now < MaxTime
  /\ now' = now + 1
  /\ answer' = Nothing
  /\ UNCHANGED <<tables, disk, deadline>>

Persist ==
  /\ disk' = [db |-> tables, deadline |-> deadline]
  /\ answer' = Nothing
  /\ UNCHANGED <<tables, now, deadline>>

Restart ==
  /\ tables' = disk.db
  /\ deadline' = disk.deadline
  /\ answer' = Nothing
  /\ UNCHANGED <<disk, now>>

Next ==
  \/ \E n \in Namespaces, l \in Limits : SetQuota(n, l)
  \/ \E t \in Tables, n \in Namespaces, k \in Keys, b \in Sizes, ttl \in Lifetimes :
       Set(t, n, k, b, ttl)
  \/ \E n \in Namespaces, k \in Keys : KVDel(n, k) \/ CacheGet(n, k)
  \/ \E n \in Namespaces, q \in QueueNames, m \in Msgs : QueuePush(n, q, m)
  \/ \E n \in Namespaces, q \in QueueNames : QueuePop(n, q)
  \/ Tick \/ Persist \/ Restart

Spec == Init /\ [][Next]_vars

-----------------------------------------------------------------------------
(* Properties *)

RowSet == [bytes : Sizes, exp : Nat]

AnswerSet ==
  [op : {"cacheGet", "queuePop"}, ns : Namespaces, key : Keys \cup QueueNames,
   value : Sizes \cup Msgs]

ASSUME RowAssumption == Nothing \notin RowSet /\ Nothing \notin AnswerSet

Queued ==
  [ns : Namespaces, name : QueueNames, id : 1..MaxId, msg : Msgs, bytes : Nat]

Database ==
  [rows : [Tables \X Namespaces \X Keys -> RowSet \cup {Nothing}], queue : SUBSET Queued,
   lastId : 0..MaxId, limit : [Namespaces -> Nat]]

Deadlines == [Namespaces \X Keys -> Nat]

\* The database has its type, in memory and on the drive, ids are unique and
\* none is larger than the last one given.
TypeOK ==
  /\ tables \in Database /\ deadline \in Deadlines
  /\ disk \in [db : Database, deadline : Deadlines]
  /\ \A db \in {tables, disk.db} :
       /\ \A m \in db.queue : m.id <= db.lastId
       /\ \A m, o \in db.queue : m.id = o.id => m = o
  /\ now \in 0..MaxTime

\* "Rejects a write that would push the namespace past its limit": while a
\* limit is set, no operation on any table makes a namespace grow beyond it.
\* (A limit set below what is used, or a restart, may leave it beyond.)
QuotaCeiling ==
  [][\A n \in Namespaces :
       /\ Used(tables', n) > Used(tables, n)
       /\ tables.limit[n] > 0
       /\ ~Restart
       => Used(tables', n) <= tables.limit[n]]_vars

\* An entry is never served at or after the time it was last set to expire,
\* whatever was overwritten, swept, persisted or brought back in between.
NeverServedExpired ==
  answer # Nothing /\ answer.op = "cacheGet" =>
    LET d == deadline[<<answer.ns, answer.key>>] IN d = 0 \/ now < d

\* The messages of one mailbox, by id.
Place(w, m) == Cardinality({o \in w : o.id <= m.id})
At(w, j) == CHOOSE m \in w : Place(w, m) = j
InOrder(db, b) ==
  LET w == Waiting(db, b[1], b[2])
  IN  [j \in 1..Cardinality(w) |-> At(w, j).msg]

Mailbox == Namespaces \X QueueNames

\* The shared table behaves as one FIFO per namespace and name, whatever is
\* pushed and popped on the others and wherever a restart goes back to.
Boxes == INSTANCE Mailboxes WITH
  Boxes <- Mailbox,
  Msgs  <- Msgs,
  box   <- [b \in Mailbox |-> InOrder(tables, b)],
  saved <- [b \in Mailbox |-> InOrder(disk.db, b)],
  given <- IF answer # Nothing /\ answer.op = "queuePop"
           THEN <<<<answer.ns, answer.key>>, answer.value>> ELSE Nothing

ImplementsMailboxes == Boxes!Spec
=============================================================================

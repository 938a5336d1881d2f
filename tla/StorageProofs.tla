---------------------------- MODULE StorageProofs ----------------------------
(* What holds of Storage for any tables, namespaces, keys, sizes and         *)
(* lifetimes: the database keeps its type across writes, persists and        *)
(* restarts, a cache entry carries the deadline it was last given, a         *)
(* namespace stays within its limit, and the queue table implements          *)
(* Mailboxes.                                                                *)
EXTENDS Storage, FiniteSetTheorems, SequenceTheorems, TLAPS

Triples == Tables \X Namespaces \X Keys

\* The ids of a queue table are those its counter has given, once each.
Counted(db) ==
  /\ \A m \in db.queue : m.id <= db.lastId
  /\ \A m, o \in db.queue : m.id = o.id => m = o

\* A cache entry expires when it was last set to.
Dated(db, dl) ==
  \A n \in Namespaces, k \in Keys :
    "cache" \in Tables /\ db.rows[<<"cache", n, k>>] # Nothing
      => db.rows[<<"cache", n, k>>].exp = dl[<<n, k>>]

SInv ==
  /\ TypeOK
  /\ Dated(tables, deadline) /\ Dated(disk.db, disk.deadline)
  /\ NeverServedExpired

LEMMA Typed ==
  ASSUME TypeOK
  PROVE  /\ tables \in Database /\ Counted(tables) /\ deadline \in Deadlines
         /\ disk \in [db : Database, deadline : Deadlines] /\ Counted(disk.db)
         /\ now \in Nat /\ now \in 0..MaxTime
  BY StorageAssumption DEF TypeOK, Counted

\* A step that leaves the image on the drive alone and answers no CacheGet.
LEMMA QuietStep ==
  ASSUME SInv, tables' \in Database, Counted(tables'), deadline' \in Deadlines,
         Dated(tables', deadline'), UNCHANGED <<disk, now>>,
         answer' = Nothing \/ answer'.op # "cacheGet"
  PROVE  SInv'
<1>1. Counted(disk.db) /\ disk \in [db : Database, deadline : Deadlines] /\ now \in 0..MaxTime
  BY Typed DEF SInv
<1>2. TypeOK'
  BY <1>1 DEF TypeOK, Counted
<1>3. NeverServedExpired'
  BY DEF NeverServedExpired
<1> QED
  BY <1>2, <1>3 DEF SInv

LEMMA RefuseKeeps == ASSUME SInv, Refuse PROVE SInv'
  BY Typed, QuietStep DEF Refuse, SInv

LEMMA SetQuotaKeeps ==
  ASSUME SInv, NEW n \in Namespaces, NEW l \in Limits, SetQuota(n, l) PROVE SInv'
<1>1. tables' = [tables EXCEPT !.limit[n] = l] /\ answer' = Nothing /\ UNCHANGED <<disk, now, deadline>>
  BY DEF SetQuota
<1>2. l \in Nat
  BY StorageAssumption
<1>3. /\ tables' \in Database
      /\ tables'.rows = tables.rows /\ tables'.queue = tables.queue /\ tables'.lastId = tables.lastId
  BY <1>1, <1>2, Typed DEF SInv, Database
<1>4. Counted(tables') /\ Dated(tables', deadline')
  BY <1>1, <1>3, Typed DEF SInv, Counted, Dated
<1> QED
  BY <1>1, <1>3, <1>4, Typed, QuietStep DEF SInv

\* One row is replaced, or removed.
LEMMA RowKeeps ==
  ASSUME SInv, NEW t \in Tables, NEW n \in Namespaces, NEW k \in Keys,
         NEW row \in RowSet \cup {Nothing},
         tables' = [tables EXCEPT !.rows[<<t, n, k>>] = row],
         deadline' \in Deadlines, UNCHANGED <<disk, now>>, answer' = Nothing,
         \/ t # "cache" /\ deadline' = deadline
         \/ t = "cache" /\ row = Nothing /\ deadline' = deadline
         \/ t = "cache" /\ row # Nothing /\ deadline' = [deadline EXCEPT ![<<n, k>>] = row.exp]
  PROVE  SInv'
<1>1. <<t, n, k>> \in Triples /\ <<n, k>> \in Namespaces \X Keys
  BY DEF Triples
<1>2. /\ tables' \in Database
      /\ tables'.queue = tables.queue /\ tables'.lastId = tables.lastId
      /\ tables'.rows = [tables.rows EXCEPT ![<<t, n, k>>] = row]
  BY <1>1, Typed DEF SInv, Database, Triples
<1>3. tables.rows \in [Triples -> RowSet \cup {Nothing}] /\ deadline \in [Namespaces \X Keys -> Nat]
  BY Typed DEF SInv, Database, Triples, Deadlines
<1>4. Dated(tables', deadline')
  <2> SUFFICES ASSUME NEW m \in Namespaces, NEW j \in Keys, "cache" \in Tables,
                      tables'.rows[<<"cache", m, j>>] # Nothing
               PROVE  tables'.rows[<<"cache", m, j>>].exp = deadline'[<<m, j>>]
    BY DEF Dated
  <2>1. <<"cache", m, j>> \in Triples /\ <<m, j>> \in Namespaces \X Keys
    BY DEF Triples
  <2>2. CASE <<t, n, k>> = <<"cache", m, j>>
    <3>1. tables'.rows[<<"cache", m, j>>] = row /\ <<n, k>> = <<m, j>> /\ t = "cache"
      BY <1>2, <1>3, <2>1, <2>2
    <3>2. deadline' = [deadline EXCEPT ![<<m, j>>] = row.exp]
      BY <3>1
    <3> QED BY <1>3, <2>1, <3>1, <3>2
  <2>3. CASE <<t, n, k>> # <<"cache", m, j>>
    <3>1. tables'.rows[<<"cache", m, j>>] = tables.rows[<<"cache", m, j>>]
      BY <1>2, <1>3, <2>1, <2>3
    <3>2. deadline'[<<m, j>>] = deadline[<<m, j>>]
      BY <1>1, <1>3, <2>1, <2>3
    <3> QED BY <3>1, <3>2 DEF SInv, Dated
  <2> QED BY <2>2, <2>3
<1>5. Counted(tables')
  BY <1>2, Typed DEF SInv, Counted
<1> QED
  BY <1>2, <1>4, <1>5, QuietStep

LEMMA SetKeeps ==
  ASSUME SInv, NEW t \in Tables, NEW n \in Namespaces, NEW k \in Keys, NEW b \in Sizes,
         NEW ttl \in Lifetimes, Set(t, n, k, b, ttl)
  PROVE  SInv'
<1> DEFINE exp == IF ttl > 0 THEN now + ttl ELSE 0
           row == [bytes |-> b, exp |-> exp]
<1>1. exp \in Nat
  BY StorageAssumption, Typed DEF SInv
<1> HIDE DEF exp
<1>2. row \in RowSet /\ row.exp = exp
  BY <1>1 DEF RowSet
<1>3. CASE Refuse
  BY <1>3, RefuseKeeps
<1>4. CASE ~Refuse
  <2>1. /\ tables' = [tables EXCEPT !.rows[<<t, n, k>>] = row]
        /\ deadline' = IF t = "cache" THEN [deadline EXCEPT ![<<n, k>>] = exp] ELSE deadline
        /\ answer' = Nothing /\ UNCHANGED <<disk, now>>
    BY <1>4 DEF Set, Upsert, exp
  <2>2. deadline' \in Deadlines
    BY <1>1, <2>1, Typed DEF SInv, Deadlines
  <2> HIDE DEF row
  <2>3. row # Nothing
    BY <1>2, RowAssumption
  <2> QED BY <1>2, <2>1, <2>2, <2>3, RowKeeps
<1> QED
  BY <1>3, <1>4

LEMMA QueueKeeps ==
  ASSUME SInv, NEW Q \in SUBSET Queued, NEW last \in 0..MaxId,
         tables' = [tables EXCEPT !.lastId = last, !.queue = Q],
         \A m \in Q : m.id <= last, \A m, o \in Q : m.id = o.id => m = o,
         UNCHANGED <<disk, now, deadline>>, answer' = Nothing \/ answer'.op # "cacheGet"
  PROVE  SInv'
<1>1. /\ tables' \in Database
      /\ tables'.rows = tables.rows /\ tables'.queue = Q /\ tables'.lastId = last
  BY Typed DEF SInv, Database
<1>2. Counted(tables') /\ Dated(tables', deadline')
  BY <1>1 DEF SInv, Counted, Dated
<1> QED
  BY <1>1, <1>2, Typed, QuietStep DEF SInv

LEMMA PushKeeps ==
  ASSUME SInv, NEW n \in Namespaces, NEW q \in QueueNames, NEW m \in Msgs, QueuePush(n, q, m)
  PROVE  SInv'
<1> DEFINE x == [ns |-> n, name |-> q, id |-> tables.lastId + 1, msg |-> m, bytes |-> SizeOf[m]]
           last == tables.lastId + 1
           Q == tables.queue \cup {x}
<1>1. CASE Refuse
  BY <1>1, RefuseKeeps
<1>2. CASE ~Refuse
  <2>1. /\ tables' = [tables EXCEPT !.lastId = @ + 1, !.queue = @ \cup {x}]
        /\ answer' = Nothing /\ UNCHANGED <<disk, now, deadline>> /\ tables.lastId < MaxId
    BY <1>2 DEF QueuePush, NewId
  <2>2. tables.lastId \in 0..MaxId /\ tables.queue \subseteq Queued /\ Counted(tables) /\ MaxId \in Nat
    BY StorageAssumption, Typed DEF SInv, Database
  <2>3. last \in 1..MaxId /\ last \in 0..MaxId
    BY <2>1, <2>2
  <2>4. x \in Queued /\ x.id = last
    BY <2>3, StorageAssumption DEF Queued
  <2>5. tables' = [tables EXCEPT !.lastId = last, !.queue = Q]
    BY <2>1
  <2> HIDE DEF x
  <2>6. \A o \in tables.queue : o.id \in Nat /\ o.id <= tables.lastId
    BY <2>2 DEF Counted, Queued
  <2>7. \A o \in tables.queue : o.id < last
    BY <2>2, <2>6
  <2>8. /\ Q \subseteq Queued
        /\ \A o \in Q : o.id <= last
        /\ \A o, p \in Q : o.id = p.id => o = p
    BY <2>2, <2>3, <2>4, <2>6, <2>7 DEF Counted
  <2> HIDE DEF last, Q
  <2> QED BY <2>1, <2>3, <2>5, <2>8, QueueKeeps
<1> QED
  BY <1>1, <1>2

LEMMA PopKeeps ==
  ASSUME SInv, NEW n \in Namespaces, NEW q \in QueueNames, QueuePop(n, q)
  PROVE  SInv'
<1> DEFINE Q == tables.queue \ {Oldest(n, q)}
           last == tables.lastId
<1>1. /\ tables' = [tables EXCEPT !.queue = Q] /\ UNCHANGED <<disk, now, deadline>>
      /\ answer' = Answer("queuePop", n, q, Oldest(n, q).msg)
  BY DEF QueuePop
<1>2. answer'.op # "cacheGet"
  BY <1>1 DEF Answer
<1>3. tables \in Database /\ Counted(tables)
  BY Typed DEF SInv
<1>4. last \in 0..MaxId /\ Q \subseteq Queued /\ Q \subseteq tables.queue
  BY <1>3 DEF Database
<1> HIDE DEF Q
<1>5. tables' = [tables EXCEPT !.lastId = last, !.queue = Q]
  BY <1>1, <1>3 DEF Database
<1>6. (\A m \in Q : m.id <= last) /\ (\A m, o \in Q : m.id = o.id => m = o)
  BY <1>3, <1>4 DEF Counted
<1> HIDE DEF last
<1> QED
  BY <1>1, <1>2, <1>4, <1>5, <1>6, QueueKeeps

LEMMA GetKeeps ==
  ASSUME SInv, NEW n \in Namespaces, NEW k \in Keys, CacheGet(n, k)
  PROVE  SInv'
<1> DEFINE row == tables.rows[<<"cache", n, k>>]
<1>1. "cache" \in Tables /\ row # Nothing /\ UNCHANGED <<disk, now, deadline>>
  BY DEF CacheGet, Row
<1>2. CASE Expired(row) /\ tables' = [tables EXCEPT !.rows[<<"cache", n, k>>] = Nothing] /\ answer' = Nothing
  BY <1>1, <1>2, RowKeeps, Typed DEF SInv
<1>3. CASE ~Expired(row) /\ answer' = Answer("cacheGet", n, k, row.bytes) /\ tables' = tables
  <2>1. <<"cache", n, k>> \in Triples
    BY <1>1 DEF Triples
  <2>2. row \in RowSet
    BY <1>1, <2>1, Typed DEF SInv, Database, Triples
  <2>3. row.exp \in Nat /\ now \in Nat
    BY <2>2, Typed DEF SInv, RowSet
  <2>4. row.exp = deadline[<<n, k>>]
    BY <1>1 DEF SInv, Dated
  <2>5. deadline[<<n, k>>] = 0 \/ now < deadline[<<n, k>>]
    BY <1>3, <2>3, <2>4 DEF Expired
  <2>6. answer'.ns = n /\ answer'.key = k
    BY <1>3 DEF Answer
  <2>7. NeverServedExpired'
    BY <1>1, <2>5, <2>6 DEF NeverServedExpired
  <2> QED BY <1>1, <1>3, <2>7 DEF SInv, TypeOK, Dated
<1> QED
  BY <1>2, <1>3 DEF CacheGet, Row

LEMMA StorageStep == SInv /\ [Next]_vars => SInv'
<1> SUFFICES ASSUME SInv, [Next]_vars PROVE SInv'
  OBVIOUS
<1>1. ASSUME NEW n \in Namespaces, NEW k \in Keys, KVDel(n, k) PROVE SInv'
  BY <1>1, RowKeeps, Typed DEF KVDel, SInv
<1>2. CASE Tick
  <2>1. now + 1 \in 0..MaxTime
    BY <1>2, StorageAssumption, Typed DEF Tick, SInv
  <2> QED BY <1>2, <2>1 DEF Tick, SInv, TypeOK, Dated, NeverServedExpired
<1>3. CASE Persist
  <2>1. disk'.db = tables /\ disk'.deadline = deadline /\ UNCHANGED <<tables, now, deadline>> /\ answer' = Nothing
    BY <1>3 DEF Persist
  <2>2. disk' \in [db : Database, deadline : Deadlines]
    BY <1>3, Typed DEF Persist, SInv
  <2>3. TypeOK'
    BY <2>1, <2>2, Typed DEF SInv, TypeOK, Counted
  <2> QED BY <2>1, <2>3 DEF SInv, Dated, NeverServedExpired
<1>4. CASE Restart
  <2>1. tables' = disk.db /\ deadline' = disk.deadline /\ UNCHANGED <<disk, now>> /\ answer' = Nothing
    BY <1>4 DEF Restart
  <2>2. TypeOK'
    BY <2>1, Typed DEF SInv, TypeOK, Counted
  <2> QED BY <2>1, <2>2 DEF SInv, Dated, NeverServedExpired
<1>5. CASE UNCHANGED vars
  BY <1>5 DEF vars, SInv, TypeOK, Dated, NeverServedExpired
<1> QED
  BY <1>1, <1>2, <1>3, <1>4, <1>5, SetQuotaKeeps, SetKeeps, GetKeeps, PushKeeps, PopKeeps DEF Next

LEMMA EmptyStart == Init => SInv
<1> SUFFICES ASSUME Init PROVE SInv
  OBVIOUS
<1>1. Empty \in Database /\ Empty.queue = {} /\ NoDeadlines \in Deadlines
  BY StorageAssumption DEF Empty, Database, NoDeadlines, Deadlines
<1>2. \A n \in Namespaces, k \in Keys : "cache" \in Tables => Empty.rows[<<"cache", n, k>>] = Nothing
  BY DEF Empty
<1>3. TypeOK
  BY <1>1, StorageAssumption DEF Init, TypeOK
<1> QED
  BY <1>2, <1>3 DEF Init, SInv, Dated, NeverServedExpired

-----------------------------------------------------------------------------
(* Bytes used.  What a namespace has stored is a finite set in every state,    *)
(* whatever the sets of tables and keys, and an operation adds or removes the  *)
(* bytes of one row.                                                           *)

\* The bytes of one row.
Cells(i, b) == {i} \X (1..b)

LEMMA CellCount ==
  ASSUME NEW i, NEW b \in Nat
  PROVE  IsFiniteSet(Cells(i, b)) /\ Cardinality(Cells(i, b)) = b
<1>1. IsFiniteSet({i}) /\ Cardinality({i}) = 1
  BY FS_Singleton
<1>2. IsFiniteSet(1..b) /\ Cardinality(1..b) = b
  BY FS_Interval
<1>3. /\ IsFiniteSet({i} \X (1..b))
      /\ Cardinality({i} \X (1..b)) = Cardinality({i}) * Cardinality(1..b)
  BY <1>1, <1>2, FS_Product
<1>4. Cardinality({i}) * Cardinality(1..b) = b
  BY <1>1, <1>2
<1> QED
  BY <1>3, <1>4 DEF Cells

LEMMA OneRowMore ==
  ASSUME NEW S, IsFiniteSet(S), NEW i, NEW b \in Nat, S \cap Cells(i, b) = {}
  PROVE  /\ IsFiniteSet(S \cup Cells(i, b))
         /\ Cardinality(S \cup Cells(i, b)) = Cardinality(S) + b
<1>1. Cardinality(S) \in Nat /\ Cardinality({}) = 0
  BY FS_CardinalityType, FS_EmptySet
<1>2. IsFiniteSet(Cells(i, b)) /\ Cardinality(Cells(i, b)) = b
  BY CellCount
<1> QED
  BY <1>1, <1>2, FS_Union

LEMMA BytesTyped ==
  ASSUME NEW row \in RowSet \cup {Nothing} PROVE Bytes(row) \in Nat
  BY StorageAssumption DEF Bytes, RowSet

\* The database has finitely many bytes stored.
Stored(db) ==
  \A n \in Namespaces : IsFiniteSet(RowBytes(db, n)) /\ IsFiniteSet(QueueBytes(db, n))

LEMMA UsedTyped ==
  ASSUME NEW db, Stored(db), NEW n \in Namespaces
  PROVE  /\ Used(db, n) \in Nat
         /\ Cardinality(RowBytes(db, n)) \in Nat /\ Cardinality(QueueBytes(db, n)) \in Nat
  BY FS_CardinalityType DEF Stored, Used

\* A row is written or removed: the others keep their bytes.
LEMMA RowReplaced ==
  ASSUME NEW db \in Database, NEW db2 \in Database, NEW t \in Tables, NEW n \in Namespaces,
         NEW k \in Keys, NEW row \in RowSet \cup {Nothing},
         db2.rows = [db.rows EXCEPT ![<<t, n, k>>] = row], Stored(db)
  PROVE  /\ IsFiniteSet(RowBytes(db2, n))
         /\ Cardinality(RowBytes(db2, n)) =
              Cardinality(RowBytes(db, n)) - Bytes(db.rows[<<t, n, k>>]) + Bytes(row)
         /\ Bytes(db.rows[<<t, n, k>>]) \in Nat
         /\ \A o \in Namespaces \ {n} : RowBytes(db2, o) = RowBytes(db, o)
<1> DEFINE r == <<t, n, k>>
           Others == UNION {Cells(i, Bytes(db.rows[i])) : i \in (Tables \X {n} \X Keys) \ {r}}
           old == Bytes(db.rows[r])
           new == Bytes(row)
<1>1. /\ r \in Triples /\ r \in Tables \X {n} \X Keys
      /\ db.rows \in [Triples -> RowSet \cup {Nothing}]
      /\ \A o \in Namespaces : Tables \X {o} \X Keys \subseteq Triples
  BY DEF Database, Triples
<1>2. old \in Nat /\ new \in Nat
  BY <1>1, BytesTyped
<1>3. /\ db2.rows[r] = row
      /\ \A i \in Triples \ {r} : db2.rows[i] = db.rows[i]
  BY <1>1
<1>4. RowBytes(db, n) = Others \cup Cells(r, old)
  BY <1>1 DEF RowBytes, Cells
<1>5. RowBytes(db2, n) = Others \cup Cells(r, new)
  <2>1. \A i \in (Tables \X {n} \X Keys) \ {r} : Cells(i, Bytes(db2.rows[i])) = Cells(i, Bytes(db.rows[i]))
    BY <1>1, <1>3
  <2>2. RowBytes(db2, n) = UNION {Cells(i, Bytes(db2.rows[i])) : i \in Tables \X {n} \X Keys}
    BY DEF RowBytes, Cells
  <2> QED BY <1>1, <1>3, <2>1, <2>2
<1>6. Others \cap Cells(r, old) = {} /\ Others \cap Cells(r, new) = {}
  BY DEF Cells
<1>7. ASSUME NEW o \in Namespaces \ {n} PROVE RowBytes(db2, o) = RowBytes(db, o)
  <2>1. r \notin Tables \X {o} \X Keys
    OBVIOUS
  <2>2. \A i \in Tables \X {o} \X Keys : db2.rows[i] = db.rows[i]
    BY <1>1, <1>3, <2>1
  <2> QED BY <2>2 DEF RowBytes
<1> HIDE DEF Others, old, new
<1>8. IsFiniteSet(Others)
  <2>1. Others \in SUBSET RowBytes(db, n) /\ IsFiniteSet(RowBytes(db, n))
    BY <1>4 DEF Stored
  <2> QED BY <2>1, FS_Subset
<1>9. Cardinality(RowBytes(db, n)) = Cardinality(Others) + old
  BY <1>2, <1>4, <1>6, <1>8, OneRowMore
<1>10. IsFiniteSet(RowBytes(db2, n)) /\ Cardinality(RowBytes(db2, n)) = Cardinality(Others) + new
  BY <1>2, <1>5, <1>6, <1>8, OneRowMore
<1>11. Cardinality(Others) \in Nat
  BY <1>8, FS_CardinalityType
<1> QED
  BY <1>2, <1>7, <1>9, <1>10, <1>11 DEF old, new

\* A message is queued, or taken off: only what its namespace has queued changes.
LEMMA QueueGrows ==
  ASSUME NEW db, Stored(db), NEW n \in Namespaces, NEW m, m.ns = n, m.bytes \in Nat,
         NEW db2, db2.queue = db.queue \cup {m}
  PROVE  /\ IsFiniteSet(QueueBytes(db2, n))
         /\ Cardinality(QueueBytes(db2, n)) <= Cardinality(QueueBytes(db, n)) + m.bytes
         /\ \A o \in Namespaces \ {n} : QueueBytes(db2, o) = QueueBytes(db, o)
<1>1. QueueBytes(db2, n) = QueueBytes(db, n) \cup Cells(m, m.bytes)
  BY DEF QueueBytes, Cells
<1>2. \A o \in Namespaces \ {n} : QueueBytes(db2, o) = QueueBytes(db, o)
  BY DEF QueueBytes
<1>3. IsFiniteSet(QueueBytes(db, n)) /\ IsFiniteSet(Cells(m, m.bytes)) /\ Cardinality(Cells(m, m.bytes)) = m.bytes
  BY CellCount DEF Stored
<1> DEFINE both == QueueBytes(db, n) \cap Cells(m, m.bytes)
<1>4. IsFiniteSet(both) /\ Cardinality(both) \in Nat /\ Cardinality(QueueBytes(db, n)) \in Nat
  BY <1>3, FS_Intersection, FS_CardinalityType
<1>5. /\ IsFiniteSet(QueueBytes(db, n) \cup Cells(m, m.bytes))
      /\ Cardinality(QueueBytes(db, n) \cup Cells(m, m.bytes)) =
           Cardinality(QueueBytes(db, n)) + m.bytes - Cardinality(both)
  BY <1>3, FS_Union
<1> HIDE DEF both
<1> QED
  BY <1>1, <1>2, <1>4, <1>5

LEMMA QueueShrinks ==
  ASSUME NEW db, Stored(db), NEW db2, db2.queue \subseteq db.queue, NEW o \in Namespaces
  PROVE  /\ IsFiniteSet(QueueBytes(db2, o))
         /\ Cardinality(QueueBytes(db2, o)) <= Cardinality(QueueBytes(db, o))
<1>1. QueueBytes(db2, o) \in SUBSET QueueBytes(db, o)
  BY DEF QueueBytes
<1> QED
  BY <1>1, FS_Subset DEF Stored

\* An operation on the database: it leaves finitely many bytes stored, and a
\* namespace that has more than before is within its limit.
Allowed(db, db2) ==
  /\ Stored(db2)
  /\ \A n \in Namespaces :
       Used(db2, n) <= Used(db, n) \/ db.limit[n] <= 0 \/ Used(db2, n) <= db.limit[n]

LEMMA NothingStored ==
  ASSUME NEW db, Stored(db), NEW db2, db2.rows = db.rows, db2.queue = db.queue
  PROVE  Allowed(db, db2)
<1>1. \A n \in Namespaces : RowBytes(db2, n) = RowBytes(db, n) /\ QueueBytes(db2, n) = QueueBytes(db, n)
  BY DEF RowBytes, QueueBytes
<1>2. \A n \in Namespaces : Used(db, n) \in Nat /\ Used(db2, n) = Used(db, n)
  BY <1>1, UsedTyped DEF Used
<1> QED
  BY <1>1, <1>2 DEF Allowed, Stored

\* A row changes: the write is one that fits, or the row gets no larger.
LEMMA RowAllowed ==
  ASSUME NEW db \in Database, NEW db2 \in Database, NEW t \in Tables, NEW n \in Namespaces,
         NEW k \in Keys, NEW row \in RowSet \cup {Nothing}, Stored(db),
         db2.rows = [db.rows EXCEPT ![<<t, n, k>>] = row], db2.queue = db.queue,
         \/ Bytes(row) <= Bytes(db.rows[<<t, n, k>>])
         \/ db.limit[n] <= 0
         \/ Used(db, n) - Bytes(db.rows[<<t, n, k>>]) + Bytes(row) <= db.limit[n]
  PROVE  Allowed(db, db2)
<1> DEFINE old == Bytes(db.rows[<<t, n, k>>])
           new == Bytes(row)
<1>1. /\ IsFiniteSet(RowBytes(db2, n))
      /\ Cardinality(RowBytes(db2, n)) = Cardinality(RowBytes(db, n)) - old + new
      /\ old \in Nat
      /\ \A o \in Namespaces \ {n} : RowBytes(db2, o) = RowBytes(db, o)
  BY RowReplaced
<1>2. new \in Nat
  BY BytesTyped
<1>3. \A o \in Namespaces : QueueBytes(db2, o) = QueueBytes(db, o)
  BY DEF QueueBytes
<1>4. Stored(db2)
  BY <1>1, <1>3 DEF Stored
<1>5. ASSUME NEW o \in Namespaces \ {n} PROVE Used(db2, o) <= Used(db, o)
  <2>1. Used(db2, o) = Used(db, o) /\ Used(db, o) \in Nat
    BY <1>1, <1>3, UsedTyped DEF Used
  <2> QED BY <2>1
<1>6. Used(db2, n) <= Used(db, n) \/ db.limit[n] <= 0 \/ Used(db2, n) <= db.limit[n]
  <2>1. Cardinality(RowBytes(db, n)) \in Nat /\ Cardinality(QueueBytes(db, n)) \in Nat
    BY UsedTyped
  <2>2. Used(db2, n) = Used(db, n) - old + new /\ Used(db, n) \in Nat
    BY <1>1, <1>2, <1>3, <2>1 DEF Used
  <2>3. new <= old \/ db.limit[n] <= 0 \/ Used(db, n) - old + new <= db.limit[n]
    OBVIOUS
  <2> HIDE DEF old, new
  <2> QED BY <1>1, <1>2, <2>2, <2>3
<1> QED
  BY <1>4, <1>5, <1>6 DEF Allowed

LEMMA PushAllowed ==
  ASSUME SInv, Stored(tables), NEW n \in Namespaces, NEW q \in QueueNames, NEW m \in Msgs,
         QueuePush(n, q, m)
  PROVE  Allowed(tables, tables')
<1>1. CASE Refuse
  BY <1>1, NothingStored DEF Refuse
<1>2. CASE ~Refuse
  <2> DEFINE x == [ns |-> n, name |-> q, id |-> tables.lastId + 1, msg |-> m, bytes |-> SizeOf[m]]
  <2>1. /\ tables' = [tables EXCEPT !.lastId = @ + 1, !.queue = @ \cup {x}]
        /\ Fits(n, 0, SizeOf[m])
    BY <1>2 DEF QueuePush, NewId
  <2>2. x.ns = n /\ x.bytes = SizeOf[m] /\ SizeOf[m] \in Nat
    BY StorageAssumption
  <2> HIDE DEF x
  <2>3. tables'.queue = tables.queue \cup {x} /\ tables'.rows = tables.rows
    BY <2>1, Typed DEF SInv, Database
  <2>4. /\ IsFiniteSet(QueueBytes(tables', n))
        /\ Cardinality(QueueBytes(tables', n)) <= Cardinality(QueueBytes(tables, n)) + SizeOf[m]
        /\ \A o \in Namespaces \ {n} : QueueBytes(tables', o) = QueueBytes(tables, o)
    BY <2>2, <2>3, QueueGrows
  <2>5. \A o \in Namespaces : RowBytes(tables', o) = RowBytes(tables, o)
    BY <2>3 DEF RowBytes
  <2>6. Stored(tables')
    BY <2>4, <2>5 DEF Stored
  <2>7. ASSUME NEW o \in Namespaces \ {n} PROVE Used(tables', o) <= Used(tables, o)
    <3>1. Used(tables', o) = Used(tables, o) /\ Used(tables, o) \in Nat
      BY <2>4, <2>5, UsedTyped DEF Used
    <3> QED BY <3>1
  <2>8. Used(tables', n) <= Used(tables, n) + SizeOf[m] /\ Used(tables', n) \in Nat /\ Used(tables, n) \in Nat
    <3>1. /\ Cardinality(RowBytes(tables, n)) \in Nat /\ Cardinality(QueueBytes(tables, n)) \in Nat
          /\ Cardinality(QueueBytes(tables', n)) \in Nat
      BY <2>4, UsedTyped, FS_CardinalityType
    <3> QED BY <2>2, <2>4, <2>5, <3>1 DEF Used
  <2>9. tables.limit[n] <= 0 \/ Used(tables, n) - 0 + SizeOf[m] <= tables.limit[n]
    BY <2>1 DEF Fits
  <2>10. tables.limit[n] \in Nat
    BY Typed DEF SInv, Database
  <2>11. tables.limit[n] <= 0 \/ Used(tables', n) <= tables.limit[n]
    BY <2>2, <2>8, <2>9, <2>10
  <2> QED BY <2>6, <2>7, <2>11 DEF Allowed
<1> QED
  BY <1>1, <1>2

LEMMA PopAllowed ==
  ASSUME SInv, Stored(tables), NEW n \in Namespaces, NEW q \in QueueNames, QueuePop(n, q)
  PROVE  Allowed(tables, tables')
<1>1. tables'.rows = tables.rows /\ tables'.queue \subseteq tables.queue
  BY Typed DEF QueuePop, SInv, Database
<1>2. ASSUME NEW o \in Namespaces
      PROVE  /\ RowBytes(tables', o) = RowBytes(tables, o)
             /\ IsFiniteSet(QueueBytes(tables', o))
             /\ Used(tables', o) <= Used(tables, o)
  <2>1. RowBytes(tables', o) = RowBytes(tables, o)
    BY <1>1 DEF RowBytes
  <2>2. /\ IsFiniteSet(QueueBytes(tables', o))
        /\ Cardinality(QueueBytes(tables', o)) <= Cardinality(QueueBytes(tables, o))
    BY <1>1, QueueShrinks
  <2>3. /\ Cardinality(RowBytes(tables, o)) \in Nat /\ Cardinality(QueueBytes(tables, o)) \in Nat
        /\ Cardinality(QueueBytes(tables', o)) \in Nat
    BY <2>2, UsedTyped, FS_CardinalityType
  <2> QED BY <2>1, <2>2, <2>3 DEF Used
<1> QED
  BY <1>2 DEF Allowed, Stored

\* Set, KVDel and CacheGet.
LEMMA RowsAllowed ==
  ASSUME SInv, SInv', Stored(tables), NEW n \in Namespaces, NEW k \in Keys,
         \/ \E t \in Tables, b \in Sizes, ttl \in Lifetimes : Set(t, n, k, b, ttl)
         \/ KVDel(n, k)
         \/ CacheGet(n, k)
  PROVE  Allowed(tables, tables')
<1>1. tables \in Database /\ tables' \in Database
  BY DEF SInv, TypeOK
<1>2. CASE \E t \in Tables, b \in Sizes, ttl \in Lifetimes : Set(t, n, k, b, ttl)
  <2>1. PICK t \in Tables, b \in Sizes, ttl \in Lifetimes : Set(t, n, k, b, ttl)
    BY <1>2
  <2>2. CASE Refuse
    BY <2>2, NothingStored DEF Refuse
  <2>3. CASE ~Refuse
    <3> DEFINE exp == IF ttl > 0 THEN now + ttl ELSE 0
               row == [bytes |-> b, exp |-> exp]
    <3>1. /\ tables' = [tables EXCEPT !.rows[<<t, n, k>>] = row]
          /\ Fits(n, Bytes(Row(t, n, k)), b)
      BY <2>1, <2>3 DEF Set, Upsert
    <3>2. exp \in Nat
      BY StorageAssumption, Typed DEF SInv
    <3> HIDE DEF exp
    <3>3. row \in RowSet /\ row.bytes = b
      BY <3>2 DEF RowSet
    <3> HIDE DEF row
    <3>4. Bytes(row) = b
      BY <3>3, RowAssumption DEF Bytes
    <3>5. tables'.rows = [tables.rows EXCEPT ![<<t, n, k>>] = row] /\ tables'.queue = tables.queue
      BY <1>1, <3>1 DEF Database
    <3>6. \/ tables.limit[n] <= 0
          \/ Used(tables, n) - Bytes(tables.rows[<<t, n, k>>]) + Bytes(row) <= tables.limit[n]
      BY <3>1, <3>4 DEF Fits, Row
    <3> QED BY <1>1, <3>3, <3>5, <3>6, RowAllowed
  <2> QED BY <2>2, <2>3
<1>3. ASSUME NEW t \in Tables, tables' = [tables EXCEPT !.rows[<<t, n, k>>] = Nothing]
      PROVE  Allowed(tables, tables')
  <2>1. tables'.rows = [tables.rows EXCEPT ![<<t, n, k>>] = Nothing] /\ tables'.queue = tables.queue
    BY <1>1, <1>3 DEF Database
  <2>2. tables.rows[<<t, n, k>>] \in RowSet \cup {Nothing}
    BY <1>1 DEF Database
  <2>3. Bytes(Nothing) <= Bytes(tables.rows[<<t, n, k>>])
    BY <2>2, BytesTyped DEF Bytes
  <2> QED BY <1>1, <2>1, <2>3, RowAllowed
<1>4. CASE KVDel(n, k)
  BY <1>3, <1>4 DEF KVDel
<1>5. CASE CacheGet(n, k)
  <2>1. CASE tables' = tables
    BY <2>1, NothingStored
  <2>2. CASE tables' = [tables EXCEPT !.rows[<<"cache", n, k>>] = Nothing] /\ "cache" \in Tables
    BY <1>3, <2>2
  <2> QED BY <1>5, <2>1, <2>2 DEF CacheGet
<1> QED
  BY <1>2, <1>4, <1>5

QuotaInv == SInv /\ Stored(tables) /\ Stored(disk.db)

LEMMA QuotaStep ==
  QuotaInv /\ [Next]_vars => QuotaInv' /\ (Allowed(tables, tables') \/ Restart)
<1> SUFFICES ASSUME QuotaInv, [Next]_vars
             PROVE  QuotaInv' /\ (Allowed(tables, tables') \/ Restart)
  OBVIOUS
<1>0. SInv /\ SInv' /\ Stored(tables) /\ Stored(disk.db)
  BY StorageStep DEF QuotaInv
<1>1. ASSUME UNCHANGED disk, Allowed(tables, tables')
      PROVE  QuotaInv'
  BY <1>0, <1>1 DEF QuotaInv, Allowed
<1>2. ASSUME NEW n \in Namespaces, NEW k \in Keys,
             \/ \E t \in Tables, b \in Sizes, ttl \in Lifetimes : Set(t, n, k, b, ttl)
             \/ KVDel(n, k)
             \/ CacheGet(n, k)
      PROVE  UNCHANGED disk /\ Allowed(tables, tables')
  <2>1. UNCHANGED disk
    BY <1>2 DEF Set, KVDel, CacheGet, Refuse
  <2>2. Allowed(tables, tables')
    BY <1>0, <1>2, RowsAllowed
  <2> QED BY <2>1, <2>2
<1>3. ASSUME NEW n \in Namespaces, NEW l \in Limits, SetQuota(n, l)
      PROVE  UNCHANGED disk /\ Allowed(tables, tables')
  <2>1. UNCHANGED disk /\ tables'.rows = tables.rows /\ tables'.queue = tables.queue
    BY <1>0, <1>3, Typed DEF SetQuota, SInv, Database
  <2> QED BY <1>0, <2>1, NothingStored
<1>4. ASSUME NEW n \in Namespaces, NEW q \in QueueNames,
             QueuePop(n, q) \/ \E m \in Msgs : QueuePush(n, q, m)
      PROVE  UNCHANGED disk /\ Allowed(tables, tables')
  <2>1. UNCHANGED disk
    BY <1>4 DEF QueuePop, QueuePush, Refuse
  <2> QED BY <1>0, <1>4, <2>1, PopAllowed, PushAllowed
<1>5. CASE Tick \/ Persist \/ UNCHANGED vars
  <2>1. tables' = tables /\ (disk' = disk \/ disk'.db = tables)
    BY <1>5 DEF Tick, Persist, vars
  <2>2. Allowed(tables, tables')
    BY <1>0, <2>1, NothingStored
  <2> QED BY <1>0, <2>1, <2>2 DEF QuotaInv
<1>6. CASE Restart
  BY <1>0, <1>6 DEF Restart, QuotaInv
<1> QED
  BY <1>1, <1>2, <1>3, <1>4, <1>5, <1>6 DEF Next

LEMMA EmptyStored == Stored(Empty)
<1>1. ASSUME NEW n \in Namespaces PROVE RowBytes(Empty, n) = {} /\ QueueBytes(Empty, n) = {}
  <2>1. \A i \in Tables \X {n} \X Keys : Bytes(Empty.rows[i]) = 0
    BY DEF Empty, Bytes
  <2>2. Empty.queue = {}
    BY DEF Empty
  <2> QED BY <2>1, <2>2 DEF RowBytes, QueueBytes
<1> QED
  BY <1>1, FS_EmptySet DEF Stored

-----------------------------------------------------------------------------
(* The order of a mailbox.  The place of a message is how many messages have   *)
(* an id no larger; in a finite set with distinct ids every place is taken     *)
(* once.                                                                       *)

Orderly(w) ==
  /\ IsFiniteSet(w)
  /\ \A m \in w : m.id \in Nat
  /\ \A m, o \in w : m.id = o.id => m = o

UpTo(w, m) == {o \in w : o.id <= m.id}

LEMMA PlaceBounds ==
  ASSUME NEW w, Orderly(w), NEW m \in w
  PROVE  /\ IsFiniteSet(UpTo(w, m)) /\ Place(w, m) = Cardinality(UpTo(w, m))
         /\ Cardinality(w) \in Nat /\ Place(w, m) \in 1..Cardinality(w)
<1>1. UpTo(w, m) \in SUBSET w /\ m \in UpTo(w, m) /\ IsFiniteSet(w)
  BY DEF UpTo, Orderly
<1>2. IsFiniteSet(UpTo(w, m)) /\ Cardinality(UpTo(w, m)) <= Cardinality(w)
  BY <1>1, FS_Subset
<1>3. Cardinality(UpTo(w, m)) \in Nat /\ Cardinality(w) \in Nat
  BY <1>1, <1>2, FS_CardinalityType
<1>4. Cardinality(UpTo(w, m)) # 0
  BY <1>1, <1>2, FS_EmptySet
<1>5. Place(w, m) = Cardinality(UpTo(w, m))
  BY DEF Place, UpTo
<1> QED
  BY <1>2, <1>3, <1>4, <1>5

LEMMA PlaceOrder ==
  ASSUME NEW w, Orderly(w), NEW m \in w, NEW o \in w, m # o
  PROVE  Place(w, m) # Place(w, o)
<1>1. ASSUME NEW a \in w, NEW b \in w, a.id < b.id
      PROVE  Place(w, a) # Place(w, b)
  <2>1. a.id \in Nat /\ b.id \in Nat /\ \A x \in w : x.id \in Nat
    BY DEF Orderly
  <2>2. UpTo(w, a) \in SUBSET UpTo(w, b) /\ b \in UpTo(w, b) /\ b \notin UpTo(w, a)
    BY <1>1, <2>1 DEF UpTo
  <2>3. IsFiniteSet(UpTo(w, b))
    BY PlaceBounds
  <2>4. Cardinality(UpTo(w, b)) = Cardinality(UpTo(w, a)) => UpTo(w, b) = UpTo(w, a)
    BY <2>2, <2>3, FS_Subset
  <2> QED BY <2>2, <2>4, PlaceBounds
<1>2. m.id \in Nat /\ o.id \in Nat /\ m.id # o.id
  BY DEF Orderly
<1>3. m.id < o.id \/ o.id < m.id
  BY <1>2
<1> QED
  BY <1>1, <1>3

LEMMA EveryPlace ==
  ASSUME NEW w, Orderly(w), NEW j \in 1..Cardinality(w)
  PROVE  At(w, j) \in w /\ Place(w, At(w, j)) = j
<1>1. \E m \in w : Place(w, m) = j
  <2> SUFFICES ASSUME \A m \in w : Place(w, m) # j PROVE FALSE
    OBVIOUS
  <2> DEFINE n == Cardinality(w)
             T == (1..n) \ {j}
             f == [m \in w |-> Place(w, m)]
  <2>1. IsFiniteSet(w) /\ n \in Nat
    BY FS_CardinalityType DEF Orderly
  <2>2. IsFiniteSet(1..n) /\ Cardinality(1..n) = n
    BY <2>1, FS_Interval
  <2>3. IsFiniteSet(T) /\ Cardinality(T) = n - 1
    BY <2>2, FS_RemoveElement
  <2>4. f \in [w -> T]
    BY PlaceBounds
  <2>5. Cardinality(T) < Cardinality(w)
    BY <2>1, <2>3
  <2>6. \A x, y \in w : x # y => f[x] # f[y]
    BY PlaceOrder
  <2> HIDE DEF T, f
  <2>7. \E x, y \in w : x # y /\ f[x] = f[y]
    BY <2>1, <2>3, <2>4, <2>5, FS_PigeonHole
  <2> QED BY <2>6, <2>7
<1> QED
  BY <1>1 DEF At

LEMMA AtPlace ==
  ASSUME NEW w, Orderly(w), NEW m \in w, NEW j, Place(w, m) = j
  PROVE  At(w, j) = m
<1>1. j \in 1..Cardinality(w)
  BY PlaceBounds
<1>2. At(w, j) \in w /\ Place(w, At(w, j)) = j
  BY <1>1, EveryPlace
<1> QED
  BY <1>2, PlaceOrder

\* The messages of w in their order.
InLine(w) == [j \in 1..Cardinality(w) |-> At(w, j).msg]

LEMMA LineTyped ==
  ASSUME NEW w, Orderly(w), \A m \in w : m.msg \in Msgs
  PROVE  InLine(w) \in Seq(Msgs) /\ Len(InLine(w)) = Cardinality(w) /\ Cardinality(w) \in Nat
<1>1. Cardinality(w) \in Nat
  BY FS_CardinalityType DEF Orderly
<1>2. InLine(w) \in [1..Cardinality(w) -> Msgs]
  BY EveryPlace DEF InLine
<1>3. InLine(w) \in Seq(Msgs)
  BY <1>1, <1>2, SeqDef
<1>4. DOMAIN InLine(w) = 1..Len(InLine(w)) /\ Len(InLine(w)) \in Nat
  BY <1>3, LenProperties
<1>5. 1..Cardinality(w) = 1..Len(InLine(w))
  BY <1>4 DEF InLine
<1>6. Len(InLine(w)) = Cardinality(w)
  BY <1>1, <1>4, <1>5
<1> QED
  BY <1>1, <1>3, <1>6

\* A message with a new id is the last in line.
LEMMA LastInLine ==
  ASSUME NEW w, Orderly(w), \A m \in w : m.msg \in Msgs,
         NEW x, x.id \in Nat, x.msg \in Msgs, \A m \in w : m.id < x.id
  PROVE  InLine(w \cup {x}) = Append(InLine(w), x.msg)
<1> DEFINE v == w \cup {x}
           n == Cardinality(w)
<1>1. n \in Nat /\ x \notin w /\ IsFiniteSet(w) /\ \A m \in w : m.id \in Nat
  BY FS_CardinalityType DEF Orderly
<1>2. IsFiniteSet(v) /\ Cardinality(v) = n + 1
  BY <1>1, FS_AddElement
<1>3. Orderly(v) /\ \A m \in v : m.msg \in Msgs
  BY <1>1, <1>2 DEF Orderly
<1>4. Place(v, x) = n + 1
  <2>1. UpTo(v, x) = v
    BY <1>1 DEF UpTo
  <2> QED BY <1>2, <1>3, <2>1, PlaceBounds
<1>5. ASSUME NEW m \in w PROVE Place(v, m) = Place(w, m)
  <2>1. UpTo(v, m) = UpTo(w, m)
    BY <1>1 DEF UpTo
  <2> QED BY <1>3, <2>1, PlaceBounds
<1>6. At(v, n + 1) = x
  BY <1>3, <1>4, AtPlace
<1>7. ASSUME NEW j \in 1..n PROVE At(v, j) = At(w, j)
  <2>1. At(w, j) \in w /\ Place(w, At(w, j)) = j
    BY EveryPlace
  <2> QED BY <1>3, <1>5, <2>1, AtPlace
<1>8. /\ InLine(w) \in Seq(Msgs) /\ Len(InLine(w)) = n
      /\ InLine(v) \in Seq(Msgs) /\ Len(InLine(v)) = n + 1
  BY <1>2, <1>3, LineTyped
<1> DEFINE s == Append(InLine(w), x.msg)
<1>9. /\ s \in Seq(Msgs) /\ Len(s) = n + 1 /\ s[n + 1] = x.msg
      /\ \A j \in 1..n : s[j] = InLine(w)[j]
  BY <1>8, AppendProperties
<1> HIDE DEF s
<1>10. ASSUME NEW j \in 1..(n + 1) PROVE InLine(v)[j] = s[j]
  <2>1. InLine(v)[j] = At(v, j).msg
    BY <1>2 DEF InLine
  <2>2. CASE j = n + 1
    BY <1>6, <1>9, <2>1, <2>2
  <2>3. CASE j # n + 1
    <3>1. j \in 1..n
      BY <1>1, <2>3
    <3>2. InLine(w)[j] = At(w, j).msg
      BY <3>1 DEF InLine
    <3> QED BY <1>7, <1>9, <2>1, <3>1, <3>2
  <2> QED BY <2>2, <2>3
<1> HIDE DEF v, n
<1>11. InLine(v) = s
  BY <1>8, <1>9, <1>10, SeqEqual
<1> QED
  BY <1>11 DEF s, v

\* The message with the smallest id is the first in line.
LEMMA FirstInLine ==
  ASSUME NEW w, Orderly(w), \A m \in w : m.msg \in Msgs,
         NEW x \in w, \A m \in w : x.id <= m.id
  PROVE  /\ InLine(w) # <<>> /\ Head(InLine(w)) = x.msg
         /\ InLine(w \ {x}) = Tail(InLine(w))
<1> DEFINE v == w \ {x}
           n == Cardinality(w)
<1>1. n \in Nat /\ IsFiniteSet(w) /\ x.id \in Nat /\ \A m \in w : m.id \in Nat
  BY FS_CardinalityType DEF Orderly
<1>2. IsFiniteSet(v) /\ Cardinality(v) = n - 1
  BY <1>1, FS_RemoveElement
<1>3. Orderly(v) /\ \A m \in v : m.msg \in Msgs
  BY <1>2 DEF Orderly
<1>4. Place(w, x) = 1 /\ 1 \in 1..n
  <2>1. UpTo(w, x) = {x}
    BY <1>1 DEF UpTo, Orderly
  <2>2. Cardinality({x}) = 1
    BY FS_Singleton
  <2> QED BY <2>1, <2>2, PlaceBounds
<1>5. ASSUME NEW m \in v PROVE Place(w, m) = Place(v, m) + 1
  <2>1. UpTo(v, m) = UpTo(w, m) \ {x} /\ x \in UpTo(w, m)
    BY DEF UpTo
  <2>2. IsFiniteSet(UpTo(w, m)) /\ Place(w, m) = Cardinality(UpTo(w, m)) /\ Place(w, m) \in 1..n
    BY PlaceBounds
  <2>3. Place(v, m) = Cardinality(UpTo(v, m))
    BY <1>3, PlaceBounds
  <2>4. Cardinality(UpTo(w, m) \ {x}) = Cardinality(UpTo(w, m)) - 1
    BY <2>1, <2>2, FS_RemoveElement
  <2>5. Place(v, m) = Place(w, m) - 1
    BY <2>1, <2>2, <2>3, <2>4
  <2>6. Place(w, m) \in Int
    BY <1>1, <2>2
  <2> QED BY <2>5, <2>6
<1>6. At(w, 1) = x
  BY <1>4, AtPlace
<1>7. ASSUME NEW j \in 1..(n - 1) PROVE At(w, j + 1) = At(v, j)
  <2>1. At(v, j) \in v /\ Place(v, At(v, j)) = j
    BY <1>2, <1>3, EveryPlace
  <2>2. Place(w, At(v, j)) = j + 1
    BY <1>5, <2>1
  <2> QED BY <2>1, <2>2, AtPlace
<1>8. /\ InLine(w) \in Seq(Msgs) /\ Len(InLine(w)) = n /\ n # 0
      /\ InLine(v) \in Seq(Msgs) /\ Len(InLine(v)) = n - 1
  BY <1>2, <1>3, <1>4, LineTyped
<1>9. InLine(w) # <<>>
  BY <1>8, EmptySeq
<1> DEFINE s == Tail(InLine(w))
<1>10. /\ s \in Seq(Msgs) /\ Len(s) = n - 1 /\ Head(InLine(w)) = InLine(w)[1]
       /\ \A j \in 1..(n - 1) : s[j] = InLine(w)[j + 1]
  BY <1>8, <1>9, HeadTailProperties
<1>11. Head(InLine(w)) = x.msg
  BY <1>4, <1>6, <1>10 DEF InLine
<1> HIDE DEF s
<1>12. ASSUME NEW j \in 1..(n - 1) PROVE InLine(v)[j] = s[j]
  <2>1. InLine(v)[j] = At(v, j).msg
    BY <1>2 DEF InLine
  <2>2. j + 1 \in 1..n
    BY <1>1
  <2>3. InLine(w)[j + 1] = At(w, j + 1).msg
    BY <2>2 DEF InLine
  <2> QED BY <1>7, <1>10, <2>1, <2>3
<1> HIDE DEF v, n
<1>13. InLine(v) = s
  BY <1>8, <1>10, <1>12, SeqEqual
<1> QED
  BY <1>9, <1>11, <1>13 DEF s, v

-----------------------------------------------------------------------------
(* The refinement: each operation on the queue table is that operation on one  *)
(* mailbox, and every other operation leaves all of them alone.                *)

LEMMA QueueOrderly ==
  ASSUME NEW db \in Database, Counted(db), NEW n \in Namespaces, NEW q \in QueueNames
  PROVE  Orderly(Waiting(db, n, q)) /\ \A m \in Waiting(db, n, q) : m.msg \in Msgs
<1> DEFINE Q == db.queue
           f == [m \in Q |-> m.id]
           w == Waiting(db, n, q)
<1>1. Q \subseteq Queued /\ w \subseteq Q
  BY DEF Database, Waiting
<1>2. \A m \in Q : m.id \in 1..MaxId /\ m.id \in Nat /\ m.msg \in Msgs
  BY <1>1, StorageAssumption DEF Queued
<1>3. \A m, o \in Q : m.id = o.id => m = o
  BY DEF Counted
<1>4. f \in Injection(Q, 1..MaxId)
  BY <1>2, <1>3 DEF Injection, IsInjective
<1>5. IsFiniteSet(1..MaxId)
  BY FS_Interval, StorageAssumption
<1> HIDE DEF Q, f, w
<1>6. IsFiniteSet(Q)
  BY <1>4, <1>5, FS_Injection
<1>7. IsFiniteSet(w)
  BY <1>1, <1>6, FS_Subset
<1> QED
  BY <1>1, <1>2, <1>3, <1>7 DEF Orderly, w

\* The mailboxes of a database.
BoxesOf(db) == [b \in Mailbox |-> InOrder(db, b)]

LEMMA BoxLine ==
  ASSUME NEW db, NEW n \in Namespaces, NEW q \in QueueNames
  PROVE  /\ <<n, q>> \in Mailbox
         /\ BoxesOf(db)[<<n, q>>] = InLine(Waiting(db, n, q))
  BY DEF BoxesOf, Mailbox, InOrder, InLine

LEMMA SameQueue ==
  ASSUME NEW db, NEW db2, db2.queue = db.queue
  PROVE  BoxesOf(db2) = BoxesOf(db)
  BY DEF BoxesOf, InOrder, Waiting

\* One mailbox changes: the other queues hold the same messages.
LEMMA OneBox ==
  ASSUME NEW db, NEW db2, NEW n \in Namespaces, NEW q \in QueueNames, NEW s,
         InLine(Waiting(db2, n, q)) = s,
         \A o \in Namespaces, p \in QueueNames :
           <<o, p>> # <<n, q>> => Waiting(db2, o, p) = Waiting(db, o, p)
  PROVE  BoxesOf(db2) = [BoxesOf(db) EXCEPT ![<<n, q>>] = s]
<1> DEFINE new == [BoxesOf(db) EXCEPT ![<<n, q>>] = s]
<1>1. \A b \in Mailbox : \E o \in Namespaces, p \in QueueNames : b = <<o, p>>
  BY DEF Mailbox
<1>2. DOMAIN BoxesOf(db) = Mailbox
  BY DEF BoxesOf
<1>3. ASSUME NEW b \in Mailbox PROVE BoxesOf(db2)[b] = new[b]
  <2>1. PICK o \in Namespaces, p \in QueueNames : b = <<o, p>>
    BY <1>1
  <2>2. CASE b = <<n, q>>
    BY <1>2, <2>2, BoxLine
  <2>3. CASE b # <<n, q>>
    <3>1. Waiting(db2, o, p) = Waiting(db, o, p)
      BY <2>1, <2>3
    <3>2. BoxesOf(db2)[b] = BoxesOf(db)[b]
      BY <2>1, <3>1, BoxLine
    <3> QED BY <1>2, <2>3, <3>2
  <2> QED BY <2>2, <2>3
<1>4. BoxesOf(db2) = [b \in Mailbox |-> BoxesOf(db2)[b]]
  BY DEF BoxesOf
<1>5. new = [b \in Mailbox |-> new[b]]
  BY <1>2
<1> HIDE DEF new
<1>6. BoxesOf(db2) = new
  BY <1>3, <1>4, <1>5
<1> QED
  BY <1>6 DEF new

LEMMA PushesBox ==
  ASSUME NEW db \in Database, Counted(db), NEW n \in Namespaces, NEW q \in QueueNames,
         NEW x, x.ns = n, x.name = q, x.id = db.lastId + 1, x.msg \in Msgs,
         NEW db2, db2.queue = db.queue \cup {x}
  PROVE  BoxesOf(db2) = [BoxesOf(db) EXCEPT ![<<n, q>>] = Append(@, x.msg)]
<1> DEFINE w == Waiting(db, n, q)
<1>1. Waiting(db2, n, q) = w \cup {x}
  BY DEF Waiting
<1>2. \A o \in Namespaces, p \in QueueNames :
        <<o, p>> # <<n, q>> => Waiting(db2, o, p) = Waiting(db, o, p)
  BY DEF Waiting
<1>3. Orderly(w) /\ \A m \in w : m.msg \in Msgs
  BY QueueOrderly
<1>4. db.lastId \in Nat /\ \A m \in w : m.id <= db.lastId
  BY StorageAssumption DEF Database, Counted, Waiting
<1>5. x.id \in Nat /\ \A m \in w : m.id \in Nat /\ m.id < x.id
  BY <1>3, <1>4 DEF Orderly
<1> HIDE DEF w
<1>6. InLine(Waiting(db2, n, q)) = Append(InLine(w), x.msg)
  BY <1>1, <1>3, <1>5, LastInLine
<1>7. BoxesOf(db)[<<n, q>>] = InLine(w)
  BY BoxLine DEF w
<1> QED
  BY <1>2, <1>6, <1>7, OneBox

LEMMA PopsBox ==
  ASSUME NEW db \in Database, Counted(db), NEW n \in Namespaces, NEW q \in QueueNames,
         NEW x \in Waiting(db, n, q), \A o \in Waiting(db, n, q) : x.id <= o.id,
         NEW db2, db2.queue = db.queue \ {x}
  PROVE  /\ BoxesOf(db)[<<n, q>>] # <<>>
         /\ Head(BoxesOf(db)[<<n, q>>]) = x.msg
         /\ BoxesOf(db2) = [BoxesOf(db) EXCEPT ![<<n, q>>] = Tail(@)]
<1> DEFINE w == Waiting(db, n, q)
<1>1. Waiting(db2, n, q) = w \ {x}
  BY DEF Waiting
<1>2. \A o \in Namespaces, p \in QueueNames :
        <<o, p>> # <<n, q>> => Waiting(db2, o, p) = Waiting(db, o, p)
  BY DEF Waiting
<1>3. Orderly(w) /\ \A m \in w : m.msg \in Msgs
  BY QueueOrderly
<1>4. x \in w /\ \A o \in w : x.id <= o.id
  OBVIOUS
<1>5. BoxesOf(db)[<<n, q>>] = InLine(w)
  BY BoxLine
<1> HIDE DEF w
<1>6. InLine(w) # <<>> /\ Head(InLine(w)) = x.msg /\ InLine(w \ {x}) = Tail(InLine(w))
  BY <1>3, <1>4, FirstInLine
<1> DEFINE rest == Tail(InLine(w))
<1>7. InLine(Waiting(db2, n, q)) = rest
  BY <1>1, <1>6
<1> HIDE DEF rest
<1>8. BoxesOf(db2) = [BoxesOf(db) EXCEPT ![<<n, q>>] = rest]
  BY <1>2, <1>7, OneBox
<1> QED
  BY <1>5, <1>6, <1>8 DEF rest

\* In a finite queue there is an oldest message.
LEMMA OldestThere ==
  ASSUME NEW w, Orderly(w), w # {}
  PROVE  \E m \in w : \A o \in w : m.id <= o.id
<1>1. Cardinality(w) \in Nat /\ Cardinality(w) # 0
  BY FS_CardinalityType, FS_EmptySet DEF Orderly
<1>2. 1 \in 1..Cardinality(w)
  BY <1>1
<1> DEFINE m == At(w, 1)
<1>3. m \in w /\ Place(w, m) = 1
  BY <1>2, EveryPlace
<1> HIDE DEF m
<1>4. ASSUME NEW o \in w PROVE m.id <= o.id
  <2> SUFFICES ASSUME ~(m.id <= o.id) PROVE FALSE
    OBVIOUS
  <2>1. o.id \in Nat /\ m.id \in Nat
    BY <1>3 DEF Orderly
  <2>2. {m, o} \in SUBSET UpTo(w, m) /\ m # o
    BY <1>3, <2>1 DEF UpTo
  <2>3. IsFiniteSet(UpTo(w, m)) /\ Cardinality(UpTo(w, m)) = 1
    BY <1>3, PlaceBounds
  <2>4. \E x : UpTo(w, m) = {x}
    BY <2>3, FS_Singleton
  <2> QED BY <2>2, <2>4
<1> QED
  BY <1>3, <1>4

Given ==
  IF answer # Nothing /\ answer.op = "queuePop"
  THEN <<<<answer.ns, answer.key>>, answer.value>> ELSE Nothing

\* What the mailboxes see of a step.
LEMMA BoxesStep ==
  /\ Boxes!Init <=>
       /\ BoxesOf(tables) = [b \in Mailbox |-> <<>>] /\ BoxesOf(disk.db) = BoxesOf(tables) /\ Given = Nothing
  /\ Boxes!Other <=>
       Given' = Nothing /\ UNCHANGED <<BoxesOf(tables), BoxesOf(disk.db)>>
  /\ Boxes!Persist <=>
       Given' = Nothing /\ BoxesOf(disk.db)' = BoxesOf(tables) /\ UNCHANGED BoxesOf(tables)
  /\ Boxes!Restart <=>
       Given' = Nothing /\ BoxesOf(tables)' = BoxesOf(disk.db) /\ UNCHANGED BoxesOf(disk.db)
  /\ \A b, m : Boxes!Push(b, m) <=>
       /\ Given' = Nothing /\ UNCHANGED BoxesOf(disk.db)
       /\ BoxesOf(tables)' = [BoxesOf(tables) EXCEPT ![b] = Append(@, m)]
  /\ \A b : Boxes!Pop(b) <=>
       /\ BoxesOf(tables)[b] # <<>> /\ UNCHANGED BoxesOf(disk.db)
       /\ Given' = <<b, Head(BoxesOf(tables)[b])>>
       /\ BoxesOf(tables)' = [BoxesOf(tables) EXCEPT ![b] = Tail(@)]
  BY DEF Boxes!Init, Boxes!Other, Boxes!Persist, Boxes!Restart, Boxes!Push, Boxes!Pop, BoxesOf, Given

\* An operation that is not about queues.
LEMMA OtherRefines ==
  ASSUME UNCHANGED disk, tables'.queue = tables.queue, answer' = Nothing \/ answer'.op # "queuePop"
  PROVE  Boxes!Next
<1>1. BoxesOf(tables)' = BoxesOf(tables) /\ BoxesOf(disk.db)' = BoxesOf(disk.db)
  BY SameQueue DEF BoxesOf
<1>2. Given' = Nothing
  BY DEF Given
<1> QED
  BY <1>1, <1>2, BoxesStep DEF Boxes!Next

LEMMA PushRefines ==
  ASSUME SInv, NEW n \in Namespaces, NEW q \in QueueNames, NEW m \in Msgs, QueuePush(n, q, m)
  PROVE  Boxes!Next
<1>1. CASE Refuse
  BY <1>1, OtherRefines DEF Refuse
<1>2. CASE ~Refuse
  <2> DEFINE x == [ns |-> n, name |-> q, id |-> tables.lastId + 1, msg |-> m, bytes |-> SizeOf[m]]
  <2>1. /\ tables' = [tables EXCEPT !.lastId = @ + 1, !.queue = @ \cup {x}]
        /\ answer' = Nothing /\ UNCHANGED disk
    BY <1>2 DEF QueuePush, NewId
  <2>2. x.ns = n /\ x.name = q /\ x.id = tables.lastId + 1 /\ x.msg = m
    OBVIOUS
  <2> HIDE DEF x
  <2>3. tables \in Database /\ Counted(tables)
    BY Typed DEF SInv
  <2>4. tables'.queue = tables.queue \cup {x}
    BY <2>1, <2>3 DEF Database
  <2>5. BoxesOf(tables') = [BoxesOf(tables) EXCEPT ![<<n, q>>] = Append(@, m)]
    BY <2>2, <2>3, <2>4, PushesBox
  <2>6. BoxesOf(tables)' = BoxesOf(tables') /\ BoxesOf(disk.db)' = BoxesOf(disk.db) /\ Given' = Nothing
    BY <2>1 DEF BoxesOf, Given
  <2>7. Boxes!Push(<<n, q>>, m)
    BY <2>5, <2>6, BoxesStep
  <2>8. <<n, q>> \in Mailbox
    BY DEF Mailbox
  <2> QED BY <2>7, <2>8 DEF Boxes!Next
<1> QED
  BY <1>1, <1>2

LEMMA PopRefines ==
  ASSUME SInv, NEW n \in Namespaces, NEW q \in QueueNames, QueuePop(n, q)
  PROVE  Boxes!Next
<1> DEFINE w == Waiting(tables, n, q)
           x == Oldest(n, q)
<1>1. tables \in Database /\ Counted(tables)
  BY Typed DEF SInv
<1>2. Orderly(w) /\ w # {} /\ \A m \in w : m.msg \in Msgs
  BY <1>1, QueueOrderly DEF QueuePop
<1>3. x \in w /\ \A o \in w : x.id <= o.id
  BY <1>2, OldestThere DEF Oldest
<1>4. /\ tables' = [tables EXCEPT !.queue = @ \ {x}] /\ UNCHANGED disk
      /\ answer' = Answer("queuePop", n, q, x.msg)
  BY DEF QueuePop
<1> HIDE DEF x
<1>5. tables'.queue = tables.queue \ {x}
  BY <1>1, <1>4 DEF Database
<1>6. /\ BoxesOf(tables)[<<n, q>>] # <<>>
      /\ Head(BoxesOf(tables)[<<n, q>>]) = x.msg
      /\ BoxesOf(tables') = [BoxesOf(tables) EXCEPT ![<<n, q>>] = Tail(@)]
  BY <1>1, <1>3, <1>5, PopsBox
<1>7. Given' = <<<<n, q>>, x.msg>>
  <2>1. x.msg \in Msgs
    BY <1>2, <1>3
  <2>2. answer' \in AnswerSet
    BY <1>4, <2>1 DEF AnswerSet, Answer
  <2>3. /\ answer' # Nothing /\ answer'.op = "queuePop" /\ answer'.ns = n /\ answer'.key = q
        /\ answer'.value = x.msg
    BY <1>4, <2>2, RowAssumption DEF Answer
  <2> QED BY <2>3 DEF Given
<1>8. BoxesOf(tables)' = BoxesOf(tables') /\ BoxesOf(disk.db)' = BoxesOf(disk.db)
  BY <1>4 DEF BoxesOf
<1>9. Boxes!Pop(<<n, q>>)
  BY <1>6, <1>7, <1>8, BoxesStep
<1>10. <<n, q>> \in Mailbox
  BY DEF Mailbox
<1> QED
  BY <1>9, <1>10 DEF Boxes!Next

LEMMA StepRefines == SInv /\ [Next]_vars => [Boxes!Next]_(Boxes!vars)
<1> SUFFICES ASSUME SInv, [Next]_vars PROVE [Boxes!Next]_(Boxes!vars)
  OBVIOUS
<1>0. tables \in Database
  BY Typed DEF SInv
<1>1. ASSUME NEW n \in Namespaces, NEW l \in Limits, SetQuota(n, l) PROVE Boxes!Next
  <2>1. tables'.queue = tables.queue
    BY <1>0, <1>1 DEF SetQuota, Database
  <2> QED BY <1>1, <2>1, OtherRefines DEF SetQuota
<1>2. ASSUME NEW t \in Tables, NEW n \in Namespaces, NEW k \in Keys, NEW b \in Sizes,
             NEW ttl \in Lifetimes, Set(t, n, k, b, ttl)
      PROVE  Boxes!Next
  <2>1. tables'.queue = tables.queue /\ UNCHANGED disk /\ answer' = Nothing
    BY <1>0, <1>2 DEF Set, Refuse, Database
  <2> QED BY <2>1, OtherRefines
<1>3. ASSUME NEW n \in Namespaces, NEW k \in Keys, KVDel(n, k) \/ CacheGet(n, k) PROVE Boxes!Next
  <2>1. tables'.queue = tables.queue /\ UNCHANGED disk
    BY <1>0, <1>3 DEF KVDel, CacheGet, Database
  <2>2. answer' = Nothing \/ answer'.op # "queuePop"
    BY <1>3 DEF KVDel, CacheGet, Answer
  <2> QED BY <2>1, <2>2, OtherRefines
<1>4. CASE Tick
  BY <1>4, OtherRefines DEF Tick
<1>5. CASE Persist
  <2>1. /\ BoxesOf(disk.db)' = BoxesOf(tables) /\ BoxesOf(tables)' = BoxesOf(tables) /\ Given' = Nothing
    BY <1>5 DEF Persist, BoxesOf, Given
  <2> QED BY <2>1, BoxesStep DEF Boxes!Next
<1>6. CASE Restart
  <2>1. /\ BoxesOf(tables)' = BoxesOf(disk.db) /\ BoxesOf(disk.db)' = BoxesOf(disk.db) /\ Given' = Nothing
    BY <1>6 DEF Restart, BoxesOf, Given
  <2> QED BY <2>1, BoxesStep DEF Boxes!Next
<1>7. CASE UNCHANGED vars
  BY <1>7 DEF vars, Boxes!vars
<1> QED
  BY <1>1, <1>2, <1>3, <1>4, <1>5, <1>6, <1>7, PushRefines, PopRefines DEF Next

LEMMA StartRefines == Init => Boxes!Init
<1> SUFFICES ASSUME Init PROVE Boxes!Init
  OBVIOUS
<1>1. tables = Empty /\ disk.db = Empty /\ Given = Nothing /\ Empty.queue = {}
  BY DEF Init, Given, Empty
<1>2. ASSUME NEW b \in Mailbox PROVE InOrder(Empty, b) = <<>>
  <2>1. Waiting(Empty, b[1], b[2]) = {}
    BY <1>1 DEF Waiting
  <2>2. Cardinality({}) = 0 /\ 1..0 = {}
    BY FS_EmptySet
  <2> QED BY <2>1, <2>2 DEF InOrder
<1>3. BoxesOf(Empty) = [b \in Mailbox |-> <<>>]
  BY <1>2 DEF BoxesOf
<1> QED
  BY <1>1, <1>3, BoxesStep

-----------------------------------------------------------------------------
(* The theorems *)

\* The tables keep their type in memory and on the drive, and no id of the queue
\* table is given twice, also after a restart has taken the counter back.
THEOREM StorageTypeCorrect == Spec => []TypeOK
<1>1. SInv => TypeOK
  BY DEF SInv
<1> QED
  BY <1>1, EmptyStart, StorageStep, PTL DEF Spec

\* No cache entry is served at or after the time it was last set to expire.
THEOREM NeverServedExpiredCorrect == Spec => []NeverServedExpired
<1>1. SInv => NeverServedExpired
  BY DEF SInv
<1> QED
  BY <1>1, EmptyStart, StorageStep, PTL DEF Spec

\* Whatever the operations, a namespace never grows beyond the limit it has.
THEOREM QuotaCeilingCorrect == Spec => QuotaCeiling
<1> DEFINE Step ==
      \A n \in Namespaces :
        /\ Used(tables', n) > Used(tables, n)
        /\ tables.limit[n] > 0
        /\ ~Restart
        => Used(tables', n) <= tables.limit[n]
<1>1. Init => QuotaInv
  BY EmptyStart, EmptyStored DEF Init, QuotaInv
<1>2. QuotaInv /\ [Next]_vars => QuotaInv' /\ [Step]_vars
  <2> SUFFICES ASSUME QuotaInv, [Next]_vars, ~Restart, Allowed(tables, tables'),
                      NEW n \in Namespaces, Used(tables', n) > Used(tables, n), tables.limit[n] > 0
               PROVE  Used(tables', n) <= tables.limit[n]
    BY QuotaStep
  <2>1. Used(tables', n) \in Nat /\ Used(tables, n) \in Nat /\ tables.limit[n] \in Nat
    BY UsedTyped, Typed DEF QuotaInv, Allowed, SInv, Database
  <2> QED BY <2>1 DEF Allowed
<1> QED
  BY <1>1, <1>2, PTL DEF Spec, QuotaCeiling

\* The one queue table behaves as a FIFO mailbox per namespace and name, for any
\* sets of them, also across a restart.
THEOREM MailboxRefinement == Spec => ImplementsMailboxes
  BY EmptyStart, StorageStep, StartRefines, StepRefines, PTL DEF Spec, ImplementsMailboxes, Boxes!Spec
=============================================================================

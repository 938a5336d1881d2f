------------------------------ MODULE AppProofs ------------------------------
(***************************************************************************)
(* What holds of App for any number of requests, servers, passwords,       *)
(* attempts and writes.  One inductive invariant says who is where: mu     *)
(* and App.comp, whose session is whose, which store is live, which key    *)
(* is in use.  The safety properties of module App follow from it.         *)
(***************************************************************************)
EXTENDS App, TLAPS

\* Who does what.
Roles ==
  \A t \in Threads :
    /\ th[t].pc \in {"load", "serving"} => t \in Servers
    /\ th[t].pc \in {"stat", "open", "read", "work"} => t \in Reqs
    /\ th[t].pc = "detach" => t \notin Servers

\* A request that opens has mu, and meanwhile the app is locked.
MuHeld ==
  /\ mu # NoThread => comp = None
  /\ \A t \in Threads :
       th[t].pc \in {"create", "write", "read", "store", "engine"} => t \in Servers \/ mu = t

\* An attempt's session is its own until the app is unlocked with it.
OwnSession ==
  /\ comp <= opens
  /\ \A t \in Threads :
       /\ th[t].pc \in Opening \cup Holding \cup {"work"} => th[t].on <= opens
       /\ th[t].pc \in Opening \cup Holding =>
            /\ th[t].on # comp
            /\ \A u \in Threads \ {t} :
                 (\/ th[u].pc \in Opening \cup Holding
                  \/ th[u].pc = "work" /\ th[t].pc \notin {"serving", "seal", "release"})
                 => th[u].on # th[t].on

\* Where a store is in its life, from the thread that answers for it.
StoreOfThread ==
  /\ \A n \in Sessions : n > opens => sess[n].pc = "none"
  /\ \A n \in Sessions : sess[n].pc = "none" => sess[n].by = NoThread
  /\ \A t \in Threads :
       LET s == sess[th[t].on] IN
       /\ th[t].pc \in Opening => s.pc = "none"
       /\ th[t].pc \in {"engine", "serving", "seal"} => s.pc = "open"
       /\ th[t].pc = "engine" => ~s.dirty
       /\ th[t].pc = "release" => s.pc = "sealed"
       /\ th[t].pc \in Holding => s.by = Process(t)
  /\ comp # None => sess[comp].pc = "open" /\ sess[comp].by = Main

\* The drive lock belongs to the one store that is not closed.
LockedLive ==
  /\ flock # None => Live(flock)
  /\ \A n \in Sessions : Live(n) => flock = n

\* A reseal under way is of a store that was opened.  flushMu keeps it newer
\* than the blob while it writes.  What it does to a store that is closed is
\* either nothing or was overtaken.
ResealOfStore ==
  /\ overtook => excused
  /\ \A n \in Sessions : sess[n].pc = "closed" => sess[n].dek = Zeroed
  /\ \A r \in Timers : reseal[r].pc # "idle" =>
       LET n == reseal[r].on IN
       /\ sess[n].pc # "none"
       /\ \A t \in Threads : th[t].pc = "engine" => th[t].on # n
       /\ ~Live(n) => overtook \/ reseal[r].gen <= sess[n].done
       /\ reseal[r].pc = "write" =>
            /\ reseal[r].dek \in Sessions \cup {Zeroed}
            /\ reseal[r].gen > sess[n].done
            /\ \A q \in Timers \ {r} : reseal[q].pc = "write" => reseal[q].on # n

\* Nobody has written a key file over another: then all stores, what they are
\* writing, and the blob are under the key in the file, or under a zeroed one.
KeyBound ==
  /\ \A t \in Threads :
       At(t, "create") \/ (At(t, "open") /\ th[t].op = "setup") => th[t].absent
  /\ ~overwrote =>
       /\ blob.dek \in {None, key.dek} \/ (blob.dek = Zeroed /\ overtook)
       /\ \A n \in Sessions : Live(n) => sess[n].dek = key.dek
       /\ \A r \in Timers : reseal[r].pc = "write" =>
            reseal[r].dek = key.dek \/ (reseal[r].dek = Zeroed /\ overtook)
       /\ \A t \in Threads :
            /\ At(t, "store") => th[t].dek = key.dek
            /\ At(t, "write") => key = Torn
            /\ \A u \in Threads \ {t} : ~(At(t, "write") /\ At(u, "write"))

\* A reseal of n is under way with all that was ever written.
Carried(n) ==
  \E r \in Timers : reseal[r].pc # "idle" /\ reseal[r].on = n /\ reseal[r].gen = written

\* Writes are on the drive, or in the open store and marked dirty, or in a
\* reseal of that store.
WritesKept ==
  /\ blob.gen <= written
  /\ \A n \in Sessions : sess[n].ram <= written /\ sess[n].done <= written
  /\ \A r \in Timers : reseal[r].gen <= written
  /\ ~excused =>
       /\ flock = None => blob.gen = written
       /\ flock # None =>
            /\ sess[flock].ram = written
            /\ blob.gen = sess[flock].done
            /\ sess[flock].dirty \/ blob.gen = written \/ Carried(flock)
            /\ sess[flock].pc = "sealed" => ~sess[flock].dirty

\* What the guards let through.
WorkIsAuthorised == \A t \in Threads : At(t, "work") => th[t].cred = th[t].on

AppInv ==
  /\ TypeOK /\ (\A t \in Threads : At(t, "store") => th[t].dek \in Sessions)
  /\ Roles /\ MuHeld /\ OwnSession /\ StoreOfThread /\ LockedLive
  /\ DriveHasOwner /\ ResealOfStore /\ KeyBound /\ WritesKept /\ WorkIsAuthorised

USE DEF None

LEMMA ZeroedKey == Zeroed # None /\ Zeroed \notin Sessions
BY AppAssumption DEF Zeroed, Sessions

LEMMA InitAppInv == Init => AppInv
<1> SUFFICES ASSUME Init PROVE AppInv
  OBVIOUS
<1> USE DEF Init, At, Live, Idle, NoStore, NoKey, NoReseal
<1>1. TypeOK
  <2>1. key \in KeyFile /\ blob \in [dek : Sessions \cup {None}, gen : 0..MaxWrites]
    BY AppAssumption DEF KeyFile
  <2>2. sess \in [Sessions -> StoreState] /\ reseal \in [Timers -> ResealState]
    BY AppAssumption DEF StoreState, ResealState
  <2>3. th \in [Threads -> ThreadState]
    BY DEF ThreadState
  <2>4. opens \in 0..MaxOpens /\ written \in 0..MaxWrites
    BY AppAssumption
  <2> QED
    BY <2>1, <2>2, <2>3, <2>4 DEF TypeOK, Opening, Holding
<1>2. (\A t \in Threads : At(t, "store") => th[t].dek \in Sessions) /\ Roles /\ MuHeld
  BY DEF Roles, MuHeld
<1>3. OwnSession /\ WorkIsAuthorised
  BY DEF OwnSession, Opening, Holding, WorkIsAuthorised
<1>4. StoreOfThread
  BY DEF StoreOfThread, Opening, Holding
<1>5. LockedLive /\ DriveHasOwner /\ ResealOfStore /\ WritesKept
  BY DEF LockedLive, DriveHasOwner, ResealOfStore, WritesKept, Sessions
<1>6. KeyBound
  BY DEF KeyBound
<1> QED
  BY <1>1, <1>2, <1>3, <1>4, <1>5, <1>6 DEF AppInv

\* A thread that answers for no store goes where it holds nothing.
LEMMA FreeMove ==
  ASSUME AppInv, NEW t \in Threads, NEW r \in ThreadState,
         th[t].pc \notin Holding,
         th' = [th EXCEPT ![t] = r],
         r.pc \in {"idle", "detach", "exit"},
         r.pc = "detach" => t \notin Servers,
         UNCHANGED <<drive, opens, comp, history>>,
         stale' \in BOOLEAN, away' \in BOOLEAN,
         mu' = mu \/ (mu = t /\ mu' = NoThread)
  PROVE  AppInv'
<1> USE DEF At, Live, drive, flush, history
<1>1. \A u \in Threads : th'[u] = IF u = t THEN r ELSE th[u]
  BY DEF AppInv, TypeOK
<1>2. TypeOK'
  <2>1. th' \in [Threads -> ThreadState]
    BY DEF AppInv, TypeOK
  <2> QED
    BY <1>1, <2>1 DEF AppInv, TypeOK, Opening, Holding
<1>3. (\A u \in Threads : At(u, "store") => th[u].dek \in Sessions)' /\ Roles' /\ WorkIsAuthorised'
  BY <1>1 DEF AppInv, Roles, WorkIsAuthorised
<1>4. MuHeld'
  BY <1>1, AppAssumption DEF AppInv, MuHeld
<1>5. OwnSession'
  BY <1>1 DEF AppInv, OwnSession, Opening, Holding
<1>6. StoreOfThread'
  BY <1>1 DEF AppInv, StoreOfThread, Opening, Holding
<1>7. LockedLive' /\ ResealOfStore' /\ WritesKept'
  BY <1>1 DEF AppInv, LockedLive, ResealOfStore, WritesKept, Carried
<1>8. DriveHasOwner'
  BY <1>1 DEF AppInv, DriveHasOwner
<1>9. KeyBound'
  BY <1>1 DEF AppInv, KeyBound
<1> QED
  BY <1>2, <1>3, <1>4, <1>5, <1>6, <1>7, <1>8, <1>9 DEF AppInv

\* An attempt goes on before its store is open, without touching the key file.
LEMMA OpeningMove ==
  ASSUME AppInv, NEW t \in Threads, NEW r \in ThreadState,
         th[t].pc \in Opening,
         th' = [th EXCEPT ![t] = r],
         r.pc \in {"open", "create", "read", "store"}, r.on = th[t].on, r.pw = th[t].pw,
         r.pc \in {"open", "read"} => t \in Reqs,
         r.pc \in {"create", "read", "store"} => t \in Servers \/ mu' = t,
         r.pc = "store" => r.dek = key.dek /\ key.dek \in Sessions,
         r.pc = "create" \/ (r.pc = "open" /\ r.op = "setup") => r.absent,
         UNCHANGED <<drive, opens, comp, history>>,
         stale' \in BOOLEAN, away' \in BOOLEAN,
         mu' = mu \/ (mu = NoThread /\ comp = None /\ mu' = t)
  PROVE  AppInv'
<1> USE DEF At, Live, drive, flush, history
<1>1. \A u \in Threads : th'[u] = IF u = t THEN r ELSE th[u]
  BY DEF AppInv, TypeOK
<1>2. TypeOK'
  <2>1. th' \in [Threads -> ThreadState]
    BY DEF AppInv, TypeOK
  <2> QED
    BY <1>1, <2>1 DEF AppInv, TypeOK, Opening, Holding
<1>3. (\A u \in Threads : At(u, "store") => th[u].dek \in Sessions)' /\ Roles' /\ WorkIsAuthorised'
  BY <1>1 DEF AppInv, Roles, WorkIsAuthorised
<1>4. MuHeld'
  BY <1>1, AppAssumption DEF AppInv, MuHeld
<1>5. OwnSession'
  BY <1>1 DEF AppInv, OwnSession, Opening, Holding
<1>6. StoreOfThread'
  BY <1>1 DEF AppInv, StoreOfThread, Opening, Holding
<1>7. LockedLive' /\ ResealOfStore' /\ WritesKept'
  BY <1>1 DEF AppInv, LockedLive, ResealOfStore, WritesKept, Carried
<1>8. DriveHasOwner'
  BY <1>1 DEF AppInv, DriveHasOwner, Opening, Holding
<1>9. KeyBound'
  BY <1>1 DEF AppInv, KeyBound
<1> QED
  BY <1>2, <1>3, <1>4, <1>5, <1>6, <1>7, <1>8, <1>9 DEF AppInv

\* An attempt begins.
LEMMA NewAttempt ==
  ASSUME AppInv, NEW t \in Threads, NEW r \in ThreadState,
         At(t, "idle"), opens < MaxOpens, opens' = opens + 1,
         th' = [th EXCEPT ![t] = r],
         r.pc \in {"stat", "open", "load"}, r.on = opens + 1, r.pw \in Passwords,
         r.pc = "open" => r.op # "setup",
         IF r.pc = "load" THEN t \in Servers ELSE t \in Reqs,
         UNCHANGED <<drive, comp, mu, history>>,
         stale' \in BOOLEAN, away' \in BOOLEAN
  PROVE  AppInv'
<1> USE DEF At, Live, drive, flush, history
<1>1. \A u \in Threads : th'[u] = IF u = t THEN r ELSE th[u]
  BY DEF AppInv, TypeOK
<1>2. opens' \in Sessions /\ opens' \in 0..MaxOpens /\ opens \in Nat
  BY AppAssumption DEF AppInv, TypeOK, Sessions
<1>3. TypeOK'
  <2>1. th' \in [Threads -> ThreadState]
    BY DEF AppInv, TypeOK
  <2> QED
    BY <1>1, <1>2, <2>1 DEF AppInv, TypeOK, Opening, Holding
<1>4. (\A u \in Threads : At(u, "store") => th[u].dek \in Sessions)' /\ Roles' /\ WorkIsAuthorised'
  BY <1>1 DEF AppInv, Roles, WorkIsAuthorised
<1>5. MuHeld'
  BY <1>1, AppAssumption DEF AppInv, MuHeld
<1>6. \A u \in Threads : th[u].pc \in Opening \cup Holding \cup {"work"} => th[u].on < opens'
  BY <1>2, AppAssumption DEF AppInv, TypeOK, OwnSession, Sessions
<1>7. comp < opens'
  BY <1>2 DEF AppInv, OwnSession, TypeOK, Sessions
<1>8. OwnSession'
  <2>1. comp' <= opens'
    BY <1>2, <1>7 DEF AppInv, TypeOK, Sessions
  <2>2. ASSUME NEW u \in Threads, (th[u].pc \in Opening \cup Holding \cup {"work"})'
        PROVE  (th[u].on <= opens)'
    BY <1>1, <1>2, <1>6, <2>2 DEF AppInv, TypeOK, Sessions
  <2>3. ASSUME NEW u \in Threads, (th[u].pc \in Opening \cup Holding)'
        PROVE  (th[u].on # comp)'
    BY <1>1, <1>2, <1>7, <2>3, AppAssumption DEF AppInv, TypeOK, OwnSession, Sessions
  <2>4. ASSUME NEW u \in Threads, (th[u].pc \in Opening \cup Holding)', NEW v \in Threads \ {u},
               \/ (th[v].pc \in Opening \cup Holding)'
               \/ (th[v].pc = "work" /\ th[u].pc \notin {"serving", "seal", "release"})'
        PROVE  (th[v].on # th[u].on)'
    <3>1. th'[u].on <= opens' /\ (u # t => th'[u].on < opens')
      BY <1>1, <1>2, <1>6, <2>4, <2>2
    <3>2. v # t => th'[v].on < opens'
      BY <1>1, <1>2, <1>6, <2>4
    <3>3. CASE u = t \/ v = t
      BY <1>1, <1>2, <3>1, <3>2, <3>3 DEF Sessions
    <3>4. CASE u # t /\ v # t
      BY <1>1, <2>4, <3>4 DEF AppInv, OwnSession
    <3> QED
      BY <3>3, <3>4
  <2> QED
    BY <2>1, <2>2, <2>3, <2>4 DEF OwnSession
<1>9. StoreOfThread'
  <2>1. sess[opens'].pc = "none"
    BY <1>2 DEF AppInv, StoreOfThread
  <2>2. \A n \in Sessions : n > opens' => sess[n].pc = "none"
    BY <1>2 DEF AppInv, StoreOfThread, Sessions
  <2> QED
    BY <1>1, <2>1, <2>2 DEF AppInv, StoreOfThread, Opening, Holding
<1>10. LockedLive' /\ ResealOfStore' /\ WritesKept'
  BY <1>1 DEF AppInv, LockedLive, ResealOfStore, WritesKept, Carried
<1>11. DriveHasOwner'
  BY <1>1 DEF AppInv, DriveHasOwner, Holding
<1>12. KeyBound'
  BY <1>1 DEF AppInv, KeyBound
<1> QED
  BY <1>3, <1>4, <1>5, <1>8, <1>9, <1>10, <1>11, <1>12 DEF AppInv

\* A request is let in, to the session whose credential it has.
LEMMA LetIn ==
  ASSUME AppInv, NEW t \in Reqs, NEW r \in ThreadState,
         th[t].pc = "idle", comp # None,
         th' = [th EXCEPT ![t] = r],
         r.pc = "work", r.on = comp, r.cred = comp,
         UNCHANGED <<drive, opens, comp, mu, history>>,
         stale' \in BOOLEAN, away' \in BOOLEAN
  PROVE  AppInv'
<1> USE DEF At, Live, drive, flush, history
<1>1. t \in Threads /\ comp \in Sessions
  BY DEF Threads, AppInv, TypeOK
<1>2. \A u \in Threads : th'[u] = IF u = t THEN r ELSE th[u]
  BY DEF AppInv, TypeOK
<1>3. TypeOK'
  <2>1. th' \in [Threads -> ThreadState]
    BY DEF AppInv, TypeOK
  <2> QED
    BY <1>1, <1>2, <2>1 DEF AppInv, TypeOK, Opening, Holding
<1>4. (\A u \in Threads : At(u, "store") => th[u].dek \in Sessions)' /\ Roles' /\ WorkIsAuthorised'
  BY <1>1, <1>2 DEF AppInv, Roles, WorkIsAuthorised
<1>5. MuHeld' /\ LockedLive' /\ ResealOfStore' /\ WritesKept'
  BY <1>1, <1>2 DEF AppInv, MuHeld, LockedLive, ResealOfStore, WritesKept, Carried
<1>6. OwnSession'
  BY <1>1, <1>2 DEF AppInv, OwnSession, Opening, Holding
<1>7. StoreOfThread'
  BY <1>1, <1>2 DEF AppInv, StoreOfThread, Opening, Holding
<1>8. DriveHasOwner'
  BY <1>1, <1>2 DEF AppInv, DriveHasOwner, Holding
<1>9. KeyBound'
  BY <1>1, <1>2 DEF AppInv, KeyBound
<1> QED
  BY <1>3, <1>4, <1>5, <1>6, <1>7, <1>8, <1>9 DEF AppInv

LEMMA StopServingAppInv == ASSUME AppInv, NEW t \in Servers, StopServing(t) PROVE AppInv'
<1> USE DEF At, Live, drive, flush, history, app
<1> DEFINE r == [th[t] EXCEPT !.pc = "seal", !.op = "stop"]
<1>1. t \in Threads /\ th[t].pc = "serving"
  BY DEF Threads, StopServing
<1>2. th' = [th EXCEPT ![t] = r] /\ UNCHANGED <<drive, opens, app, history>>
  BY <1>1 DEF StopServing, AppInv, TypeOK, ThreadState
<1>3. r \in ThreadState /\ r.pc = "seal" /\ r.on = th[t].on
  <2>1. th[t] \in ThreadState
    BY <1>1 DEF AppInv, TypeOK
  <2> QED
    BY <2>1 DEF ThreadState, Holding
<1> HIDE DEF r
<1>4. \A u \in Threads : th'[u] = IF u = t THEN r ELSE th[u]
  BY <1>2 DEF AppInv, TypeOK
<1>5. TypeOK'
  <2>1. th' \in [Threads -> ThreadState]
    BY <1>1, <1>2, <1>3 DEF AppInv, TypeOK
  <2> QED
    BY <1>1, <1>2, <1>3, <1>4, <2>1 DEF AppInv, TypeOK, Opening, Holding
<1>6. (\A u \in Threads : At(u, "store") => th[u].dek \in Sessions)' /\ Roles' /\ WorkIsAuthorised'
  BY <1>1, <1>2, <1>3, <1>4 DEF AppInv, Roles, WorkIsAuthorised
<1>7. MuHeld' /\ LockedLive' /\ ResealOfStore' /\ WritesKept'
  BY <1>1, <1>2, <1>3, <1>4 DEF AppInv, MuHeld, LockedLive, ResealOfStore, WritesKept, Carried
<1>8. OwnSession'
  BY <1>1, <1>2, <1>3, <1>4 DEF AppInv, OwnSession, Opening, Holding
<1>9. StoreOfThread'
  BY <1>1, <1>2, <1>3, <1>4 DEF AppInv, StoreOfThread, Opening, Holding
<1>10. DriveHasOwner'
  BY <1>1, <1>2, <1>3, <1>4 DEF AppInv, DriveHasOwner, Holding
<1>11. KeyBound'
  BY <1>1, <1>2, <1>3, <1>4 DEF AppInv, KeyBound
<1> QED
  BY <1>5, <1>6, <1>7, <1>8, <1>9, <1>10, <1>11 DEF AppInv

LEMMA TruncateAppInv == ASSUME AppInv, NEW t \in Threads, Truncate(t) PROVE AppInv'
<1> USE DEF At, Live, drive, flush, history, app
<1> DEFINE r == [th[t] EXCEPT !.pc = "write", !.absent = FALSE]
<1>1. /\ th' = [th EXCEPT ![t] = r] /\ th[t].pc = "create" /\ key' = Torn
      /\ overwrote' = (overwrote \/ (th[t].absent /\ key # NoKey))
      /\ UNCHANGED <<blob, flock, sess, flush, opens, app, history>>
  BY DEF Truncate, AppInv, TypeOK, ThreadState
<1>2. r \in ThreadState /\ r.pc = "write" /\ r.on = th[t].on /\ r.pw = th[t].pw
  <2>1. th[t] \in ThreadState
    BY DEF AppInv, TypeOK
  <2> QED
    BY <2>1 DEF ThreadState, Opening
<1> HIDE DEF r
<1>3. \A u \in Threads : th'[u] = IF u = t THEN r ELSE th[u]
  BY <1>1 DEF AppInv, TypeOK
<1>4. TypeOK'
  <2>1. th' \in [Threads -> ThreadState]
    BY <1>1, <1>2 DEF AppInv, TypeOK
  <2>2. key' \in KeyFile
    BY <1>1 DEF KeyFile
  <2> QED
    BY <1>1, <1>2, <1>3, <2>1, <2>2 DEF AppInv, TypeOK, Opening, Holding
<1>5. (\A u \in Threads : At(u, "store") => th[u].dek \in Sessions)' /\ Roles' /\ WorkIsAuthorised'
  BY <1>1, <1>2, <1>3 DEF AppInv, Roles, WorkIsAuthorised
<1>6. MuHeld' /\ LockedLive' /\ ResealOfStore' /\ WritesKept'
  BY <1>1, <1>2, <1>3 DEF AppInv, MuHeld, LockedLive, ResealOfStore, WritesKept, Carried
<1>7. OwnSession'
  BY <1>1, <1>2, <1>3 DEF AppInv, OwnSession, Opening, Holding
<1>8. StoreOfThread'
  BY <1>1, <1>2, <1>3 DEF AppInv, StoreOfThread, Opening, Holding
<1>9. DriveHasOwner'
  BY <1>1, <1>2, <1>3 DEF AppInv, DriveHasOwner, Holding
<1>10. KeyBound'
  <2>1. \A u \in Threads :
          (At(u, "create") \/ (At(u, "open") /\ th[u].op = "setup"))' => th'[u].absent
    BY <1>2, <1>3 DEF AppInv, KeyBound
  <2>2. SUFFICES ASSUME ~overwrote' PROVE KeyBound'
    BY <2>1 DEF KeyBound
  <2>3. key = NoKey /\ ~overwrote
    BY <1>1, <2>2 DEF AppInv, KeyBound
  <2>4. key.dek = None /\ key # Torn /\ key'.dek = None
    BY <1>1, <2>3 DEF NoKey, Torn
  <2>5. blob'.dek = None \/ (blob'.dek = Zeroed /\ overtook')
    BY <1>1, <2>3, <2>4 DEF AppInv, KeyBound
  <2>8. \A x \in Timers : reseal[x].pc = "write" => reseal[x].dek = Zeroed /\ overtook
    BY <2>3, <2>4, ZeroedKey DEF AppInv, KeyBound, ResealOfStore, Sessions
  <2>6. \A n \in Sessions : ~Live(n)
    BY <2>3, <2>4 DEF AppInv, KeyBound, TypeOK, Sessions
  <2>7. \A u \in Threads : th[u].pc \notin {"store", "write"}
    BY <2>3, <2>4 DEF AppInv, KeyBound, Sessions
  <2> QED
    BY <1>1, <1>2, <1>3, <2>1, <2>4, <2>5, <2>6, <2>7, <2>8 DEF KeyBound
<1> QED
  BY <1>4, <1>5, <1>6, <1>7, <1>8, <1>9, <1>10 DEF AppInv

LEMMA WriteKeyAppInv == ASSUME AppInv, NEW t \in Threads, WriteKey(t) PROVE AppInv'
<1> USE DEF At, Live, drive, flush, history, app
<1> DEFINE r == [th[t] EXCEPT !.pc = "store", !.dek = th[t].on]
<1>1. /\ th' = [th EXCEPT ![t] = r] /\ th[t].pc = "write" /\ key' = Envelope(th[t].pw, th[t].on)
      /\ UNCHANGED <<blob, flock, sess, flush, overwrote, opens, app, history>>
  BY DEF WriteKey, AppInv, TypeOK, ThreadState
<1>2. th[t] \in ThreadState /\ th[t].on \in Sessions /\ th[t].pw \in Passwords
  BY <1>1 DEF AppInv, TypeOK, Opening
<1>3. r \in ThreadState /\ r.pc = "store" /\ r.on = th[t].on /\ r.dek = th[t].on /\ r.pw = th[t].pw
  BY <1>2 DEF ThreadState, Opening
<1> HIDE DEF r
<1>4. \A u \in Threads : th'[u] = IF u = t THEN r ELSE th[u]
  BY <1>1 DEF AppInv, TypeOK
<1>5. TypeOK'
  <2>1. th' \in [Threads -> ThreadState]
    BY <1>1, <1>3 DEF AppInv, TypeOK
  <2>2. key' \in KeyFile
    BY <1>1, <1>2 DEF KeyFile, ThreadState
  <2> QED
    BY <1>1, <1>2, <1>3, <1>4, <2>1, <2>2 DEF AppInv, TypeOK, Opening, Holding
<1>6. (\A u \in Threads : At(u, "store") => th[u].dek \in Sessions)' /\ Roles' /\ WorkIsAuthorised'
  BY <1>1, <1>2, <1>3, <1>4 DEF AppInv, Roles, WorkIsAuthorised
<1>7. MuHeld' /\ LockedLive' /\ ResealOfStore' /\ WritesKept'
  BY <1>1, <1>3, <1>4 DEF AppInv, MuHeld, LockedLive, ResealOfStore, WritesKept, Carried
<1>8. OwnSession'
  BY <1>1, <1>3, <1>4 DEF AppInv, OwnSession, Opening, Holding
<1>9. StoreOfThread'
  BY <1>1, <1>3, <1>4 DEF AppInv, StoreOfThread, Opening, Holding
<1>10. DriveHasOwner'
  BY <1>1, <1>3, <1>4 DEF AppInv, DriveHasOwner, Holding
<1>11. KeyBound'
  <2>1. \A u \in Threads :
          (At(u, "create") \/ (At(u, "open") /\ th[u].op = "setup"))' => th'[u].absent
    BY <1>3, <1>4 DEF AppInv, KeyBound
  <2>2. SUFFICES ASSUME ~overwrote PROVE KeyBound'
    BY <1>1, <2>1 DEF KeyBound
  <2>3. key = Torn /\ key.dek = None /\ key'.dek = th[t].on
    BY <1>1, <2>2 DEF AppInv, KeyBound, Torn, Envelope
  <2>4. blob'.dek = None \/ (blob'.dek = Zeroed /\ overtook')
    BY <1>1, <2>2, <2>3 DEF AppInv, KeyBound
  <2>7. \A x \in Timers : reseal[x].pc = "write" => reseal[x].dek = Zeroed /\ overtook
    BY <2>2, <2>3, ZeroedKey DEF AppInv, KeyBound, ResealOfStore, Sessions
  <2>5. \A n \in Sessions : ~Live(n)
    BY <2>2, <2>3 DEF AppInv, KeyBound, TypeOK, Sessions
  <2>6. \A u \in Threads : th[u].pc # "store" /\ (u # t => th[u].pc # "write")
    BY <1>1, <2>2, <2>3 DEF AppInv, KeyBound, Sessions
  <2> QED
    BY <1>1, <1>3, <1>4, <2>1, <2>3, <2>4, <2>5, <2>6, <2>7 DEF KeyBound
<1> QED
  BY <1>5, <1>6, <1>7, <1>8, <1>9, <1>10, <1>11 DEF AppInv

LEMMA OpenStoreAppInv == ASSUME AppInv, NEW t \in Threads, OpenStore(t) PROVE AppInv'
<1> USE DEF At, Live, drive, flush, history, app
<1> DEFINE n == th[t].on
           r == [Idle EXCEPT !.pc = "engine", !.on = n]
           s == [NoStore EXCEPT !.pc = "open", !.by = Process(t), !.dek = th[t].dek,
                                !.ram = blob.gen, !.done = blob.gen]
<1>1. /\ th[t].pc = "store" /\ flock = None /\ flock' = n
      /\ sess' = [sess EXCEPT ![n] = s] /\ th' = [th EXCEPT ![t] = r]
      /\ UNCHANGED <<key, blob, flush, overwrote, opens, app, history>>
  BY DEF OpenStore, DriveFree
<1>2. n \in Sessions /\ th[t].dek \in Sessions /\ n # None
  BY <1>1 DEF AppInv, TypeOK, Opening, Sessions
<1>3. r \in ThreadState /\ r.pc = "engine" /\ r.on = n
  BY <1>2 DEF ThreadState, Idle, Holding
<1>4. /\ s \in StoreState /\ s.pc = "open" /\ s.by = Process(t) /\ s.dek = th[t].dek
      /\ s.ram = blob.gen /\ s.done = blob.gen /\ ~s.dirty
  <2>1. Process(t) \in Servers \cup {Main, NoThread}
    BY DEF Process
  <2>2. blob.gen \in 0..MaxWrites
    BY DEF AppInv, TypeOK
  <2> QED
    BY <1>2, <2>1, <2>2 DEF NoStore, StoreState
<1> HIDE DEF r, s
<1>5. \A u \in Threads : th'[u] = IF u = t THEN r ELSE th[u]
  BY <1>1 DEF AppInv, TypeOK
<1>6. \A m \in Sessions : sess'[m] = IF m = n THEN s ELSE sess[m]
  BY <1>1 DEF AppInv, TypeOK
<1>7. /\ \A m \in Sessions : ~Live(m)
      /\ \A x \in Timers : reseal[x].pc # "idle" => reseal[x].on \in Sessions \ {n}
  <2>1. \A m \in Sessions : ~Live(m)
    BY <1>1 DEF AppInv, LockedLive, Sessions
  <2>2. sess[n].pc = "none"
    BY <1>1 DEF AppInv, StoreOfThread, Opening
  <2> QED
    BY <2>1, <2>2 DEF AppInv, TypeOK, ResealOfStore
<1>8. TypeOK'
  <2>1. th' \in [Threads -> ThreadState]
    BY <1>1, <1>3 DEF AppInv, TypeOK
  <2>2. sess' \in [Sessions -> StoreState]
    BY <1>1, <1>4 DEF AppInv, TypeOK
  <2>3. \A u \in Threads : th'[u].pc \in Opening \cup Holding \cup {"work"} => th'[u].on \in Sessions
    BY <1>2, <1>3, <1>5 DEF AppInv, TypeOK
  <2>4. \A u \in Threads : th'[u].pc \in Opening => th'[u].pw \in Passwords
    BY <1>3, <1>5 DEF AppInv, TypeOK, Opening
  <2>5. \A m \in Sessions : sess'[m].pc \in {"open", "sealed"} => sess'[m].dek \in Sessions
    BY <1>2, <1>4, <1>6 DEF AppInv, TypeOK
  <2> QED
    BY <1>1, <1>2, <2>1, <2>2, <2>3, <2>4, <2>5 DEF AppInv, TypeOK
<1>9. (\A u \in Threads : At(u, "store") => th[u].dek \in Sessions)' /\ Roles' /\ WorkIsAuthorised'
  BY <1>3, <1>5 DEF AppInv, Roles, WorkIsAuthorised
<1>10. MuHeld'
  BY <1>1, <1>3, <1>5 DEF AppInv, MuHeld
<1>11. OwnSession'
  BY <1>1, <1>3, <1>5 DEF AppInv, OwnSession, Opening, Holding
<1>12. StoreOfThread'
  <2>1. \A m \in Sessions : m > opens' => sess'[m].pc = "none"
    BY <1>1, <1>6 DEF AppInv, StoreOfThread, OwnSession, Opening, Sessions, TypeOK
  <2>2. comp' = comp /\ comp = None
    BY <1>1, <1>7 DEF AppInv, StoreOfThread, TypeOK
  <2>3. ASSUME NEW u \in Threads, u # t
        PROVE  /\ th[u].pc \in Opening => th'[u].on # n
               /\ th[u].pc \notin Holding
    <3>1. th[u].pc \in Opening => th[u].on # n
      BY <1>1, <2>3 DEF AppInv, OwnSession, Opening
    <3>2. th[u].pc \notin Holding
      BY <1>7 DEF AppInv, StoreOfThread, TypeOK, Holding
    <3> QED
      BY <1>5, <2>3, <3>1, <3>2
  <2>4. ASSUME NEW u \in Threads, u # t
        PROVE  /\ th'[u].pc \in Opening => sess'[th'[u].on].pc = "none"
               /\ th'[u].pc \notin Holding
    BY <1>5, <1>6, <2>3, <2>4 DEF AppInv, StoreOfThread, TypeOK
  <2>5. th'[t].pc = "engine" /\ sess'[th'[t].on] = s
    BY <1>2, <1>3, <1>5, <1>6
  <2>6. \A m \in Sessions : sess'[m].pc = "none" => sess'[m].by = NoThread
    BY <1>4, <1>6 DEF AppInv, StoreOfThread
  <2> QED
    BY <1>4, <2>1, <2>2, <2>4, <2>5, <2>6 DEF StoreOfThread, Opening, Holding
<1>13. LockedLive'
  BY <1>1, <1>2, <1>4, <1>6, <1>7 DEF LockedLive
<1>14. WritesKept' /\ ResealOfStore'
  <2>1. WritesKept'
    BY <1>1, <1>2, <1>4, <1>6 DEF AppInv, WritesKept
  <2>2. ResealOfStore'
    BY <1>1, <1>2, <1>3, <1>4, <1>5, <1>6, <1>7 DEF AppInv, ResealOfStore
  <2> QED
    BY <2>1, <2>2
<1>15. DriveHasOwner'
  BY <1>1, <1>3, <1>5 DEF DriveHasOwner, Holding
<1>16. KeyBound'
  <2>1. \A u \in Threads :
          (At(u, "create") \/ (At(u, "open") /\ th[u].op = "setup"))' => th'[u].absent
    BY <1>3, <1>5 DEF AppInv, KeyBound
  <2>2. ~overwrote => th[t].dek = key.dek
    BY <1>1 DEF AppInv, KeyBound
  <2>3. ~overwrote => \A m \in Sessions : Live(m)' => sess'[m].dek = key'.dek
    BY <1>1, <1>4, <1>6, <1>7, <2>2
  <2> QED
    BY <1>1, <1>3, <1>5, <2>1, <2>3 DEF AppInv, KeyBound
<1> QED
  BY <1>8, <1>9, <1>10, <1>11, <1>12, <1>13, <1>14, <1>15, <1>16 DEF AppInv

\* A thread gives its store back.
LEMMA CloseMove ==
  ASSUME AppInv, NEW t \in Threads, NEW r \in ThreadState,
         th[t].pc \in {"engine", "release"},
         Closed(th[t].on),
         th' = [th EXCEPT ![t] = r],
         r.pc \in {"idle", "exit"},
         UNCHANGED <<key, blob, reseal, overwrote, opens, comp, stale, away, written>>,
         mu' = mu \/ (mu = t /\ mu' = NoThread)
  PROVE  AppInv'
<1> USE DEF At, Live
<1> DEFINE n == th[t].on
<1>1. \A u \in Threads : th'[u] = IF u = t THEN r ELSE th[u]
  BY DEF AppInv, TypeOK
<1>2. n \in Sessions /\ Live(n) /\ flock = n /\ n # None /\ n # comp
  BY DEF AppInv, TypeOK, Holding, StoreOfThread, LockedLive, Sessions, OwnSession
<1>3. \A m \in Sessions : sess'[m] =
        IF m = n THEN [sess[m] EXCEPT !.pc = "closed", !.ram = 0, !.dek = Zeroed] ELSE sess[m]
  <2> DEFINE z == [sess[n] EXCEPT !.pc = "closed", !.ram = 0, !.dek = Zeroed]
  <2>1. sess' = [sess EXCEPT ![n] = z]
    BY DEF Closed
  <2>2. \A m \in Sessions : sess'[m] = IF m = n THEN z ELSE sess[m]
    <3> HIDE DEF z
    <3> QED BY <2>1 DEF AppInv, TypeOK
  <2> QED BY <2>2
<1>4. flock' = None /\ overtook' = (overtook \/ Unfinished(n)) /\ excused' = (excused \/ Unfinished(n))
  BY <1>2 DEF Closed
<1>5. ASSUME NEW m \in Sessions
      PROVE  /\ sess'[m] \in StoreState
             /\ m # n => sess'[m] = sess[m]
             /\ m = n => sess'[m].pc = "closed" /\ sess'[m].dek = Zeroed /\ sess'[m].ram = 0
             /\ sess'[m].done = sess[m].done
  <2>1. sess[m] \in StoreState /\ 0 \in 0..MaxWrites
    BY AppAssumption DEF AppInv, TypeOK
  <2>2. CASE m = n
    <3>1. sess'[m] = [sess[m] EXCEPT !.pc = "closed", !.ram = 0, !.dek = Zeroed]
      BY <1>3, <2>2
    <3> QED
      BY <2>1, <2>2, <3>1 DEF StoreState
  <2>3. CASE m # n
    BY <1>3, <2>1, <2>3
  <2> QED
    BY <2>2, <2>3
<1>6. TypeOK'
  <2>1. th' \in [Threads -> ThreadState]
    BY DEF AppInv, TypeOK
  <2>2. sess' \in [Sessions -> StoreState]
    <3>1. sess' = [m \in Sessions |-> sess'[m]]
      BY DEF Closed, AppInv, TypeOK
    <3> QED
      BY <1>5, <3>1
  <2>3. \A m \in Sessions : sess'[m].pc \in {"open", "sealed"} => sess'[m].dek \in Sessions
    BY <1>5 DEF AppInv, TypeOK
  <2>4. overtook' \in BOOLEAN /\ excused' \in BOOLEAN
    BY <1>4 DEF AppInv, TypeOK, Unfinished
  <2> QED
    BY <1>1, <1>4, <2>1, <2>2, <2>3, <2>4 DEF AppInv, TypeOK, Opening, Holding
<1>7. (\A u \in Threads : At(u, "store") => th[u].dek \in Sessions)' /\ Roles' /\ WorkIsAuthorised'
  BY <1>1 DEF AppInv, Roles, WorkIsAuthorised
<1>8. MuHeld'
  BY <1>1, AppAssumption DEF AppInv, MuHeld
<1>9. OwnSession'
  BY <1>1 DEF AppInv, OwnSession, Opening, Holding
<1>10. StoreOfThread'
  <2>1. \A m \in Sessions : m > opens' => sess'[m].pc = "none"
    BY <1>2, <1>5 DEF AppInv, StoreOfThread
  <2>2. ASSUME NEW u \in Threads, th'[u].pc \in Opening \cup Holding
        PROVE  u # t /\ th'[u] = th[u] /\ sess'[th'[u].on] = sess[th[u].on]
    <3>1. u # t /\ th'[u] = th[u]
      BY <1>1, <2>2 DEF Opening, Holding
    <3>2. th[u].on # n /\ th[u].on \in Sessions
      BY <2>2, <3>1 DEF AppInv, OwnSession, TypeOK, Holding
    <3> QED
      BY <1>3, <3>1, <3>2
  <2>3. comp # None => sess'[comp] = sess[comp]
    BY <1>2, <1>3 DEF AppInv, TypeOK
  <2>4. \A m \in Sessions : sess'[m].pc = "none" => sess'[m].by = NoThread
    BY <1>5 DEF AppInv, StoreOfThread
  <2> QED
    BY <2>1, <2>2, <2>3, <2>4 DEF AppInv, StoreOfThread, Opening, Holding
<1>11. LockedLive' /\ DriveHasOwner'
  BY <1>2, <1>3, <1>4, <1>5 DEF AppInv, LockedLive, DriveHasOwner
<1>12. WritesKept'
  <2>1. /\ sess[n].ram \in Nat /\ sess[n].done \in Nat /\ written \in Nat /\ blob.gen <= written
        /\ sess[n].done <= written
        /\ \A x \in Timers : reseal[x].gen \in Nat
    BY <1>2, AppAssumption DEF AppInv, TypeOK, StoreState, ResealState, WritesKept
  <2>2. ASSUME ~excused' PROVE blob.gen = written
    <3>1. ~excused /\ ~Unfinished(n) /\ ~sess[n].dirty
      BY <1>2, <1>4, <2>2 DEF AppInv, WritesKept, StoreOfThread
    <3>2. blob.gen = sess[n].done /\ (blob.gen = written \/ Carried(n))
      BY <1>2, <3>1 DEF AppInv, WritesKept
    <3>3. CASE Carried(n)
      <4>1. ~(written > sess[n].done)
        BY <3>1, <3>3 DEF Carried, Unfinished
      <4> QED
        BY <2>1, <3>2, <4>1
    <3> QED
      BY <3>2, <3>3
  <2>3. \A m \in Sessions : sess'[m].ram <= written /\ sess'[m].done <= written
    BY <1>5, <2>1 DEF AppInv, WritesKept
  <2> QED
    BY <1>4, <2>2, <2>3 DEF AppInv, WritesKept
<1>13. KeyBound'
  <2>1. overtook => overtook'
    BY <1>4
  <2>2. \A m \in Sessions : Live(m)' => Live(m) /\ sess'[m].dek = sess[m].dek
    BY <1>5
  <2>3. \A u \in Threads : th'[u].pc \in {"open", "create", "write", "store"} => th'[u] = th[u]
    BY <1>1
  <2> QED
    BY <2>1, <2>2, <2>3 DEF AppInv, KeyBound
<1>14. ResealOfStore'
  <2>1. ASSUME NEW x \in Timers, reseal[x].pc # "idle"
        PROVE  /\ reseal[x].on \in Sessions /\ reseal[x].gen \in Nat
               /\ reseal[x].on = n => overtook' \/ reseal[x].gen <= sess[n].done
    <3>1. reseal[x].on \in Sessions /\ reseal[x].gen \in Nat /\ sess[n].done \in Nat
      BY <1>2, <2>1 DEF AppInv, TypeOK, ResealState, StoreState
    <3>2. reseal[x].on = n /\ reseal[x].gen > sess[n].done => Unfinished(n)
      BY <2>1 DEF Unfinished
    <3>3. reseal[x].gen > sess[n].done \/ reseal[x].gen <= sess[n].done
      BY <3>1
    <3> QED
      BY <1>4, <3>1, <3>2, <3>3
  <2>2. overtook' => excused'
    BY <1>4 DEF AppInv, ResealOfStore
  <2>3. \A m \in Sessions : sess'[m].pc = "closed" => sess'[m].dek = Zeroed
    BY <1>5 DEF AppInv, ResealOfStore
  <2>4. \A u \in Threads : th'[u].pc = "engine" => th'[u] = th[u]
    BY <1>1
  <2>5. ASSUME NEW x \in Timers, reseal[x].pc # "idle", NEW m \in Sessions, m = reseal[x].on
        PROVE  /\ sess'[m].pc # "none" /\ sess'[m].done = sess[m].done
               /\ ~Live(m)' => overtook' \/ reseal[x].gen <= sess'[m].done
    <3>1. sess[m].pc # "none" /\ (~Live(m) => overtook \/ reseal[x].gen <= sess[m].done)
      BY <2>5 DEF AppInv, ResealOfStore
    <3> QED
      BY <1>4, <1>5, <2>1, <2>5, <3>1
  <2> QED
    BY <2>1, <2>2, <2>3, <2>4, <2>5 DEF AppInv, ResealOfStore
<1> QED
  BY <1>6, <1>7, <1>8, <1>9, <1>10, <1>11, <1>12, <1>13, <1>14 DEF AppInv

LEMMA IdleState == Idle \in ThreadState /\ Idle.pc = "idle"
BY DEF Idle, ThreadState

LEMMA EngineFailsAppInv == ASSUME AppInv, NEW t \in Threads, EngineFails(t) PROVE AppInv'
<1>1. /\ th[t].pc = "engine" /\ Closed(th[t].on) /\ th' = [th EXCEPT ![t] = Idle]
      /\ UNCHANGED <<key, blob, reseal, overwrote, opens, comp, stale, away, written>>
      /\ mu' = mu \/ (mu = t /\ mu' = NoThread)
  BY DEF EngineFails, GiveBack, Fail, Respond, At
<1> QED
  BY <1>1, CloseMove, IdleState

LEMMA AfterLockState ==
  ASSUME AppInv, NEW t \in Threads, AfterLock(t)
  PROVE  \E r \in ThreadState : r.pc \in {"idle", "exit"} /\ th' = [th EXCEPT ![t] = r]
<1> DEFINE x == [Idle EXCEPT !.pc = "exit"]
           r == IF th[t].op = "stop" THEN x ELSE Idle
<1>1. x \in ThreadState /\ x.pc = "exit"
  BY DEF Idle, ThreadState
<1>2. th' = [th EXCEPT ![t] = r]
  BY DEF AfterLock
<1> HIDE DEF x
<1> QED
  BY <1>1, <1>2, IdleState

LEMMA ReleaseAppInv == ASSUME AppInv, NEW t \in Threads, Release(t) PROVE AppInv'
<1>1. th[t].pc = "release" /\ Closed(th[t].on)
      /\ UNCHANGED <<key, blob, reseal, overwrote, opens, comp, stale, mu, away, written>>
  BY DEF Release, At, app
<1>2. PICK r \in ThreadState : r.pc \in {"idle", "exit"} /\ th' = [th EXCEPT ![t] = r]
  BY AfterLockState DEF Release
<1> QED
  BY <1>1, <1>2, CloseMove

LEMMA UnlockedAppInv == ASSUME AppInv, NEW t \in Threads, Unlocked(t) PROVE AppInv'
<1> USE DEF At, Live, drive, flush, history, app
<1> DEFINE n == th[t].on
<1>0. th[t].pc = "engine" /\ UNCHANGED <<drive, opens, history>>
  BY DEF Unlocked
<1>1. n \in Sessions /\ Live(n) /\ flock = n /\ n # None /\ n # comp /\ sess[n].by = Process(t)
      /\ sess[n].pc = "open" /\ n <= opens
  BY <1>0 DEF AppInv, TypeOK, Holding, StoreOfThread, LockedLive, Sessions, OwnSession
<1>2. CASE t \in Servers
  <2> DEFINE r == [th[t] EXCEPT !.pc = "serving"]
  <2>1. th' = [th EXCEPT ![t] = r] /\ UNCHANGED app
    BY <1>2 DEF Unlocked, Goto, AppInv, TypeOK
  <2>2. th[t] \in ThreadState
    BY DEF AppInv, TypeOK
  <2>3. r \in ThreadState /\ r.pc = "serving" /\ r.on = n
    BY <2>2 DEF ThreadState, Holding
  <2> HIDE DEF r
  <2>4. \A u \in Threads : th'[u] = IF u = t THEN r ELSE th[u]
    BY <2>1 DEF AppInv, TypeOK
  <2>5. TypeOK'
    <3>1. th' \in [Threads -> ThreadState]
      BY <2>1, <2>3 DEF AppInv, TypeOK
    <3> QED
      BY <1>0, <1>1, <2>1, <2>3, <2>4, <3>1 DEF AppInv, TypeOK, Opening, Holding
  <2>6. (\A u \in Threads : At(u, "store") => th[u].dek \in Sessions)' /\ Roles' /\ WorkIsAuthorised'
    BY <1>2, <2>3, <2>4 DEF AppInv, Roles, WorkIsAuthorised
  <2>7. MuHeld' /\ LockedLive' /\ ResealOfStore' /\ WritesKept'
    BY <1>0, <1>2, <2>1, <2>3, <2>4 DEF AppInv, MuHeld, LockedLive, ResealOfStore, WritesKept, Carried
  <2>8. OwnSession'
    BY <1>0, <2>1, <2>3, <2>4 DEF AppInv, OwnSession, Opening, Holding
  <2>9. StoreOfThread'
    BY <1>0, <2>1, <2>3, <2>4 DEF AppInv, StoreOfThread, Opening, Holding
  <2>10. DriveHasOwner'
    BY <1>0, <2>1, <2>3, <2>4 DEF AppInv, DriveHasOwner, Holding
  <2>11. KeyBound'
    BY <1>0, <2>1, <2>3, <2>4 DEF AppInv, KeyBound
  <2> QED
    BY <2>5, <2>6, <2>7, <2>8, <2>9, <2>10, <2>11 DEF AppInv
<1>3. CASE t \notin Servers
  <2>1. mu = t /\ mu' = NoThread /\ comp = None
    BY <1>0, <1>3, AppAssumption DEF Unlocked, Fail, AppInv, MuHeld, Threads
  <2>2. /\ comp' = n /\ stale' = FALSE /\ away' = FALSE
        /\ th' = [th EXCEPT ![t] = Idle]
    BY <1>3 DEF Unlocked, Fail, Respond
  <2>3. \A u \in Threads : th'[u] = IF u = t THEN Idle ELSE th[u]
    BY <2>2 DEF AppInv, TypeOK
  <2>4. TypeOK'
    <3>1. th' \in [Threads -> ThreadState]
      BY <2>2, IdleState DEF AppInv, TypeOK
    <3> QED
      BY <1>0, <1>1, <2>1, <2>2, <2>3, <3>1, IdleState DEF AppInv, TypeOK, Opening, Holding
  <2>5. (\A u \in Threads : At(u, "store") => th[u].dek \in Sessions)' /\ Roles' /\ WorkIsAuthorised'
    BY <2>3, IdleState DEF AppInv, Roles, WorkIsAuthorised
  <2>6. MuHeld'
    BY <2>1, <2>3, IdleState DEF AppInv, MuHeld
  <2>7. OwnSession'
    BY <1>0, <1>1, <2>2, <2>3, IdleState DEF AppInv, OwnSession, Opening, Holding
  <2>8. StoreOfThread'
    BY <1>0, <1>1, <1>3, <2>2, <2>3, IdleState DEF AppInv, StoreOfThread, Opening, Holding, Process
  <2>9. LockedLive' /\ ResealOfStore' /\ WritesKept'
    BY <1>0, <2>3, IdleState DEF AppInv, LockedLive, ResealOfStore, WritesKept, Carried
  <2>10. DriveHasOwner'
    BY <1>0, <1>1, <2>2 DEF DriveHasOwner
  <2>11. KeyBound'
    BY <1>0, <2>3, IdleState DEF AppInv, KeyBound
  <2> QED
    BY <2>4, <2>5, <2>6, <2>7, <2>8, <2>9, <2>10, <2>11 DEF AppInv
<1> QED
  BY <1>2, <1>3

\* A write is accepted, by a store that is not just being opened.
LEMMA AcceptMove ==
  ASSUME AppInv, NEW n \in Sessions, Live(n), Accept(n),
         \A u \in Threads : th[u].pc = "engine" => th[u].on # n,
         th' \in [Threads -> ThreadState],
         \A u \in Threads : th'[u] = th[u] \/ (th[u].pc = "work" /\ th'[u] = Idle),
         UNCHANGED <<opens, comp, stale, mu, away>>
  PROVE  AppInv'
<1> USE DEF At, Live
<1>1. /\ written \in Nat /\ written' = written + 1 /\ written' \in 0..MaxWrites
      /\ UNCHANGED <<key, blob, flock, reseal, overtook, overwrote>>
      /\ excused' = (excused \/ sess[n].pc = "sealed")
  BY AppAssumption DEF Accept, flush, AppInv, TypeOK
<1>2. \A m \in Sessions :
        sess'[m] = IF m = n THEN [sess[m] EXCEPT !.ram = sess[m].ram + 1, !.dirty = TRUE] ELSE sess[m]
  <2> DEFINE r == [sess[n] EXCEPT !.ram = sess[n].ram + 1, !.dirty = TRUE]
  <2>1. sess' = [sess EXCEPT ![n] = r]
    BY DEF Accept
  <2>2. sess \in [Sessions -> StoreState]
    BY DEF AppInv, TypeOK
  <2>3. \A m \in Sessions : sess'[m] = IF m = n THEN r ELSE sess[m]
    <3> HIDE DEF r
    <3> QED BY <2>1, <2>2
  <2> QED BY <2>3
<1>3. ASSUME NEW m \in Sessions
      PROVE  /\ sess'[m] \in StoreState
             /\ sess'[m].pc = sess[m].pc /\ sess'[m].by = sess[m].by /\ sess'[m].dek = sess[m].dek
             /\ sess'[m].done = sess[m].done
             /\ m # n => sess'[m] = sess[m]
             /\ m = n => sess'[m].ram = sess[m].ram + 1 /\ sess'[m].dirty
             /\ sess[m].ram \in Nat
  <2>1. sess[m] \in StoreState /\ sess[m].ram <= written
    BY DEF AppInv, TypeOK, WritesKept
  <2>2. sess[m].ram \in Nat
    BY <2>1 DEF StoreState
  <2>3. CASE m = n
    <3>1. sess'[m] = [sess[m] EXCEPT !.ram = sess[m].ram + 1, !.dirty = TRUE]
      BY <1>2, <2>3
    <3>2. sess[m].ram + 1 \in 0..MaxWrites
      BY <1>1, <2>1, <2>2, AppAssumption
    <3> QED
      BY <2>1, <2>2, <2>3, <3>1, <3>2 DEF StoreState
  <2>4. CASE m # n
    BY <1>2, <2>1, <2>2, <2>4
  <2> QED
    BY <2>3, <2>4
<1>4. ASSUME NEW u \in Threads
      PROVE  th'[u].pc # "idle" => th'[u] = th[u]
  BY IdleState
<1>5. TypeOK'
  <2>1. sess' \in [Sessions -> StoreState]
    <3>1. sess' = [sess EXCEPT ![n] = [@ EXCEPT !.ram = sess[n].ram + 1, !.dirty = TRUE]]
      BY DEF Accept
    <3>2. DOMAIN sess' = Sessions
      BY <3>1 DEF AppInv, TypeOK
    <3>3. sess' = [m \in Sessions |-> sess'[m]]
      BY <3>1, <3>2 DEF AppInv, TypeOK
    <3> QED
      BY <1>3, <3>3
  <2>2. \A u \in Threads :
          /\ th'[u].pc \in Opening \cup Holding \cup {"work"} => th'[u].on \in Sessions
          /\ th'[u].pc \in Opening => th'[u].pw \in Passwords
    BY <1>4, IdleState DEF AppInv, TypeOK, Opening, Holding
  <2>3. excused' \in BOOLEAN
    BY <1>1 DEF AppInv, TypeOK
  <2> QED
    BY <1>1, <1>3, <2>1, <2>2, <2>3 DEF AppInv, TypeOK
<1>6. (\A u \in Threads : At(u, "store") => th[u].dek \in Sessions)' /\ Roles' /\ WorkIsAuthorised'
  BY <1>4 DEF AppInv, Roles, WorkIsAuthorised
<1>7. MuHeld'
  BY <1>4 DEF AppInv, MuHeld
<1>8. OwnSession'
  BY <1>4 DEF AppInv, OwnSession, Opening, Holding
<1>9. StoreOfThread'
  <2>1. ASSUME NEW u \in Threads, th'[u].pc \in Opening \cup Holding
        PROVE  th'[u] = th[u] /\ th[u].on \in Sessions
    BY <1>4, <2>1 DEF Opening, Holding, AppInv, TypeOK
  <2>2. ASSUME NEW u \in Threads
        PROVE  LET s == sess'[th'[u].on] IN
               /\ th'[u].pc \in Opening => s.pc = "none"
               /\ th'[u].pc \in {"engine", "serving", "seal"} => s.pc = "open"
               /\ th'[u].pc = "engine" => ~s.dirty
               /\ th'[u].pc = "release" => s.pc = "sealed"
               /\ th'[u].pc \in Holding => s.by = Process(u)
    BY <1>3, <2>1 DEF AppInv, StoreOfThread, Opening, Holding
  <2>3. \A m \in Sessions : m > opens => sess'[m].pc = "none"
    BY <1>3 DEF AppInv, StoreOfThread
  <2>4. comp # None => sess'[comp].pc = "open" /\ sess'[comp].by = Main
    BY <1>3 DEF AppInv, StoreOfThread, TypeOK
  <2>5. \A m \in Sessions : sess'[m].pc = "none" => sess'[m].by = NoThread
    BY <1>3 DEF AppInv, StoreOfThread
  <2> QED
    BY <2>2, <2>3, <2>4, <2>5 DEF StoreOfThread
<1>10. LockedLive' /\ DriveHasOwner'
  <2>1. flock = n
    BY DEF AppInv, LockedLive
  <2>2. LockedLive'
    BY <1>1, <1>3, <2>1 DEF AppInv, LockedLive
  <2>3. DriveHasOwner'
    BY <1>1, <1>4 DEF AppInv, DriveHasOwner, Holding
  <2> QED
    BY <2>2, <2>3
<1>11. WritesKept'
  <2>1. flock = n /\ flock' = n /\ n # None
    BY <1>1 DEF AppInv, LockedLive, Sessions
  <2>2. blob'.gen <= written'
    BY <1>1 DEF AppInv, WritesKept, TypeOK
  <2>3. \A m \in Sessions : sess'[m].ram <= written' /\ sess'[m].done <= written'
    <3>1. \A m \in Sessions : sess[m].done \in Nat
      BY DEF AppInv, TypeOK, StoreState
    <3> QED
      BY <1>1, <1>3, <3>1 DEF AppInv, WritesKept
  <2>4. \A x \in Timers : reseal'[x].gen <= written'
    <3>1. \A x \in Timers : reseal[x].gen \in Nat
      BY DEF AppInv, TypeOK, ResealState
    <3> QED
      BY <1>1, <3>1 DEF AppInv, WritesKept
  <2> QED
    BY <1>1, <1>3, <2>1, <2>2, <2>3, <2>4 DEF AppInv, WritesKept
<1>13. ResealOfStore'
  <2>1. \A x \in Timers : reseal[x].pc # "idle" => reseal[x].on \in Sessions
    BY DEF AppInv, TypeOK
  <2>2. overtook' => excused'
    BY <1>1 DEF AppInv, ResealOfStore
  <2>3. \A m \in Sessions : /\ sess'[m].pc = sess[m].pc /\ sess'[m].done = sess[m].done
                            /\ sess'[m].pc = "closed" => sess'[m].dek = Zeroed
    BY <1>3 DEF AppInv, ResealOfStore
  <2>4. \A u \in Threads : th'[u].pc = "engine" => th'[u] = th[u]
    BY <1>4
  <2> QED
    BY <1>1, <2>1, <2>2, <2>3, <2>4 DEF AppInv, ResealOfStore
<1>12. KeyBound'
  BY <1>1, <1>3, <1>4 DEF AppInv, KeyBound
<1> QED
  BY <1>5, <1>6, <1>7, <1>8, <1>9, <1>10, <1>11, <1>12, <1>13 DEF AppInv

LEMMA WorkAppInv == ASSUME AppInv, NEW t \in Threads, Work(t) PROVE AppInv'
<1>1. th[t].pc = "work" /\ th' = [th EXCEPT ![t] = Idle] /\ UNCHANGED <<opens, comp, stale, mu, away>>
  BY DEF Work, At, Respond, app
<1>2. CASE UNCHANGED <<drive, history>>
  BY <1>1, <1>2, IdleState, FreeMove DEF AppInv, TypeOK, Holding
<1>3. CASE Live(th[t].on) /\ Accept(th[t].on)
  <2>1. th[t].on \in Sessions
    BY <1>1 DEF AppInv, TypeOK
  <2>2. \A u \in Threads : th[u].pc = "engine" => th[u].on # th[t].on
    BY <1>1 DEF AppInv, OwnSession, Holding
  <2>3. th' \in [Threads -> ThreadState]
    BY <1>1, IdleState DEF AppInv, TypeOK
  <2>4. \A u \in Threads : th'[u] = th[u] \/ (th[u].pc = "work" /\ th'[u] = Idle)
    BY <1>1 DEF AppInv, TypeOK
  <2> QED
    BY <1>1, <1>3, <2>1, <2>2, <2>3, <2>4, AcceptMove
<1> QED
  BY <1>2, <1>3 DEF Work

LEMMA ServerWorkAppInv == ASSUME AppInv, NEW t \in Servers, ServerWork(t) PROVE AppInv'
<1>1. t \in Threads /\ th[t].pc \in {"serving", "seal", "release"} /\ Accept(th[t].on)
      /\ UNCHANGED <<opens, comp, stale, mu, away, th>>
  BY DEF ServerWork, Threads, app
<1>2. th[t].on \in Sessions /\ Live(th[t].on)
  BY <1>1 DEF AppInv, TypeOK, StoreOfThread, Holding, Live
<1>3. \A u \in Threads : th[u].pc = "engine" => th[u].on # th[t].on
  BY <1>1 DEF AppInv, OwnSession, Holding
<1>4. th' \in [Threads -> ThreadState]
  BY <1>1 DEF AppInv, TypeOK
<1> QED
  BY <1>1, <1>2, <1>3, <1>4, AcceptMove

\* A step of a reseal changes what is dirty or done, the blob perhaps, and itself.
LEMMA ResealMove ==
  ASSUME AppInv,
         sess' \in [Sessions -> StoreState], reseal' \in [Timers -> ResealState],
         \A m \in Sessions :
           sess'[m].pc = sess[m].pc /\ sess'[m].by = sess[m].by /\ sess'[m].dek = sess[m].dek,
         \A t \in Threads : th[t].pc = "engine" => ~sess'[th[t].on].dirty,
         \A y \in Timers : reseal'[y].pc # "idle" => reseal'[y].on \in Sessions,
         blob' \in [dek : Sessions \cup {None, Zeroed}, gen : 0..MaxWrites],
         excused' \in BOOLEAN,
         UNCHANGED <<key, flock, overwrote, overtook, opens, comp, stale, mu, away, th, written>>,
         ResealOfStore', KeyBound', WritesKept'
  PROVE  AppInv'
<1> USE DEF At, Live
<1>1. TypeOK'
  <2>1. \A m \in Sessions : sess'[m].pc \in {"open", "sealed"} => sess'[m].dek \in Sessions
    BY DEF AppInv, TypeOK
  <2> QED
    BY <2>1 DEF AppInv, TypeOK
<1>2. (\A u \in Threads : At(u, "store") => th[u].dek \in Sessions)' /\ Roles' /\ WorkIsAuthorised'
  BY DEF AppInv, Roles, WorkIsAuthorised
<1>3. MuHeld' /\ OwnSession' /\ DriveHasOwner'
  BY DEF AppInv, MuHeld, OwnSession, DriveHasOwner
<1>4. StoreOfThread'
  <2>1. \A u \in Threads : th[u].pc \in Opening \cup Holding => th[u].on \in Sessions
    BY DEF AppInv, TypeOK
  <2>2. comp # None => comp \in Sessions
    BY DEF AppInv, TypeOK
  <2> QED
    BY <2>1, <2>2 DEF AppInv, StoreOfThread, Opening, Holding
<1>5. LockedLive'
  BY DEF AppInv, LockedLive, TypeOK
<1> QED
  BY <1>1, <1>2, <1>3, <1>4, <1>5 DEF AppInv

LEMMA SnapshotAppInv ==
  ASSUME AppInv, NEW x \in Timers, NEW n \in Sessions, Snapshot(x, n)
  PROVE  AppInv'
<1> USE DEF At, Live
<1> DEFINE s == [sess[n] EXCEPT !.dirty = FALSE]
           f == [NoReseal EXCEPT !.pc = "guard", !.on = n, !.gen = sess[n].ram]
<1>1. /\ reseal[x].pc = "idle" /\ sess[n].pc \in {"open", "sealed"} /\ sess[n].dirty
      /\ sess' = [sess EXCEPT ![n] = s] /\ reseal' = [reseal EXCEPT ![x] = f]
      /\ UNCHANGED <<key, blob, flock, overwrote, overtook, opens, comp, stale, mu, away, th, written, excused>>
  BY DEF Snapshot, app, history, AppInv, TypeOK
<1>2. /\ s \in StoreState /\ s.pc = sess[n].pc /\ s.by = sess[n].by /\ s.dek = sess[n].dek
      /\ s.ram = sess[n].ram /\ s.done = sess[n].done /\ ~s.dirty
      /\ sess[n].ram \in 0..MaxWrites
  <2>1. sess[n] \in StoreState
    BY DEF AppInv, TypeOK
  <2> QED
    BY <2>1 DEF StoreState
<1>3. f \in ResealState /\ f.pc = "guard" /\ f.on = n /\ f.gen = sess[n].ram
  BY <1>2 DEF NoReseal, ResealState
<1> HIDE DEF s, f
<1>4. /\ \A m \in Sessions : sess'[m] = IF m = n THEN s ELSE sess[m]
      /\ \A y \in Timers : reseal'[y] = IF y = x THEN f ELSE reseal[y]
  BY <1>1 DEF AppInv, TypeOK
<1>5. flock = n /\ n # None
  BY <1>1 DEF AppInv, LockedLive, Sessions
<1>6. ResealOfStore'
  <2>1. \A t \in Threads : th[t].pc = "engine" => th[t].on # n
    BY <1>1 DEF AppInv, StoreOfThread
  <2>2. \A m \in Sessions : /\ sess'[m].pc = sess[m].pc /\ sess'[m].done = sess[m].done
                            /\ sess'[m].dek = sess[m].dek
    BY <1>2, <1>4
  <2>3. \A y \in Timers : /\ y # x => reseal'[y] = reseal[y]
                          /\ reseal'[y].pc = "write" => reseal'[y] = reseal[y] /\ y # x
    BY <1>3, <1>4
  <2>4. \A y \in Timers : reseal[y].pc # "idle" => reseal[y].on \in Sessions
    BY DEF AppInv, TypeOK
  <2>5. reseal'[x].on = n /\ sess'[n].pc \in {"open", "sealed"} /\ reseal'[x].pc = "guard"
    BY <1>1, <1>3, <1>4, <2>2
  <2> QED
    BY <1>1, <2>1, <2>2, <2>3, <2>4, <2>5 DEF AppInv, ResealOfStore
<1>7. KeyBound'
  BY <1>1, <1>2, <1>3, <1>4 DEF AppInv, KeyBound
<1>8. WritesKept'
  <2>1. (/\ blob.gen <= written
         /\ \A m \in Sessions : sess[m].ram <= written /\ sess[m].done <= written
         /\ \A y \in Timers : reseal[y].gen <= written)'
    BY <1>1, <1>2, <1>3, <1>4 DEF AppInv, WritesKept
  <2>2. ~excused => Carried(n)'
    BY <1>1, <1>3, <1>4, <1>5 DEF AppInv, WritesKept, Carried
  <2> QED
    BY <1>1, <1>2, <1>4, <1>5, <2>1, <2>2 DEF AppInv, WritesKept
<1>9. blob' \in [dek : Sessions \cup {None, Zeroed}, gen : 0..MaxWrites] /\ excused' \in BOOLEAN
  BY <1>1 DEF AppInv, TypeOK
<1>10. sess' \in [Sessions -> StoreState] /\ reseal' \in [Timers -> ResealState]
  BY <1>1, <1>2, <1>3 DEF AppInv, TypeOK
<1>11. \A m \in Sessions :
         sess'[m].pc = sess[m].pc /\ sess'[m].by = sess[m].by /\ sess'[m].dek = sess[m].dek
  BY <1>2, <1>4
<1>12. \A t \in Threads : th[t].pc = "engine" => ~sess'[th[t].on].dirty
  BY <1>2, <1>4 DEF AppInv, TypeOK, StoreOfThread, Holding
<1>13. \A y \in Timers : reseal'[y].pc # "idle" => reseal'[y].on \in Sessions
  BY <1>3, <1>4 DEF AppInv, TypeOK
<1> QED
  BY <1>1, <1>6, <1>7, <1>8, <1>9, <1>10, <1>11, <1>12, <1>13, ResealMove

LEMMA NoResealState == NoReseal \in ResealState /\ NoReseal.pc = "idle" /\ NoReseal.gen = 0
BY AppAssumption DEF NoReseal, ResealState

\* A snapshot goes on to its rename, or is dropped.
LEMMA GuardAppInv ==
  ASSUME AppInv, NEW x \in Timers, Superseded(x) \/ StartWrite(x)
  PROVE  AppInv'
<1> USE DEF At, Live
<1> DEFINE n == reseal[x].on
           f == [reseal[x] EXCEPT !.pc = "write", !.dek = sess[n].dek]
<1>1. /\ reseal[x].pc = "guard" /\ FlushMuFree(n)
      /\ UNCHANGED <<key, blob, flock, sess, overwrote, overtook, opens, comp, stale, mu, away, th, written, excused>>
  BY DEF Superseded, StartWrite, app, history
<1>2. reseal[x] \in ResealState /\ n \in Sessions /\ sess[n] \in StoreState /\ sess[n].pc # "none"
  BY <1>1 DEF AppInv, TypeOK, ResealOfStore
<1>3. /\ sess' \in [Sessions -> StoreState]
      /\ \A m \in Sessions :
           sess'[m].pc = sess[m].pc /\ sess'[m].by = sess[m].by /\ sess'[m].dek = sess[m].dek
  BY <1>1 DEF AppInv, TypeOK
<1>4. \A t \in Threads : th[t].pc = "engine" => ~sess'[th[t].on].dirty
  BY <1>1 DEF AppInv, StoreOfThread
<1>5. blob' \in [dek : Sessions \cup {None, Zeroed}, gen : 0..MaxWrites] /\ excused' \in BOOLEAN
  BY <1>1 DEF AppInv, TypeOK
<1>6. written \in Nat /\ blob.gen \in Nat /\ \A y \in Timers : reseal[y].gen \in Nat
  BY DEF AppInv, TypeOK, ResealState
<1>7. CASE Superseded(x)
  <2>1. reseal' = [reseal EXCEPT ![x] = NoReseal] /\ reseal[x].gen <= sess[n].done
    BY <1>7 DEF Superseded
  <2>2. \A y \in Timers : reseal'[y] = IF y = x THEN NoReseal ELSE reseal[y]
    BY <2>1 DEF AppInv, TypeOK
  <2>3. ResealOfStore'
    BY <1>1, <2>2, NoResealState DEF AppInv, ResealOfStore
  <2>4. KeyBound'
    BY <1>1, <2>2, NoResealState DEF AppInv, KeyBound
  <2>5. WritesKept'
    <3>1. (/\ blob.gen <= written
           /\ \A m \in Sessions : sess[m].ram <= written /\ sess[m].done <= written
           /\ \A y \in Timers : reseal[y].gen <= written)'
      BY <1>1, <1>6, <2>2, NoResealState DEF AppInv, WritesKept
    <3>2. ASSUME ~excused, flock # None, Carried(flock), ~Carried(flock)'
          PROVE  blob.gen = written
      <4>1. PICK y \in Timers : reseal[y].pc # "idle" /\ reseal[y].on = flock /\ reseal[y].gen = written
        BY <3>2 DEF Carried
      <4>2. y = x
        BY <1>1, <2>2, <3>2, <4>1 DEF Carried
      <4>3. sess[flock].done = written
        <5>1. sess[n].done \in Nat /\ sess[n].done <= written
          BY <1>2 DEF StoreState, AppInv, WritesKept
        <5> QED
          BY <1>6, <2>1, <4>1, <4>2, <5>1
      <4> QED
        BY <3>2, <4>3 DEF AppInv, WritesKept
    <3> QED
      BY <1>1, <3>1, <3>2 DEF AppInv, WritesKept
  <2>6. /\ reseal' \in [Timers -> ResealState]
        /\ \A y \in Timers : reseal'[y].pc # "idle" => reseal'[y].on \in Sessions
    BY <2>1, <2>2, NoResealState DEF AppInv, TypeOK
  <2> QED
    BY <1>1, <1>3, <1>4, <1>5, <2>3, <2>4, <2>5, <2>6, ResealMove
<1>8. CASE StartWrite(x)
  <2>1. reseal' = [reseal EXCEPT ![x] = f] /\ reseal[x].gen > sess[n].done
    BY <1>8, <1>2 DEF StartWrite, AppInv, TypeOK, ResealState
  <2>2. sess[n].dek \in Sessions \cup {Zeroed}
    BY <1>2 DEF AppInv, TypeOK, ResealOfStore, StoreState
  <2>3. f \in ResealState /\ f.pc = "write" /\ f.on = n /\ f.gen = reseal[x].gen /\ f.dek = sess[n].dek
    BY <1>2, <2>2 DEF ResealState
  <2> HIDE DEF f
  <2>4. \A y \in Timers : reseal'[y] = IF y = x THEN f ELSE reseal[y]
    BY <2>1 DEF AppInv, TypeOK
  <2>5. \A y \in Timers : reseal[y].pc = "write" => reseal[y].on # n
    BY <1>1 DEF FlushMuFree
  <2>9. ~Live(n) => sess[n].dek = Zeroed /\ overtook
    <3>1. ~(reseal[x].gen <= sess[n].done)
      BY <1>2, <1>6, <2>1 DEF StoreState
    <3> QED
      BY <1>1, <1>2, <3>1 DEF AppInv, ResealOfStore, StoreState
  <2>6. ResealOfStore'
    BY <1>1, <1>2, <2>1, <2>2, <2>3, <2>4, <2>5 DEF AppInv, ResealOfStore
  <2>7. KeyBound'
    BY <1>1, <1>2, <2>3, <2>4, <2>9 DEF AppInv, KeyBound
  <2>8. WritesKept'
    <3>1. (/\ blob.gen <= written
           /\ \A m \in Sessions : sess[m].ram <= written /\ sess[m].done <= written
           /\ \A y \in Timers : reseal[y].gen <= written)'
      BY <1>1, <2>3, <2>4 DEF AppInv, WritesKept
    <3>2. ASSUME Carried(flock) PROVE Carried(flock)'
      <4>1. PICK y \in Timers : reseal[y].pc # "idle" /\ reseal[y].on = flock /\ reseal[y].gen = written
        BY <3>2 DEF Carried
      <4>2. reseal'[y].pc # "idle" /\ reseal'[y].on = flock /\ reseal'[y].gen = written
        BY <2>3, <2>4, <4>1
      <4> QED
        BY <1>1, <4>2 DEF Carried
    <3> QED
      BY <1>1, <3>1, <3>2 DEF AppInv, WritesKept
  <2>10. /\ reseal' \in [Timers -> ResealState]
         /\ \A y \in Timers : reseal'[y].pc # "idle" => reseal'[y].on \in Sessions
    BY <1>2, <2>1, <2>3, <2>4 DEF AppInv, TypeOK
  <2> QED
    BY <1>1, <1>3, <1>4, <1>5, <2>6, <2>7, <2>8, <2>10, ResealMove
<1> QED
  BY <1>7, <1>8

LEMMA AtomicWriteAppInv ==
  ASSUME AppInv, NEW x \in Timers, AtomicWrite(x)
  PROVE  AppInv'
<1> USE DEF At, Live
<1> DEFINE n == reseal[x].on
           s == [sess[n] EXCEPT !.done = reseal[x].gen]
<1>1. /\ reseal[x].pc = "write"
      /\ blob' = [dek |-> reseal[x].dek, gen |-> reseal[x].gen]
      /\ sess' = [sess EXCEPT ![n] = s] /\ reseal' = [reseal EXCEPT ![x] = NoReseal]
      /\ UNCHANGED <<key, flock, overwrote, overtook, opens, comp, stale, mu, away, th, written, excused>>
  BY DEF AtomicWrite, app, history, AppInv, TypeOK
<1>2. reseal[x] \in ResealState /\ n \in Sessions /\ sess[n] \in StoreState /\ sess[n].pc # "none"
  BY <1>1 DEF AppInv, TypeOK, ResealOfStore
<1>3. /\ s \in StoreState /\ s.pc = sess[n].pc /\ s.by = sess[n].by /\ s.dek = sess[n].dek
      /\ s.ram = sess[n].ram /\ s.done = reseal[x].gen /\ s.dirty = sess[n].dirty
  BY <1>2 DEF StoreState, ResealState
<1> HIDE DEF s
<1>4. /\ \A m \in Sessions : sess'[m] = IF m = n THEN s ELSE sess[m]
      /\ \A y \in Timers : reseal'[y] = IF y = x THEN NoReseal ELSE reseal[y]
  BY <1>1 DEF AppInv, TypeOK
<1>5. /\ written \in Nat /\ \A y \in Timers : reseal[y].gen \in Nat
      /\ \A m \in Sessions : sess[m].done \in Nat
  BY DEF AppInv, TypeOK, ResealState, StoreState
<1>6. /\ \A y \in Timers \ {x} : reseal[y].pc = "write" => reseal[y].on # n
      /\ reseal[x].gen > sess[n].done
  BY <1>1 DEF AppInv, ResealOfStore
<1>7. ResealOfStore'
  <2>1. ASSUME NEW y \in Timers, reseal'[y].pc # "idle"
        PROVE  y # x /\ reseal'[y] = reseal[y] /\ reseal[y].on \in Sessions
    BY <1>4, <2>1, NoResealState DEF AppInv, TypeOK
  <2>2. ASSUME NEW y \in Timers, reseal'[y].pc # "idle"
        PROVE  sess[reseal[y].on].done <= sess'[reseal[y].on].done
    BY <1>3, <1>4, <1>5, <1>6, <2>1, <2>2
  <2>3. ASSUME NEW y \in Timers, reseal'[y].pc # "idle",
               reseal[y].gen <= sess[reseal[y].on].done
        PROVE  reseal[y].gen <= sess'[reseal[y].on].done
    <3>1. sess'[reseal[y].on].done \in Nat
      BY <1>3, <1>4, <1>5, <2>1, <2>3
    <3> QED
      BY <1>5, <2>1, <2>2, <2>3, <3>1
  <2>4. ASSUME NEW y \in Timers, reseal'[y].pc = "write"
        PROVE  sess'[reseal[y].on].done = sess[reseal[y].on].done
    BY <1>4, <1>6, <2>1, <2>4
  <2>5. \A m \in Sessions : sess'[m].pc = sess[m].pc /\ sess'[m].dek = sess[m].dek
    BY <1>3, <1>4
  <2> QED
    BY <1>1, <2>1, <2>3, <2>4, <2>5 DEF AppInv, ResealOfStore
<1>8. KeyBound'
  <2>1. \A y \in Timers : reseal'[y].pc = "write" => reseal'[y] = reseal[y]
    BY <1>4, NoResealState
  <2>2. \A m \in Sessions : Live(m)' => Live(m) /\ sess'[m].dek = sess[m].dek
    BY <1>3, <1>4
  <2>3. ~overwrote => blob'.dek = key.dek \/ (blob'.dek = Zeroed /\ overtook)
    BY <1>1 DEF AppInv, KeyBound
  <2> QED
    BY <1>1, <2>1, <2>2, <2>3 DEF AppInv, KeyBound
<1>9. WritesKept'
  <2>1. (/\ blob.gen <= written
         /\ \A m \in Sessions : sess[m].ram <= written /\ sess[m].done <= written
         /\ \A y \in Timers : reseal[y].gen <= written)'
    BY <1>1, <1>3, <1>4, <1>5, NoResealState DEF AppInv, WritesKept
  <2>2. ASSUME ~excused PROVE flock = n /\ n # None
    <3>1. ~(reseal[x].gen <= sess[n].done)
      BY <1>2, <1>5, <1>6
    <3>2. sess[n].pc \in {"open", "sealed"}
      BY <1>1, <2>2, <3>1 DEF AppInv, ResealOfStore
    <3> QED
      BY <1>2, <3>2 DEF AppInv, LockedLive, Sessions
  <2>3. ASSUME ~excused, Carried(n) PROVE blob'.gen = written \/ Carried(flock)'
    <3>1. PICK y \in Timers : reseal[y].pc # "idle" /\ reseal[y].on = n /\ reseal[y].gen = written
      BY <2>3 DEF Carried
    <3>2. CASE y = x
      BY <1>1, <3>1, <3>2
    <3>3. CASE y # x
      <4>1. reseal'[y].pc # "idle" /\ reseal'[y].on = flock' /\ reseal'[y].gen = written'
        BY <1>1, <1>4, <2>2, <2>3, <3>1, <3>3
      <4> QED
        BY <4>1 DEF Carried
    <3> QED
      BY <3>2, <3>3
  <2>4. ASSUME ~excused, blob.gen = written PROVE FALSE
    <3>1. sess[n].done = written /\ reseal[x].gen <= written
      BY <2>2, <2>4 DEF AppInv, WritesKept
    <3> QED
      BY <1>2, <1>5, <1>6, <3>1
  <2>5. ASSUME ~excused
        PROVE  /\ flock' # None /\ sess'[flock'].ram = written' /\ blob'.gen = sess'[flock'].done
               /\ sess'[flock'].dirty \/ blob'.gen = written' \/ Carried(flock)'
               /\ sess'[flock'].pc = "sealed" => ~sess'[flock'].dirty
    <3>1. flock' = n /\ flock = n /\ n # None /\ sess'[n] = s
      BY <1>1, <1>2, <1>4, <2>2, <2>5
    <3>2. /\ sess[n].ram = written
          /\ sess[n].dirty \/ Carried(n)
          /\ sess[n].pc = "sealed" => ~sess[n].dirty
      BY <2>4, <2>5, <3>1 DEF AppInv, WritesKept
    <3>3. sess'[flock'] = s /\ written' = written /\ blob'.gen = reseal[x].gen
      BY <1>1, <3>1
    <3> HIDE DEF n
    <3>4. s.dirty \/ blob'.gen = written' \/ Carried(flock)'
      BY <1>3, <2>3, <2>5, <3>2, <3>3
    <3>5. s.ram = written /\ s.done = reseal[x].gen
      BY <1>3, <3>2
    <3>6. s.pc = "sealed" => ~s.dirty
      BY <1>3, <3>2
    <3> QED
      BY <3>1, <3>3, <3>4, <3>5, <3>6
  <2> QED
    BY <1>1, <2>1, <2>5 DEF WritesKept
<1>10. blob' \in [dek : Sessions \cup {None, Zeroed}, gen : 0..MaxWrites] /\ excused' \in BOOLEAN
  BY <1>1, <1>2 DEF AppInv, TypeOK, ResealState
<1>11. \A t \in Threads : th[t].pc = "engine" => ~sess'[th[t].on].dirty
  BY <1>3, <1>4 DEF AppInv, TypeOK, StoreOfThread, Holding
<1>12. /\ sess' \in [Sessions -> StoreState]
       /\ \A m \in Sessions :
            sess'[m].pc = sess[m].pc /\ sess'[m].by = sess[m].by /\ sess'[m].dek = sess[m].dek
  BY <1>1, <1>3, <1>4 DEF AppInv, TypeOK
<1>13. /\ reseal' \in [Timers -> ResealState]
       /\ \A y \in Timers : reseal'[y].pc # "idle" => reseal'[y].on \in Sessions
  BY <1>1, <1>4, NoResealState DEF AppInv, TypeOK
<1> QED
  BY <1>1, <1>7, <1>8, <1>9, <1>10, <1>11, <1>12, <1>13, ResealMove

LEMMA WriteFailsAppInv ==
  ASSUME AppInv, NEW x \in Timers, WriteFails(x)
  PROVE  AppInv'
<1> USE DEF At, Live
<1> DEFINE n == reseal[x].on
           s == [sess[n] EXCEPT !.dirty = TRUE]
<1>1. /\ reseal[x].pc = "write"
      /\ sess' = [sess EXCEPT ![n] = s] /\ reseal' = [reseal EXCEPT ![x] = NoReseal]
      /\ excused' = (excused \/ sess[n].pc # "open")
      /\ UNCHANGED <<key, blob, flock, overwrote, overtook, opens, comp, stale, mu, away, th, written>>
  BY DEF WriteFails, app, AppInv, TypeOK
<1>2. reseal[x] \in ResealState /\ n \in Sessions /\ sess[n] \in StoreState /\ sess[n].pc # "none"
  BY <1>1 DEF AppInv, TypeOK, ResealOfStore
<1>3. /\ s \in StoreState /\ s.pc = sess[n].pc /\ s.by = sess[n].by /\ s.dek = sess[n].dek
      /\ s.ram = sess[n].ram /\ s.done = sess[n].done /\ s.dirty
  BY <1>2 DEF StoreState
<1> HIDE DEF s
<1>4. /\ \A m \in Sessions : sess'[m] = IF m = n THEN s ELSE sess[m]
      /\ \A y \in Timers : reseal'[y] = IF y = x THEN NoReseal ELSE reseal[y]
  BY <1>1 DEF AppInv, TypeOK
<1>5. ResealOfStore'
  BY <1>1, <1>3, <1>4, NoResealState DEF AppInv, ResealOfStore, TypeOK
<1>6. KeyBound'
  BY <1>1, <1>3, <1>4, NoResealState DEF AppInv, KeyBound
<1>7. WritesKept'
  <2>1. (/\ blob.gen <= written
         /\ \A m \in Sessions : sess[m].ram <= written /\ sess[m].done <= written
         /\ \A y \in Timers : reseal[y].gen <= written)'
    <3>1. written \in Nat
      BY DEF AppInv, TypeOK
    <3> QED
      BY <1>1, <1>3, <1>4, <3>1, NoResealState DEF AppInv, WritesKept
  <2>2. ASSUME ~excused' PROVE flock = n /\ n # None /\ sess[n].pc = "open"
    <3>1. sess[n].pc = "open"
      BY <1>1, <2>2
    <3> QED
      BY <1>2, <3>1 DEF AppInv, LockedLive, Sessions
  <2>3. ASSUME ~excused'
        PROVE  /\ flock' # None /\ sess'[flock'].ram = written' /\ blob'.gen = sess'[flock'].done
               /\ sess'[flock'].dirty /\ sess'[flock'].pc # "sealed"
    <3>1. flock' = n /\ flock = n /\ n # None /\ sess'[n] = s /\ sess[n].pc = "open" /\ ~excused
      BY <1>1, <1>2, <1>4, <2>2, <2>3
    <3>2. sess[n].ram = written /\ blob.gen = sess[n].done
      BY <3>1 DEF AppInv, WritesKept
    <3> QED
      BY <1>1, <1>3, <3>1, <3>2
  <2> QED
    BY <1>1, <2>1, <2>3 DEF WritesKept
<1>8. blob' \in [dek : Sessions \cup {None, Zeroed}, gen : 0..MaxWrites] /\ excused' \in BOOLEAN
  BY <1>1 DEF AppInv, TypeOK
<1>9. \A t \in Threads : th[t].pc = "engine" => ~sess'[th[t].on].dirty
  <2>1. \A t \in Threads : th[t].pc = "engine" => th[t].on # n
    BY <1>1 DEF AppInv, ResealOfStore
  <2> QED
    BY <1>4, <2>1 DEF AppInv, TypeOK, StoreOfThread, Holding
<1>10. /\ sess' \in [Sessions -> StoreState]
       /\ \A m \in Sessions :
            sess'[m].pc = sess[m].pc /\ sess'[m].by = sess[m].by /\ sess'[m].dek = sess[m].dek
  BY <1>1, <1>3, <1>4 DEF AppInv, TypeOK
<1>11. /\ reseal' \in [Timers -> ResealState]
       /\ \A y \in Timers : reseal'[y].pc # "idle" => reseal'[y].on \in Sessions
  BY <1>1, <1>4, NoResealState DEF AppInv, TypeOK
<1> QED
  BY <1>1, <1>5, <1>6, <1>7, <1>8, <1>9, <1>10, <1>11, ResealMove

LEMMA ResealAppInv == ASSUME AppInv, NEW x \in Timers, ResealStep(x) PROVE AppInv'
BY SnapshotAppInv, GuardAppInv, AtomicWriteAppInv, WriteFailsAppInv DEF ResealStep

LEMMA DetachAppInv == ASSUME AppInv, NEW t \in Threads, Detach(t) PROVE AppInv'
<1> USE DEF At, Live
<1>1. /\ th[t].pc = "detach" /\ mu = NoThread /\ comp' = None
      /\ UNCHANGED <<key, blob, flock, sess, reseal, overwrote, overtook, opens, mu, written, excused>>
      /\ stale' = FALSE /\ away' = FALSE
  BY DEF Detach, drive, flush, history
<1>2. CASE comp = None
  <2>1. UNCHANGED <<drive, opens, comp, history>> /\ stale' \in BOOLEAN /\ away' \in BOOLEAN
    BY <1>1, <1>2 DEF drive, flush, history
  <2>2. PICK r \in ThreadState : r.pc \in {"idle", "exit"} /\ th' = [th EXCEPT ![t] = r]
    BY <1>2, AfterLockState DEF Detach
  <2> QED
    BY <1>1, <2>1, <2>2, FreeMove DEF Holding
<1>3. CASE comp # None
  <2> DEFINE r == [th[t] EXCEPT !.pc = "seal", !.on = comp]
  <2>1. th' = [th EXCEPT ![t] = r]
    BY <1>3 DEF Detach, AppInv, TypeOK, ThreadState
  <2>2. th[t] \in ThreadState /\ comp \in Sessions /\ comp <= opens
    BY <1>3 DEF AppInv, TypeOK, OwnSession
  <2>3. r \in ThreadState /\ r.pc = "seal" /\ r.on = comp
    BY <2>2 DEF ThreadState, Holding
  <2> HIDE DEF r
  <2>4. \A u \in Threads : th'[u] = IF u = t THEN r ELSE th[u]
    BY <2>1 DEF AppInv, TypeOK
  <2>5. TypeOK'
    <3>1. th' \in [Threads -> ThreadState]
      BY <2>1, <2>3 DEF AppInv, TypeOK
    <3> QED
      BY <1>1, <2>2, <2>3, <2>4, <3>1 DEF AppInv, TypeOK, Opening, Holding
  <2>6. (\A u \in Threads : At(u, "store") => th[u].dek \in Sessions)' /\ Roles' /\ WorkIsAuthorised'
    BY <2>3, <2>4 DEF AppInv, Roles, WorkIsAuthorised
  <2>7. MuHeld'
    BY <1>1, <2>3, <2>4 DEF AppInv, MuHeld
  <2>8. LockedLive' /\ ResealOfStore' /\ WritesKept'
    BY <1>1, <2>3, <2>4 DEF AppInv, LockedLive, ResealOfStore, WritesKept, Carried
  <2>9. OwnSession'
    <3>1. \A u \in Threads : th[u].pc \in Opening \cup Holding => th[u].on \in Sessions
      BY DEF AppInv, TypeOK
    <3>2. comp' <= opens'
      BY <1>1 DEF AppInv, TypeOK, Sessions
    <3>3. \A u \in Threads : th'[u].pc \in Opening \cup Holding => th'[u].on # comp'
      BY <1>1, <2>2, <2>3, <2>4, <3>1 DEF Sessions
    <3> QED
      BY <1>1, <2>2, <2>3, <2>4, <3>2, <3>3 DEF AppInv, OwnSession, Opening, Holding
  <2>10. StoreOfThread'
    <3>1. t \notin Servers /\ Process(t) = Main
      BY <1>1 DEF AppInv, Roles, Process
    <3> QED
      BY <1>1, <1>3, <2>3, <2>4, <3>1 DEF AppInv, StoreOfThread, Opening, Holding
  <2>11. DriveHasOwner'
    <3>1. flock = comp
      BY <1>3, <2>2 DEF AppInv, StoreOfThread, LockedLive
    <3> QED
      BY <1>1, <2>3, <2>4, <3>1 DEF DriveHasOwner, Holding
  <2>12. KeyBound'
    BY <1>1, <2>3, <2>4 DEF AppInv, KeyBound
  <2> QED
    BY <2>5, <2>6, <2>7, <2>8, <2>9, <2>10, <2>11, <2>12 DEF AppInv
<1> QED
  BY <1>2, <1>3

\* Close's flush, whether it succeeds or not or has nothing to do: the store is
\* sealed, and the blob is what the store holds, or what it was.
LEMMA SealMove ==
  ASSUME AppInv, NEW t \in Threads, NEW s \in StoreState, th[t].pc = "seal",
         s.pc = "sealed", s.by = sess[th[t].on].by, s.dek = sess[th[t].on].dek,
         s.ram = sess[th[t].on].ram,
         sess' = [sess EXCEPT ![th[t].on] = s],
         \/ /\ blob' = [dek |-> s.dek, gen |-> s.ram] /\ s.done = s.ram /\ FlushMuFree(th[t].on)
         \/ /\ blob' = blob /\ s.done = sess[th[t].on].done
            /\ \/ s.dirty = sess[th[t].on].dirty
               \/ ~s.dirty /\ sess[th[t].on].ram <= sess[th[t].on].done,
         excused' \/ ~s.dirty, excused => excused', excused' \in BOOLEAN,
         th' = [th EXCEPT ![t].pc = "release"],
         UNCHANGED <<key, flock, flush, overwrote, opens, app, written>>
  PROVE  AppInv'
<1> USE DEF At, Live, app, flush
<1> DEFINE n == th[t].on
           r == [th[t] EXCEPT !.pc = "release"]
<1>1. th' = [th EXCEPT ![t] = r]
  BY DEF AppInv, TypeOK
<1>2. th[t] \in ThreadState /\ n \in Sessions /\ sess[n].pc = "open" /\ flock = n /\ n # None
      /\ sess[n].by = Process(t)
  BY DEF AppInv, TypeOK, Holding, StoreOfThread, LockedLive, Sessions
<1>3. r \in ThreadState /\ r.pc = "release" /\ r.on = n
  BY <1>2 DEF ThreadState, Holding
<1> HIDE DEF r
<1>4. \A u \in Threads : th'[u] = IF u = t THEN r ELSE th[u]
  BY <1>1 DEF AppInv, TypeOK
<1>5. \A m \in Sessions : sess'[m] = IF m = n THEN s ELSE sess[m]
  BY DEF AppInv, TypeOK
<1>6. s.dek \in Sessions /\ s.ram \in 0..MaxWrites
  BY <1>2 DEF AppInv, TypeOK, StoreState
<1>7. TypeOK'
  <2>1. th' \in [Threads -> ThreadState]
    BY <1>1, <1>3 DEF AppInv, TypeOK
  <2>2. sess' \in [Sessions -> StoreState]
    BY DEF AppInv, TypeOK
  <2>3. blob' \in [dek : Sessions \cup {None, Zeroed}, gen : 0..MaxWrites]
    BY <1>6 DEF AppInv, TypeOK
  <2>4. \A u \in Threads :
          /\ th'[u].pc \in Opening \cup Holding \cup {"work"} => th'[u].on \in Sessions
          /\ th'[u].pc \in Opening => th'[u].pw \in Passwords
    BY <1>2, <1>3, <1>4 DEF AppInv, TypeOK, Opening, Holding
  <2>5. \A m \in Sessions : sess'[m].pc \in {"open", "sealed"} => sess'[m].dek \in Sessions
    BY <1>5, <1>6 DEF AppInv, TypeOK
  <2> QED
    BY <2>1, <2>2, <2>3, <2>4, <2>5 DEF AppInv, TypeOK
<1>8. (\A u \in Threads : At(u, "store") => th[u].dek \in Sessions)' /\ Roles' /\ WorkIsAuthorised'
  BY <1>3, <1>4 DEF AppInv, Roles, WorkIsAuthorised
<1>9. MuHeld'
  BY <1>3, <1>4 DEF AppInv, MuHeld
<1>10. OwnSession'
  BY <1>3, <1>4 DEF AppInv, OwnSession, Opening, Holding
<1>11. StoreOfThread'
  <2>1. ASSUME NEW u \in Threads, u # t, th'[u].pc \in Opening \cup Holding
        PROVE  th'[u] = th[u] /\ sess'[th'[u].on] = sess[th[u].on]
    BY <1>4, <1>5, <2>1 DEF AppInv, OwnSession, TypeOK, Holding
  <2>2. th'[t] = r /\ sess'[th'[t].on] = s
    BY <1>2, <1>3, <1>4, <1>5
  <2>3. comp # None => sess'[comp] = sess[comp]
    BY <1>5 DEF AppInv, TypeOK, OwnSession, Holding
  <2>4. \A m \in Sessions : m > opens' => sess'[m].pc = "none"
    BY <1>2, <1>5 DEF AppInv, StoreOfThread
  <2>5. ASSUME NEW u \in Threads
        PROVE  LET z == sess'[th'[u].on] IN
               /\ th'[u].pc \in Opening => z.pc = "none"
               /\ th'[u].pc \in {"engine", "serving", "seal"} => z.pc = "open"
               /\ th'[u].pc = "engine" => ~z.dirty
               /\ th'[u].pc = "release" => z.pc = "sealed"
               /\ th'[u].pc \in Holding => z.by = Process(u)
    <3>1. CASE u = t
      BY <1>2, <1>3, <2>2, <3>1 DEF Opening
    <3>2. CASE u # t
      BY <2>1, <3>2 DEF AppInv, StoreOfThread, Opening, Holding
    <3> QED
      BY <3>1, <3>2
  <2>6. /\ comp' = comp
        /\ comp # None => sess[comp].pc = "open" /\ sess[comp].by = Main
    BY DEF AppInv, StoreOfThread
  <2>7. comp' # None => sess'[comp'].pc = "open" /\ sess'[comp'].by = Main
    BY <2>3, <2>6
  <2>8. \A m \in Sessions : sess'[m].pc = "none" => sess'[m].by = NoThread
    BY <1>5 DEF AppInv, StoreOfThread
  <2> QED
    BY <2>4, <2>5, <2>7, <2>8 DEF StoreOfThread
<1>12. LockedLive'
  BY <1>2, <1>5 DEF AppInv, LockedLive
<1>13. DriveHasOwner'
  BY <1>3, <1>4 DEF AppInv, DriveHasOwner, Holding
<1>14. WritesKept'
  <2>1. written' = written /\ sess[n].ram <= written /\ written \in Nat
    BY <1>2 DEF AppInv, WritesKept, TypeOK
  <2>2. blob'.gen <= written /\ \A m \in Sessions : sess'[m].ram <= written /\ sess'[m].done <= written
    BY <1>2, <1>5, <2>1 DEF AppInv, WritesKept
  <2>3. ASSUME ~excused'
        PROVE  /\ sess'[n].ram = written /\ blob'.gen = sess'[n].done /\ ~sess'[n].dirty
               /\ blob'.gen = written \/ Carried(n)
    <3>1. sess'[n] = s /\ sess[n].ram = written /\ ~s.dirty /\ blob.gen = sess[n].done
      BY <1>2, <1>5, <2>3 DEF AppInv, WritesKept
    <3>2. ~sess[n].dirty => blob.gen = written \/ Carried(n)
      BY <1>2, <2>3 DEF AppInv, WritesKept
    <3>3. sess[n].done <= written /\ sess[n].done \in Nat
      BY <1>2 DEF AppInv, WritesKept, TypeOK, StoreState
    <3>4. sess[n].ram <= sess[n].done => blob.gen = written
      BY <2>1, <3>1, <3>3
    <3> QED
      BY <3>1, <3>2, <3>4
  <2>4. Carried(n) => Carried(n)'
    BY DEF Carried
  <2> QED
    BY <1>2, <2>1, <2>2, <2>3, <2>4 DEF AppInv, WritesKept
<1>15. KeyBound'
  BY <1>2, <1>3, <1>4, <1>5 DEF AppInv, KeyBound
<1>16. ResealOfStore'
  <2>1. overtook' => excused'
    BY DEF AppInv, ResealOfStore
  <2>2. \A m \in Sessions : sess'[m].pc = "closed" => sess'[m].dek = Zeroed
    BY <1>5 DEF AppInv, ResealOfStore
  <2>3. ASSUME NEW x \in Timers, reseal[x].pc # "idle"
        PROVE  LET m == reseal[x].on IN
               /\ m \in Sessions
               /\ sess'[m].pc # "none"
               /\ Live(m)' <=> Live(m)
               /\ reseal[x].pc = "write" => sess'[m].done = sess[m].done
               /\ ~Live(m) => sess'[m].done = sess[m].done
    BY <1>2, <1>5, <2>3 DEF AppInv, TypeOK, ResealOfStore, FlushMuFree
  <2>4. \A u \in Threads : th'[u].pc = "engine" => th'[u] = th[u]
    BY <1>3, <1>4
  <2> QED
    BY <2>1, <2>2, <2>3, <2>4 DEF AppInv, ResealOfStore
<1> QED
  BY <1>7, <1>8, <1>9, <1>10, <1>11, <1>12, <1>13, <1>14, <1>15, <1>16 DEF AppInv

LEMMA SealAppInv ==
  ASSUME AppInv, NEW t \in Threads, Seal(t) \/ SealFails(t) \/ NothingToSeal(t)
  PROVE  AppInv'
<1> USE DEF At, MustSeal, Goto, history
<1> DEFINE n == th[t].on
           s == [sess[n] EXCEPT !.pc = "sealed", !.dirty = FALSE, !.done = sess[n].ram]
           f == [sess[n] EXCEPT !.pc = "sealed"]
           k == [sess[n] EXCEPT !.pc = "sealed", !.dirty = FALSE]
<1>1. th[t].pc = "seal" /\ n \in Sessions
  BY DEF Seal, SealFails, NothingToSeal, AppInv, TypeOK, Holding
<1>2. sess[n] \in StoreState
  BY <1>1 DEF AppInv, TypeOK
<1>3. CASE Seal(t)
  <2>1. sess' = [sess EXCEPT ![n] = s]
    BY <1>1, <1>3 DEF Seal, AppInv, TypeOK, StoreState
  <2>2. /\ s \in StoreState /\ s.pc = "sealed" /\ s.by = sess[n].by /\ s.dek = sess[n].dek
        /\ s.ram = sess[n].ram /\ s.done = sess[n].ram /\ ~s.dirty
    BY <1>2 DEF StoreState
  <2> HIDE DEF s
  <2>3. blob' = [dek |-> s.dek, gen |-> s.ram] /\ s.done = s.ram /\ FlushMuFree(n)
    BY <1>3, <2>2 DEF Seal
  <2>4. /\ th' = [th EXCEPT ![t].pc = "release"] /\ excused' = excused /\ excused \in BOOLEAN
        /\ UNCHANGED <<key, flock, flush, overwrote, opens, app, written>>
    BY <1>3 DEF Seal, AppInv, TypeOK
  <2> QED
    BY <1>1, <2>1, <2>2, <2>3, <2>4, SealMove
<1>4. CASE SealFails(t)
  <2>1. sess' = [sess EXCEPT ![n] = f]
    BY <1>1, <1>4 DEF SealFails, AppInv, TypeOK, StoreState
  <2>2. /\ f \in StoreState /\ f.pc = "sealed" /\ f.by = sess[n].by /\ f.dek = sess[n].dek
        /\ f.ram = sess[n].ram /\ f.dirty = sess[n].dirty /\ f.done = sess[n].done
    BY <1>2 DEF StoreState
  <2> HIDE DEF f
  <2>3. /\ blob' = blob /\ th' = [th EXCEPT ![t].pc = "release"] /\ excused' = TRUE
        /\ UNCHANGED <<key, flock, flush, overwrote, opens, app, written>>
    BY <1>4 DEF SealFails
  <2> QED
    BY <1>1, <2>1, <2>2, <2>3, SealMove
<1>5. CASE NothingToSeal(t)
  <2>1. sess' = [sess EXCEPT ![n] = k]
    BY <1>1, <1>5 DEF NothingToSeal, AppInv, TypeOK, StoreState
  <2>2. /\ k \in StoreState /\ k.pc = "sealed" /\ k.by = sess[n].by /\ k.dek = sess[n].dek
        /\ k.ram = sess[n].ram /\ ~k.dirty /\ k.done = sess[n].done
    BY <1>2 DEF StoreState
  <2>3. k.dirty = sess[n].dirty \/ (~k.dirty /\ sess[n].ram <= sess[n].done)
    <3>1. ~sess[n].dirty \/ ~(sess[n].ram > sess[n].done)
      BY <1>5 DEF NothingToSeal
    <3>2. sess[n].dirty \in BOOLEAN /\ sess[n].ram \in Nat /\ sess[n].done \in Nat
      BY <1>2 DEF StoreState
    <3>3. k.dirty = FALSE
      BY <1>2 DEF StoreState
    <3>4. CASE ~sess[n].dirty
      BY <3>2, <3>3, <3>4
    <3>5. CASE ~(sess[n].ram > sess[n].done)
      <4>1. sess[n].ram <= sess[n].done
        BY <3>2, <3>5
      <4> QED BY <3>3, <4>1
    <3> QED BY <3>1, <3>4, <3>5
  <2> HIDE DEF k
  <2>4. /\ blob' = blob /\ th' = [th EXCEPT ![t].pc = "release"]
        /\ excused' = excused /\ excused \in BOOLEAN
        /\ UNCHANGED <<key, flock, flush, overwrote, opens, app, written>>
    BY <1>5 DEF NothingToSeal, AppInv, TypeOK
  <2> QED
    BY <1>1, <2>1, <2>2, <2>3, <2>4, SealMove
<1> QED
  BY <1>3, <1>4, <1>5

LEMMA DiesAppInv == ASSUME AppInv, NEW p \in Servers \cup {Main}, Dies(p) PROVE AppInv'
<1> USE DEF At
<1> DEFINE mine == {n \in Sessions : sess[n].by = p}
<1>1. /\ th' = [t \in Threads |-> IF Process(t) = p THEN Idle ELSE th[t]]
      /\ sess' = [n \in Sessions |-> IF n \in mine THEN Gone ELSE sess[n]]
      /\ flock' = IF flock \in mine THEN None ELSE flock
      /\ reseal' = [x \in Timers |-> IF reseal[x].on \in mine THEN NoReseal ELSE reseal[x]]
      /\ excused' = (excused \/ \E n \in mine : (Live(n) /\ sess[n].dirty) \/ Unfinished(n))
      /\ IF p = Main THEN comp' = None /\ mu' = NoThread ELSE UNCHANGED <<comp, mu>>
      /\ stale' \in BOOLEAN /\ away' \in BOOLEAN
      /\ UNCHANGED <<key, blob, overwrote, overtook, opens, written>>
  BY DEF Dies, app, AppInv, TypeOK
<1>2. ASSUME NEW u \in Threads
      PROVE  /\ th'[u].pc # "idle" => th'[u] = th[u] /\ Process(u) # p
             /\ Process(u) # p => th'[u] = th[u]
  BY <1>1, IdleState
<1>3. ASSUME NEW m \in Sessions
      PROVE  /\ sess'[m] \in StoreState
             /\ m \notin mine => sess'[m] = sess[m]
             /\ m \in mine => sess'[m].pc = "closed" /\ sess'[m].ram = 0 /\ sess'[m].done = 0
                              /\ sess'[m].dek = Zeroed
  <2>1. Gone \in StoreState /\ Gone.pc = "closed" /\ Gone.ram = 0 /\ Gone.done = 0 /\ Gone.dek = Zeroed
    <3>1. NoStore \in StoreState /\ NoStore.ram = 0 /\ NoStore.done = 0
      BY AppAssumption DEF NoStore, StoreState
    <3> QED
      BY <3>1 DEF Gone, StoreState
  <2>2. CASE m \in mine
    BY <1>1, <2>1, <2>2
  <2>3. CASE m \notin mine
    BY <1>1, <2>3 DEF AppInv, TypeOK
  <2> QED
    BY <2>2, <2>3
<1>4. ASSUME NEW m \in Sessions
      PROVE  /\ Live(m)' <=> Live(m) /\ m \notin mine
             /\ m \in mine <=> sess[m].by = p
             /\ m \in mine => sess[m].pc # "none"
  BY <1>3, AppAssumption DEF Live, AppInv, StoreOfThread, Threads
<1>15. ASSUME NEW x \in Timers
       PROVE  /\ reseal'[x] \in ResealState
              /\ reseal[x].on \in mine => reseal'[x] = NoReseal
              /\ reseal[x].on \notin mine => reseal'[x] = reseal[x]
              /\ reseal'[x].pc # "idle" => reseal'[x] = reseal[x] /\ reseal[x].on \notin mine
  BY <1>1, NoResealState DEF AppInv, TypeOK
<1>5. flock # None => flock \in Sessions /\ Live(flock)
  BY DEF AppInv, LockedLive, TypeOK
<1> HIDE DEF mine
<1>6. TypeOK'
  <2>1. th' \in [Threads -> ThreadState]
    BY <1>1, IdleState DEF AppInv, TypeOK
  <2>2. sess' \in [Sessions -> StoreState]
    BY <1>1, <1>3
  <2>3. \A u \in Threads :
          /\ th'[u].pc \in Opening \cup Holding \cup {"work"} => th'[u].on \in Sessions
          /\ th'[u].pc \in Opening => th'[u].pw \in Passwords
    BY <1>2 DEF AppInv, TypeOK, Opening, Holding
  <2>4. \A m \in Sessions : Live(m)' => sess'[m].dek \in Sessions
    BY <1>3, <1>4 DEF AppInv, TypeOK
  <2>5. comp' \in Sessions \cup {None} /\ mu' \in Threads \cup {NoThread} /\ excused' \in BOOLEAN
    BY <1>1 DEF AppInv, TypeOK
  <2>6. flock' \in Sessions \cup {None}
    BY <1>1 DEF AppInv, TypeOK
  <2>7. reseal' \in [Timers -> ResealState]
    BY <1>1, <1>15
  <2>8. \A x \in Timers : reseal'[x].pc # "idle" => reseal'[x].on \in Sessions
    BY <1>15 DEF AppInv, TypeOK
  <2> QED
    BY <1>1, <2>1, <2>2, <2>3, <2>4, <2>5, <2>6, <2>7, <2>8 DEF AppInv, TypeOK
<1>7. (\A u \in Threads : At(u, "store") => th[u].dek \in Sessions)' /\ Roles' /\ WorkIsAuthorised'
  BY <1>2 DEF AppInv, Roles, WorkIsAuthorised
<1>8. MuHeld'
  <2>1. p = Main => \A u \in Threads : th'[u].pc # "idle" => u \in Servers
    BY <1>2 DEF Process
  <2> QED
    BY <1>1, <1>2, <2>1 DEF AppInv, MuHeld
<1>9. OwnSession'
  <2>1. comp' <= opens'
    BY <1>1 DEF AppInv, OwnSession, TypeOK
  <2>2. \A u \in Threads : th'[u].pc \in Opening \cup Holding => th'[u].on # comp'
    BY <1>1, <1>2 DEF AppInv, OwnSession, TypeOK, Opening, Holding, Sessions
  <2> QED
    BY <1>1, <1>2, <2>1, <2>2 DEF AppInv, OwnSession, Opening, Holding
<1>10. StoreOfThread'
  <2>1. ASSUME NEW u \in Threads, th'[u].pc \in Opening \cup Holding
        PROVE  th'[u] = th[u] /\ sess'[th'[u].on] = sess[th[u].on]
    <3>1. th'[u] = th[u] /\ Process(u) # p /\ th[u].on \in Sessions
      BY <1>2, <2>1 DEF Opening, Holding, AppInv, TypeOK
    <3>2. th[u].on \notin mine
      BY <1>4, <2>1, <3>1 DEF AppInv, StoreOfThread, Live, Opening, Holding
    <3> QED
      BY <1>3, <3>1, <3>2
  <2>2. comp' # None => comp' = comp /\ sess'[comp] = sess[comp]
    BY <1>1, <1>3, <1>4 DEF AppInv, StoreOfThread, TypeOK
  <2>3. \A m \in Sessions : m > opens' => sess'[m].pc = "none"
    BY <1>1, <1>3, <1>4 DEF AppInv, StoreOfThread, Live
  <2>4. \A m \in Sessions : sess'[m].pc = "none" => sess'[m].by = NoThread
    BY <1>3 DEF AppInv, StoreOfThread
  <2> QED
    BY <2>1, <2>2, <2>3, <2>4 DEF AppInv, StoreOfThread, Opening, Holding
<1>11. LockedLive'
  <2>1. flock' # None => Live(flock)'
    BY <1>1, <1>4, <1>5
  <2>2. \A m \in Sessions : Live(m)' => flock' = m
    BY <1>1, <1>4 DEF AppInv, LockedLive
  <2> QED
    BY <2>1, <2>2 DEF LockedLive
<1>12. DriveHasOwner'
  <2>1. SUFFICES ASSUME flock' # None PROVE DriveHasOwner'
    BY DEF DriveHasOwner
  <2>2. flock' = flock /\ flock \notin mine /\ sess[flock].by # p
    BY <1>1, <1>4, <1>5, <2>1
  <2>3. CASE comp = flock
    BY <1>1, <1>5, <2>1, <2>2, <2>3 DEF AppInv, StoreOfThread, DriveHasOwner
  <2>4. CASE comp # flock
    <3>1. PICK u \in Threads : th[u].on = flock /\ th[u].pc \in Holding
      BY <2>1, <2>2, <2>4 DEF AppInv, DriveHasOwner
    <3>2. th'[u] = th[u]
      BY <1>2, <2>2, <3>1 DEF AppInv, StoreOfThread
    <3> QED
      BY <2>2, <3>1, <3>2 DEF DriveHasOwner
  <2> QED
    BY <2>3, <2>4
<1>13. WritesKept'
  <2>1. /\ blob'.gen <= written' /\ \A m \in Sessions : sess'[m].ram <= written' /\ sess'[m].done <= written'
        /\ \A x \in Timers : reseal'[x].gen <= written'
    <3>1. written \in Nat
      BY DEF AppInv, TypeOK
    <3> QED
      BY <1>1, <1>3, <1>15, <3>1, NoResealState DEF AppInv, WritesKept
  <2>2. CASE flock' = None /\ ~excused'
    <3>1. flock # None => flock \in mine /\ ~sess[flock].dirty /\ ~Unfinished(flock)
      BY <1>1, <1>5, <2>2
    <3>2. CASE flock # None
      <4>1. blob.gen = sess[flock].done /\ (blob.gen = written \/ Carried(flock))
        BY <1>1, <2>2, <3>1, <3>2 DEF AppInv, WritesKept
      <4>2. CASE Carried(flock)
        <5>1. ~(written > sess[flock].done)
          BY <3>1, <3>2, <4>2 DEF Carried, Unfinished
        <5>2. sess[flock].done \in Nat /\ written \in Nat /\ sess[flock].done <= written
          BY <1>5, <3>2 DEF AppInv, TypeOK, StoreState, WritesKept
        <5> QED
          BY <1>1, <2>1, <2>2, <4>1, <5>1, <5>2 DEF WritesKept
      <4> QED
        BY <1>1, <2>1, <2>2, <4>1, <4>2 DEF WritesKept
    <3> QED
      BY <1>1, <2>1, <2>2, <3>2 DEF AppInv, WritesKept
  <2>3. CASE flock' # None
    <3>1. flock' = flock /\ flock \notin mine /\ sess'[flock] = sess[flock]
      BY <1>1, <1>3, <1>5, <2>3
    <3>2. ASSUME Carried(flock) PROVE Carried(flock)'
      <4>1. PICK y \in Timers : reseal[y].pc # "idle" /\ reseal[y].on = flock /\ reseal[y].gen = written
        BY <3>2 DEF Carried
      <4>2. reseal'[y] = reseal[y]
        BY <1>15, <3>1, <4>1
      <4> QED
        BY <1>1, <3>1, <4>1, <4>2 DEF Carried
    <3> QED
      BY <1>1, <2>1, <2>3, <3>1, <3>2 DEF AppInv, WritesKept
  <2> QED
    BY <2>1, <2>2, <2>3 DEF WritesKept
<1>14. KeyBound'
  BY <1>1, <1>2, <1>3, <1>4, <1>15 DEF AppInv, KeyBound
<1>16. ResealOfStore'
  <2>1. \A x \in Timers : reseal'[x].pc # "idle" =>
          /\ reseal'[x] = reseal[x] /\ reseal[x].on \in Sessions
          /\ sess'[reseal[x].on] = sess[reseal[x].on]
    BY <1>3, <1>15 DEF AppInv, TypeOK
  <2>2. \A m \in Sessions : sess'[m].pc = "closed" => sess'[m].dek = Zeroed
    BY <1>3 DEF AppInv, ResealOfStore
  <2>3. (overtook' => excused') /\ overtook' = overtook
    BY <1>1 DEF AppInv, ResealOfStore
  <2>4. \A u \in Threads : th'[u].pc = "engine" => th'[u] = th[u]
    BY <1>2
  <2> QED
    BY <2>1, <2>2, <2>3, <2>4 DEF AppInv, ResealOfStore, Live
<1> QED
  BY <1>6, <1>7, <1>8, <1>9, <1>10, <1>11, <1>12, <1>13, <1>14, <1>16 DEF AppInv

LEMMA ArrivalAppInv == ASSUME AppInv, NEW t \in Reqs, Arrival(t) PROVE AppInv'
<1> USE DEF Arrive, At
<1>1. t \in Threads /\ stale \in BOOLEAN /\ away \in BOOLEAN /\ comp \in Sessions \cup {None}
  BY DEF Threads, AppInv, TypeOK
<1>2. t \notin Servers
  BY AppAssumption
<1>3. CASE Visit(t)
  BY <1>1, <1>3, IdleState, FreeMove DEF Visit, Touch, Holding
<1>4. ASSUME NEW pw \in Passwords, Setup(t, pw) \/ Unlock(t, pw) PROVE AppInv'
  <2> DEFINE r == [Idle EXCEPT !.pc = "stat", !.op = "setup", !.on = opens + 1, !.pw = pw]
             s == [Idle EXCEPT !.pc = "open", !.on = opens + 1, !.pw = pw]
  <2>1. opens + 1 \in Sessions
    <3>1. opens < MaxOpens /\ opens \in 0..MaxOpens
      BY <1>4 DEF Setup, Unlock, AppInv, TypeOK
    <3> QED
      BY <3>1, AppAssumption DEF Sessions
  <2>2. r \in ThreadState /\ r.pc = "stat" /\ r.on = opens + 1 /\ r.pw = pw
    BY <2>1 DEF Idle, ThreadState, Opening
  <2>3. s \in ThreadState /\ s.pc = "open" /\ s.op = "none" /\ s.on = opens + 1 /\ s.pw = pw
    BY <2>1 DEF Idle, ThreadState, Opening
  <2>4. /\ th[t].pc = "idle" /\ opens < MaxOpens /\ opens' = opens + 1
        /\ UNCHANGED <<drive, comp, mu, history>> /\ stale' \in BOOLEAN /\ away' \in BOOLEAN
    BY <1>1, <1>4 DEF Setup, Unlock, Touch
  <2>5. th' = [th EXCEPT ![t] = r] \/ th' = [th EXCEPT ![t] = s]
    BY <1>4 DEF Setup, Unlock
  <2> HIDE DEF r, s
  <2> QED
    BY <1>1, <2>2, <2>3, <2>4, <2>5, NewAttempt
<1>5. ASSUME NEW c \in Issued, NEW agent \in BOOLEAN, Lock(t, c) \/ Proxy(t, agent, c) PROVE AppInv'
  <2>1. /\ th[t].pc = "idle" /\ UNCHANGED <<drive, opens, comp, mu, history>>
        /\ stale' \in BOOLEAN /\ away' \in BOOLEAN
    BY <1>1, <1>5 DEF Lock, Proxy, Touch
  <2>2. CASE Lock(t, c)
    <3> DEFINE r == [Idle EXCEPT !.pc = "detach"]
    <3>1. r \in ThreadState /\ r.pc = "detach"
      BY DEF Idle, ThreadState
    <3>2. th' = [th EXCEPT ![t] = r] \/ th' = [th EXCEPT ![t] = Idle]
      BY <2>2 DEF Lock
    <3> HIDE DEF r
    <3> QED
      BY <1>1, <1>2, <2>1, <3>1, <3>2, IdleState, FreeMove DEF Holding
  <2>3. CASE Proxy(t, agent, c)
    <3> DEFINE r == [Idle EXCEPT !.pc = "work", !.cred = c, !.on = comp]
    <3>1. CASE comp # None /\ Authorised(c, comp)
      <4>1. th' = [th EXCEPT ![t] = r]
        BY <2>3, <3>1 DEF Proxy
      <4>2. r \in ThreadState /\ r.pc = "work" /\ r.cred = comp /\ r.on = comp
        BY <1>1, <3>1 DEF Idle, ThreadState, Authorised
      <4> HIDE DEF r
      <4> QED
        BY <2>1, <3>1, <4>1, <4>2, LetIn
    <3>2. CASE ~(comp # None /\ Authorised(c, comp))
      <4>1. th' = [th EXCEPT ![t] = Idle]
        BY <2>3, <3>2 DEF Proxy
      <4> QED
        BY <1>1, <2>1, <4>1, IdleState, FreeMove DEF Holding
    <3> QED
      BY <3>1, <3>2
  <2> QED
    BY <1>5, <2>2, <2>3
<1> QED
  BY <1>3, <1>4, <1>5 DEF Arrival, Use, Control

LEMMA ServeAppInv ==
  ASSUME AppInv, NEW t \in Servers, NEW pw \in Passwords, Serve(t, pw)
  PROVE  AppInv'
<1> DEFINE r == [Idle EXCEPT !.pc = "load", !.on = opens + 1, !.pw = pw]
<1>1. opens + 1 \in Sessions /\ t \in Threads
  BY AppAssumption DEF Serve, Sessions, AppInv, TypeOK, Threads
<1>2. r \in ThreadState /\ r.pc = "load" /\ r.on = opens + 1 /\ r.pw = pw
  BY <1>1 DEF Idle, ThreadState, Opening
<1>3. /\ At(t, "idle") /\ opens < MaxOpens /\ opens' = opens + 1 /\ th' = [th EXCEPT ![t] = r]
      /\ UNCHANGED <<drive, comp, mu, history>> /\ stale' \in BOOLEAN /\ away' \in BOOLEAN
  BY DEF Serve, app, AppInv, TypeOK
<1> HIDE DEF r
<1> QED
  BY <1>1, <1>2, <1>3, NewAttempt

\* The steps of an opening thread that fail or only look.
LEMMA OpenFailsAppInv ==
  ASSUME AppInv, NEW t \in Threads, CreateFails(t) \/ ReadFails(t) \/ OpenStoreFails(t)
  PROVE  AppInv'
<1>1. /\ th[t].pc \in {"create", "write", "read", "store"} /\ th' = [th EXCEPT ![t] = Idle]
      /\ UNCHANGED <<drive, opens, comp, history>> /\ stale' \in BOOLEAN /\ away' \in BOOLEAN
      /\ mu' = mu \/ (mu = t /\ mu' = NoThread)
  BY DEF CreateFails, ReadFails, OpenStoreFails, At, Fail, Respond, AppInv, TypeOK
<1> QED
  BY <1>1, IdleState, FreeMove DEF Holding

LEMMA LookAppInv ==
  ASSUME AppInv, NEW t \in Threads,
         StatKey(t) \/ LookFails(t) \/ TakeMu(t) \/ ReadKey(t) \/ LoadKey(t)
  PROVE  AppInv'
<1> USE DEF At
<1>1. /\ th[t].pc \in {"stat", "load", "open", "read"}
      /\ UNCHANGED <<drive, opens, comp, history>> /\ stale' \in BOOLEAN /\ away' \in BOOLEAN
  BY DEF StatKey, LookFails, TakeMu, ReadKey, LoadKey, app, AppInv, TypeOK
<1>2. th[t] \in ThreadState /\ th \in [Threads -> ThreadState]
  BY DEF AppInv, TypeOK
<1>3. CASE th' = [th EXCEPT ![t] = Idle] /\ mu' = mu
  BY <1>1, <1>3, IdleState, FreeMove DEF Holding
<1>4. CASE StatKey(t) /\ ~KeyThere
  <2> DEFINE r == [th[t] EXCEPT !.pc = "open", !.absent = (key = NoKey)]
  <2>1. th' = [th EXCEPT ![t] = r] /\ mu' = mu /\ th[t].pc = "stat"
    BY <1>2, <1>4 DEF StatKey, app, ThreadState
  <2>2. r \in ThreadState /\ r.pc = "open" /\ r.on = th[t].on /\ r.pw = th[t].pw /\ r.absent
    <3>1. key = NoKey
      BY <1>4 DEF KeyThere, AppInv, TypeOK, KeyFile, Torn, Envelope
    <3> QED
      BY <1>2, <3>1 DEF ThreadState, Opening
  <2>3. t \in Reqs
    BY <2>1 DEF AppInv, Roles
  <2> HIDE DEF r
  <2> QED
    BY <1>1, <2>1, <2>2, <2>3, OpeningMove DEF Opening
<1>5. CASE LookFails(t)
  <2> DEFINE r == [th[t] EXCEPT !.pc = IF th[t].pc = "stat" THEN "open" ELSE "create", !.absent = TRUE]
  <2>1. th' = [th EXCEPT ![t] = r] /\ mu' = mu /\ th[t].pc \in {"stat", "load"}
    <3>1. th' = [th EXCEPT ![t] = r]
      BY <1>5 DEF LookFails
    <3> QED BY <1>5, <3>1 DEF LookFails, app
  <2>2. /\ r \in ThreadState /\ r.on = th[t].on /\ r.pw = th[t].pw /\ r.absent
        /\ r.pc = IF th[t].pc = "stat" THEN "open" ELSE "create"
    <3>1. (IF th[t].pc = "stat" THEN "open" ELSE "create") \in Opening
      BY DEF Opening
    <3> QED
      BY <1>2, <3>1 DEF ThreadState
  <2>3. (th[t].pc = "stat" => t \in Reqs) /\ (th[t].pc = "load" => t \in Servers)
    BY DEF AppInv, Roles
  <2> HIDE DEF r
  <2> QED
    BY <1>1, <2>1, <2>2, <2>3, OpeningMove DEF Opening
<1>6. CASE TakeMu(t) /\ comp = None
  <2> DEFINE r == [th[t] EXCEPT !.pc = IF th[t].op = "setup" THEN "create" ELSE "read"]
  <2>1. th' = [th EXCEPT ![t] = r] /\ mu = NoThread /\ mu' = t /\ th[t].pc = "open"
    BY <1>2, <1>6 DEF TakeMu, Goto
  <2>2. /\ r \in ThreadState /\ r.on = th[t].on /\ r.pw = th[t].pw /\ r.absent = th[t].absent
        /\ r.pc = IF th[t].op = "setup" THEN "create" ELSE "read"
    BY <1>2 DEF ThreadState, Opening
  <2>3. t \in Reqs /\ (th[t].op = "setup" => th[t].absent)
    BY <2>1 DEF AppInv, Roles, KeyBound
  <2> HIDE DEF r
  <2> QED
    BY <1>1, <1>6, <2>1, <2>2, <2>3, OpeningMove DEF Opening
<1>7. CASE (ReadKey(t) \/ LoadKey(t)) /\ Unwraps(th[t].pw)
  <2> DEFINE r == [th[t] EXCEPT !.pc = "store", !.dek = key.dek]
  <2>1. th' = [th EXCEPT ![t] = r] /\ mu' = mu /\ th[t].pc \in {"read", "load"}
    BY <1>2, <1>7 DEF ReadKey, LoadKey, app, ThreadState
  <2>2. key.dek \in Sessions
    BY <1>7 DEF Unwraps, AppInv, TypeOK, KeyFile, NoKey, Torn, Envelope
  <2>3. r \in ThreadState /\ r.pc = "store" /\ r.on = th[t].on /\ r.pw = th[t].pw /\ r.dek = key.dek
    BY <1>2, <2>2 DEF ThreadState, Opening
  <2>4. t \in Servers \/ mu = t
    BY <2>1 DEF AppInv, Roles, MuHeld
  <2> HIDE DEF r
  <2> QED
    BY <1>1, <2>1, <2>2, <2>3, <2>4, OpeningMove DEF Opening
<1> QED
  BY <1>3, <1>4, <1>5, <1>6, <1>7 DEF StatKey, LookFails, TakeMu, ReadKey, LoadKey, Respond, app

LEMMA MainAppInv == ASSUME AppInv, Tick \/ Stop PROVE AppInv'
<1> DEFINE r == [Idle EXCEPT !.pc = "detach"]
           s == [Idle EXCEPT !.pc = "detach", !.op = "stop"]
<1>1. /\ Main \in Threads /\ Main \notin Servers /\ th[Main].pc = "idle"
      /\ UNCHANGED <<drive, opens, comp, mu, history>> /\ stale' \in BOOLEAN /\ away' \in BOOLEAN
  BY AppAssumption DEF Tick, Stop, At, Threads, app, AppInv, TypeOK
<1>2. th' = [th EXCEPT ![Main] = r] \/ th' = [th EXCEPT ![Main] = s]
  BY DEF Tick, Stop
<1>3. r \in ThreadState /\ r.pc = "detach" /\ s \in ThreadState /\ s.pc = "detach"
  BY DEF Idle, ThreadState
<1> HIDE DEF r, s
<1> QED
  BY <1>1, <1>2, <1>3, FreeMove DEF Holding

LEMMA QuietAppInv == ASSUME AppInv, IdleLimit \/ UNCHANGED vars PROVE AppInv'
<1>1. /\ UNCHANGED <<drive, opens, comp, mu, th, history>> /\ stale' \in BOOLEAN /\ away' \in BOOLEAN
  BY DEF IdleLimit, vars, app, AppInv, TypeOK
<1> USE <1>1 DEF drive, flush, history, At, Live
<1>2. TypeOK'
  BY DEF AppInv, TypeOK
<1>3. (\A u \in Threads : At(u, "store") => th[u].dek \in Sessions)' /\ Roles' /\ WorkIsAuthorised'
  BY DEF AppInv, Roles, WorkIsAuthorised
<1>4. MuHeld' /\ OwnSession' /\ StoreOfThread'
  BY DEF AppInv, MuHeld, OwnSession, StoreOfThread
<1>5. LockedLive' /\ DriveHasOwner' /\ ResealOfStore' /\ KeyBound' /\ WritesKept'
  BY DEF AppInv, LockedLive, DriveHasOwner, ResealOfStore, KeyBound, WritesKept, Carried
<1> QED
  BY <1>2, <1>3, <1>4, <1>5 DEF AppInv

LEMMA NextAppInv == AppInv /\ [Next]_vars => AppInv'
<1> SUFFICES ASSUME AppInv, [Next]_vars PROVE AppInv'
  OBVIOUS
<1>1. CASE \E t \in Reqs : Arrival(t)
  BY <1>1, ArrivalAppInv
<1>2. CASE \E s \in Servers, pw \in Passwords : Serve(s, pw)
  BY <1>2, ServeAppInv
<1>3. CASE \E s \in Servers : ServerWork(s) \/ StopServing(s)
  BY <1>3, ServerWorkAppInv, StopServingAppInv
<1>4. ASSUME NEW t \in Threads, OpenStep(t) PROVE AppInv'
  BY <1>4, LookAppInv, TruncateAppInv, WriteKeyAppInv, OpenFailsAppInv, OpenStoreAppInv,
     EngineFailsAppInv, UnlockedAppInv DEF OpenStep
<1>5. ASSUME NEW t \in Threads, Work(t) PROVE AppInv'
  BY <1>5, WorkAppInv
<1>6. ASSUME NEW t \in Threads, LockStep(t) PROVE AppInv'
  <2>1. Process(t) \in Servers \cup {Main}
    BY DEF Process
  <2> QED
    BY <1>6, <2>1, DetachAppInv, SealAppInv, ReleaseAppInv, DiesAppInv DEF LockStep, Exit
<1>7. CASE \E x \in Timers : ResealStep(x)
  BY <1>7, ResealAppInv
<1>8. CASE IdleLimit \/ UNCHANGED vars
  BY <1>8, QuietAppInv
<1>9. CASE Tick \/ Stop
  BY <1>9, MainAppInv
<1>10. CASE \E p \in {Main} \cup Servers : Kill(p)
  BY <1>10, DiesAppInv DEF Kill
<1> QED
  BY <1>1, <1>2, <1>3, <1>4, <1>5, <1>6, <1>7, <1>8, <1>9, <1>10 DEF Next

\* Every reachable state is where the invariant says: who has mu, whose the
\* session, which store is live, which key is in use.
THEOREM AppInductive == Spec => []AppInv
BY InitAppInv, NextAppInv, PTL DEF Spec

\* Type correctness, for any number of requests, servers and attempts.
THEOREM AppTypeCorrect == Spec => []TypeOK
<1>1. AppInv => TypeOK
  BY DEF AppInv
<1> QED
  BY <1>1, AppInductive, PTL

\* The key file holds the key of the blob, unless someone who had seen no key
\* file has meanwhile created one over another, or a Close went past a reseal
\* that then sealed under the zeroed key.
THEOREM KeyOpensBlobCorrect == Spec => []KeyOpensBlob
<1>1. AppInv => KeyOpensBlob
  BY DEF AppInv, KeyBound, KeyOpensBlob
<1> QED
  BY <1>1, AppInductive, PTL

\* Whoever has the drive lock will drop it, or is the unlocked app.
THEOREM DriveHasOwnerCorrect == Spec => []DriveHasOwner
<1>1. AppInv => DriveHasOwner
  BY DEF AppInv
<1> QED
  BY <1>1, AppInductive, PTL

\* Any number of locks, idle locks, exits and unlocks loses no accepted write,
\* except by a kill, a failing drive, a request that outlived its session, or a
\* Close that went past the reseal that carried it.
THEOREM AcceptedIsSealedCorrect == Spec => []AcceptedIsSealed
<1>1. AppInv => AcceptedIsSealed
  BY DEF AppInv, WritesKept, AcceptedIsSealed
<1> QED
  BY <1>1, AppInductive, PTL

\* The store whose counter moves, and why.
LEMMA WhoWrites ==
  ASSUME AppInv, [Next]_vars, NEW n \in Sessions, Live(n), sess[n].by = Main,
         sess'[n].ram > sess[n].ram
  PROVE  \E t \in Reqs : At(t, "work") /\ ~At(t, "work")' /\ th[t].cred = n
<1> USE DEF Live, drive, flush, app, history
<1>1. /\ sess \in [Sessions -> StoreState] /\ sess[n] \in StoreState /\ sess[n].ram \in Nat
      /\ sess' # sess /\ sess'[n] # sess[n] /\ sess'[n].ram # sess[n].ram /\ sess'[n].ram # 0
  <2>1. sess \in [Sessions -> StoreState] /\ sess[n] \in StoreState /\ sess[n].ram \in Nat
    BY DEF AppInv, TypeOK, StoreState
  <2>2. sess'[n].ram # sess[n].ram /\ sess'[n].ram # 0
    BY <2>1
  <2> QED
    BY <2>1, <2>2
<1>2. ASSUME NEW t \in Threads, Work(t)
      PROVE  \E u \in Reqs : At(u, "work") /\ ~At(u, "work")' /\ th[u].cred = n
  <2>1. th[t].pc = "work" /\ Accept(th[t].on)
    BY <1>1, <1>2 DEF Work, At
  <2>2. th[t].on = n
    BY <1>1, <2>1 DEF Accept
  <2>3. th[t].cred = n /\ t \in Reqs
    BY <2>1, <2>2 DEF AppInv, WorkIsAuthorised, Roles, At
  <2>4. th'[t].pc = "idle"
    BY <1>2, IdleState DEF Work, Respond, AppInv, TypeOK
  <2> QED
    BY <2>1, <2>3, <2>4 DEF At
<1>3. ASSUME NEW s \in Servers, ServerWork(s) PROVE FALSE
  <2>1. s \in Threads /\ th[s].pc \in Holding /\ Accept(th[s].on)
    BY <1>3 DEF ServerWork, Threads, Holding
  <2>2. th[s].on # n
    BY <2>1, AppAssumption DEF AppInv, StoreOfThread, Process
  <2> QED
    BY <1>1, <2>1, <2>2 DEF Accept
<1>4. ASSUME NEW t \in Threads, OpenStep(t) PROVE FALSE
  <2>1. CASE OpenStore(t)
    <3>1. th[t].pc = "store" /\ flock = None /\ n # None
      BY <2>1 DEF OpenStore, DriveFree, At, Sessions
    <3> QED
      BY <3>1 DEF AppInv, LockedLive
  <2>2. CASE EngineFails(t)
    BY <1>1, <2>2 DEF EngineFails, GiveBack, Closed
  <2>3. CASE UNCHANGED sess
    BY <1>1, <2>3
  <2> QED
    BY <1>4, <2>1, <2>2, <2>3 DEF OpenStep, StatKey, TakeMu, Truncate, WriteKey, CreateFails,
       ReadKey, ReadFails, LoadKey, LookFails, OpenStoreFails, Unlocked
<1>5. ASSUME NEW p \in Servers \cup {Main}, Dies(p) PROVE FALSE
  <2>1. sess'[n] = sess[n] \/ sess'[n] = Gone
    BY <1>5 DEF Dies
  <2> QED
    BY <1>1, <2>1 DEF StoreState, Gone, NoStore
<1>6. ASSUME NEW t \in Threads, LockStep(t) PROVE FALSE
  <2>1. CASE Seal(t)
    BY <1>1, <2>1 DEF Seal
  <2>2. CASE SealFails(t) \/ NothingToSeal(t)
    <3>1. CASE SealFails(t)
      BY <1>1, <3>1 DEF SealFails
    <3>2. CASE NothingToSeal(t)
      BY <1>1, <3>2 DEF NothingToSeal
    <3> QED BY <2>2, <3>1, <3>2
  <2>3. CASE Release(t)
    BY <1>1, <2>3 DEF Release, Closed
  <2>4. CASE Exit(t)
    <3>1. Process(t) \in Servers \cup {Main}
      BY DEF Process
    <3> QED
      BY <1>5, <2>4, <3>1 DEF Exit
  <2>5. CASE Detach(t)
    BY <1>1, <2>5 DEF Detach
  <2> QED
    BY <1>6, <2>1, <2>2, <2>3, <2>4, <2>5 DEF LockStep
<1>7. ASSUME NEW x \in Timers, ResealStep(x) PROVE FALSE
  <2>1. CASE \E m \in Sessions : Snapshot(x, m)
    BY <1>1, <2>1 DEF Snapshot
  <2>2. CASE Superseded(x) \/ StartWrite(x)
    BY <1>1, <2>2 DEF Superseded, StartWrite
  <2>3. CASE AtomicWrite(x)
    BY <1>1, <2>3 DEF AtomicWrite
  <2>4. CASE WriteFails(x)
    BY <1>1, <2>4 DEF WriteFails
  <2> QED
    BY <1>7, <2>1, <2>2, <2>3, <2>4 DEF ResealStep
<1>8. CASE \E p \in {Main} \cup Servers : Kill(p)
  BY <1>5, <1>8 DEF Kill
<1>9. CASE \/ \E t \in Reqs : Arrival(t)
           \/ \E s \in Servers, pw \in Passwords : Serve(s, pw)
           \/ \E s \in Servers : StopServing(s)
           \/ IdleLimit \/ Tick \/ Stop \/ UNCHANGED vars
  <2>1. sess' = sess
    BY <1>9 DEF Arrival, Visit, Setup, Unlock, Lock, Use, Control, Proxy, Arrive, Serve, StopServing,
       IdleLimit, Tick, Stop, vars
  <2> QED
    BY <1>1, <2>1
<1> QED
  BY <1>2, <1>3, <1>4, <1>6, <1>7, <1>8, <1>9 DEF Next

\* No request changes a store but that of the session that issued its
\* credential.
THEOREM WritesAreAuthorisedCorrect == Spec => WritesAreAuthorised
<1>1. AppInv /\ [Next]_vars =>
        [\A n \in Sessions : Live(n) /\ sess[n].by = Main /\ sess[n].ram' > sess[n].ram =>
           \E t \in Reqs : At(t, "work") /\ ~At(t, "work")' /\ th[t].cred = n]_vars
  BY WhoWrites
<1> QED
  BY <1>1, AppInductive, PTL DEF Spec, WritesAreAuthorised

=============================================================================

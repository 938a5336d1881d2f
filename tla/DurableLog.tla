---------------------------- MODULE DurableLog ----------------------------
(***************************************************************************)
(* What the encrypted store promises, with the flush machinery left out: a *)
(* drive that keeps one database image, and at most one session that works *)
(* on a copy in memory.  A persist step replaces the image by a state the  *)
(* session really was in, and never goes back to an older one.  A session  *)
(* that ends, by Close or by a crash, gives up what was not yet persisted. *)
(* If a session is ever closed over a flush that is still running (torn),  *)
(* nothing is promised any more.                                           *)
(***************************************************************************)
CONSTANT Update          \* the effects a tool's writes can have on the data

VARIABLES
  live,                  \* a session is open
  volatile,              \* the session's database, in memory
  versions,              \* every state that database has been in so far
  durable,               \* the image on the drive
  torn                   \* a Close overtook a flush

vars == <<live, volatile, versions, durable, torn>>

Init ==
  /\ live = FALSE
  /\ volatile = {}
  /\ versions = {}
  /\ durable = {}
  /\ torn = FALSE

Begin ==
  /\ ~live
  /\ live' = TRUE
  /\ volatile' = durable
  /\ versions' = {durable}
  /\ UNCHANGED <<durable, torn>>

Put(u) ==
  /\ live
  /\ volatile' = volatile \cup {u}
  /\ versions' = versions \cup {volatile'}
  /\ UNCHANGED <<live, durable, torn>>

Persist(v) ==
  /\ live
  /\ durable \subseteq v
  /\ durable' = v
  /\ UNCHANGED <<live, volatile, versions, torn>>

End ==
  /\ live
  /\ live' = FALSE
  /\ volatile' = {}
  /\ versions' = {}
  /\ UNCHANGED <<durable, torn>>

Misuse == torn' = TRUE

Next ==
  \/ Begin
  \/ \E u \in Update : Put(u)
  \/ \E v \in versions : Persist(v)
  \/ End
  \/ Misuse

Spec == Init /\ [][Next]_vars
=============================================================================

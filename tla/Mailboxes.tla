----------------------------- MODULE Mailboxes -----------------------------
(***************************************************************************)
(* What the queue primitive promises a tool: one FIFO mailbox per          *)
(* namespace and name.  A message that was pushed is delivered in order    *)
(* and once, except that a restart goes back to the mailboxes that were    *)
(* last persisted: what was pushed since is lost, what was delivered since *)
(* is delivered again.                                                     *)
(***************************************************************************)
EXTENDS Sequences

CONSTANTS Boxes, Msgs, Nothing

VARIABLES
  box,                   \* messages waiting in each mailbox
  saved,                 \* the mailboxes as last persisted
  given                  \* the last delivery: <<mailbox, message>>, or Nothing

vars == <<box, saved, given>>

Init ==
  /\ box = [b \in Boxes |-> <<>>]
  /\ saved = box
  /\ given = Nothing

Push(b, m) ==
  /\ given' = Nothing
  /\ box' = [box EXCEPT ![b] = Append(@, m)]
  /\ UNCHANGED saved

Pop(b) ==
  /\ box[b] # <<>>
  /\ given' = <<b, Head(box[b])>>
  /\ box' = [box EXCEPT ![b] = Tail(@)]
  /\ UNCHANGED saved

\* Anything else a tool does.
Other ==
  /\ given' = Nothing
  /\ UNCHANGED <<box, saved>>

Persist ==
  /\ given' = Nothing
  /\ saved' = box
  /\ UNCHANGED box

Restart ==
  /\ given' = Nothing
  /\ box' = saved
  /\ UNCHANGED saved

Next ==
  \/ Other \/ Persist \/ Restart
  \/ \E b \in Boxes, m \in Msgs : Push(b, m)
  \/ \E b \in Boxes : Pop(b)

Spec == Init /\ [][Next]_vars
=============================================================================

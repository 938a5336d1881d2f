------------------------------- MODULE Engine -------------------------------
(***************************************************************************)
(* One tool invocation: jsengine.InvokeWithLimits driving a tool in its    *)
(* sandbox.  The tool and the driver never run at the same time: the tool  *)
(* runs while the driver is inside Eval or LoopOnce, its read handler      *)
(* while the driver is inside PollIO.  The tool writes frames (host calls, *)
(* log lines, one result or error) to a buffer that the driver takes; the  *)
(* driver writes responses to a pipe that the read handler drains in       *)
(* chunks (one os.read of 64 KiB).  The deadline may pass at any moment,   *)
(* if the grant has one, and the client may go away at any moment.         *)
(*                                                                         *)
(* The tool's code is any: which frames it writes, which timers of its own *)
(* it sets (os.setTimeout, the engine runs with --std) and when it settles *)
(* is chosen freely, except that it writes frames by console, foundry.*    *)
(* and __run only.  quickjs and wazero are external, modelled by what      *)
(* invoke.go and bootstrap.js rely on: a sandbox entered or caught running *)
(* after the context is done returns an error; LoopOnce runs jobs and due  *)
(* timers, and a timer that is not due is nothing pending.                 *)
(***************************************************************************)
EXTENDS Naturals, Sequences

CONSTANTS
  MaxIdle,               \* maxIdleSpins
  MaxChunks,             \* bound: chunks of one response
  MaxCalls, MaxLogs      \* bounds: frames a tool writes

ASSUME EngineAssumption ==
  MaxIdle \in Nat /\ MaxChunks \in Nat \ {0} /\ MaxCalls \in Nat /\ MaxLogs \in Nat

VARIABLES
  pc,                    \* where the driver is
  batch, progressed,     \* frames taken and not yet handled; any taken?
  idle,                  \* spins without progress
  logs,                  \* log lines collected: the number of each
  frames,                \* frameWriter.frames: written and not yet taken
  pipe,                  \* respPipe: [id, chunks] of each response
  tool,                  \* the tool: [ready, pending, calls, logs, settled]
  wall,                  \* lim.Wall > 0: the grant names a wall-clock limit
  late,                  \* the context is done: deadline or client gone
  timer,                 \* a timer that the tool has set is pending
  outcome,               \* how the invocation ended
  executed,              \* history: host calls begun, in order
  sentBefore,            \* history: calls and logs written before settling
  lateCalls,             \* history: host calls begun after the deadline
  fired                  \* history: a timer's callback ran in this spin

vars == <<pc, batch, progressed, idle, logs, frames, pipe, tool, wall, late, timer, outcome,
          executed, sentBefore, lateCalls, fired>>
driver  == <<batch, progressed, idle, logs>>
clock   == <<wall, late, timer>>
history == <<executed, sentBefore, lateCalls, fired>>

Init ==
  /\ pc = "load"
  /\ batch = <<>> /\ progressed = FALSE /\ idle = 0 /\ logs = <<>>
  /\ frames = <<>> /\ pipe = <<>>
  /\ tool = [ready |-> FALSE, pending |-> {}, calls |-> 0, logs |-> 0, settled |-> FALSE]
  /\ wall \in BOOLEAN /\ late = FALSE /\ timer = FALSE
  /\ outcome = "none"
  /\ executed = <<>> /\ sentBefore = [calls |-> 0, logs |-> 0] /\ lateCalls = 0
  /\ fired = FALSE

\* context.WithTimeout, from the moment the tool's own code runs: armed only
\* for a limit that is not zero, and a grant is stored as the client sent it.
Deadline ==
  /\ wall
  /\ outcome = "none"
  /\ ~late
  /\ late' = TRUE
  /\ UNCHANGED <<pc, driver, frames, pipe, tool, wall, timer, outcome, history>>

\* The client that asked for the run goes away: its request's context is done.
Cancelled ==
  /\ outcome = "none"
  /\ ~late
  /\ late' = TRUE
  /\ UNCHANGED <<pc, driver, frames, pipe, tool, wall, timer, outcome, history>>

\* InvokeWithLimits returns; the sandbox is discarded.
End(how) ==
  /\ pc' = "done"
  /\ outcome' = how
  /\ UNCHANGED <<driver, frames, pipe, tool, clock, history>>

-----------------------------------------------------------------------------
(* The tool, while the driver is inside the sandbox *)

\* Its source is being loaded, or one of its jobs runs.
ToolRuns == pc = "load" \/ (pc = "loop" /\ tool.ready)

Send(f) == frames' = Append(frames, f)

\* hostCall: a new id, a pending promise, a call frame.
ToolCalls ==
  LET id == tool.calls + 1 IN
  /\ ToolRuns
  /\ id <= MaxCalls
  /\ tool' = [tool EXCEPT !.calls = id, !.pending = @ \cup {id}]
  /\ Send([t |-> "call", id |-> id])
  /\ UNCHANGED <<pc, driver, pipe, clock, outcome, history>>

\* A console line; its text is which line of the tool's it is.
ToolLogs ==
  LET line == tool.logs + 1 IN
  /\ ToolRuns
  /\ line <= MaxLogs
  /\ tool' = [tool EXCEPT !.logs = line]
  /\ Send([t |-> "log", id |-> line])
  /\ UNCHANGED <<pc, driver, pipe, clock, outcome, history>>

\* run(input) resolves or throws: the one terminal frame.  What other async
\* functions the tool started may go on.
ToolSettles(how) ==
  /\ pc = "loop" /\ tool.ready
  /\ ~tool.settled
  /\ tool' = [tool EXCEPT !.settled = TRUE]
  /\ Send([t |-> how, id |-> 0])
  /\ sentBefore' = [calls |-> tool.calls, logs |-> tool.logs]
  /\ UNCHANGED <<pc, driver, pipe, clock, outcome, executed, lateCalls, fired>>

\* os.setTimeout, or os.clearTimeout.
ToolTimer ==
  /\ ToolRuns
  /\ timer' = ~timer
  /\ UNCHANGED <<pc, driver, frames, pipe, tool, wall, late, outcome, history>>

\* LoopOnce finds a timer due and runs its callback, which may wake whatever
\* awaits it; the tool may have others.
TimerFires ==
  /\ pc = "loop" /\ timer
  /\ timer' \in BOOLEAN
  /\ tool' = [tool EXCEPT !.ready = TRUE]
  /\ fired' = TRUE
  /\ UNCHANGED <<pc, driver, frames, pipe, wall, late, outcome, executed, sentBefore, lateCalls>>

ToolStep ==
  ToolCalls \/ ToolLogs \/ ToolTimer \/ \E how \in {"result", "error"} : ToolSettles(how)

-----------------------------------------------------------------------------
(* Eval of the source and of __run() *)

EvalReturns ==
  /\ pc \in {"load", "start"}
  /\ ~late
  /\ pc' = IF pc = "load" THEN "start" ELSE "top"
  /\ tool' = [tool EXCEPT !.ready = @ \/ pc = "start"]
  /\ UNCHANGED <<driver, frames, pipe, clock, outcome, history>>

\* The source does not load, or __run is gone; or the deadline interrupts.
EvalFails ==
  /\ pc \in {"load", "start"}
  /\ End(IF late THEN "timeout" ELSE "load error")

-----------------------------------------------------------------------------
(* The event loop *)

TakeKeeps == frames
Take == <<>>

\* The top of the loop: the deadline, then the frames written so far.
LoopTop ==
  /\ pc = "top"
  /\ IF late THEN End("timeout")
     ELSE /\ pc' = "batch"
          /\ batch' = frames
          /\ frames' = Take
          /\ progressed' = (frames # <<>>)
          /\ fired' = FALSE
          /\ UNCHANGED <<idle, logs, pipe, tool, clock, outcome, executed, sentBefore, lateCalls>>

\* A frame that does not end the batch is done with.
NextFrame == batch' = Tail(batch)

HandleCall ==
  /\ pc = "batch" /\ batch # <<>>
  /\ Head(batch).t = "call"
  /\ pc' = "host"
  /\ executed' = Append(executed, Head(batch).id)
  /\ lateCalls' = IF late THEN lateCalls + 1 ELSE lateCalls
  /\ UNCHANGED <<driver, frames, pipe, tool, clock, outcome, sentBefore, fired>>

AnswersLatest == tool.calls
Answers == Head(batch).id

\* The host call returns, a value or an error: the response is written.
HostReturns ==
  /\ pc = "host"
  /\ \E c \in 1..MaxChunks : pipe' = Append(pipe, [id |-> Answers, chunks |-> c])
  /\ pc' = "respond"
  /\ UNCHANGED <<driver, frames, tool, clock, outcome, history>>

HandleLog ==
  /\ pc = "batch" /\ batch # <<>>
  /\ Head(batch).t = "log"
  /\ NextFrame
  /\ logs' = Append(logs, Head(batch).id)
  /\ UNCHANGED <<pc, progressed, idle, frames, pipe, tool, clock, outcome, history>>

\* The first terminal frame answers the invocation; frames after it are lost.
EndsBatchAnywhere(i) == TRUE
EndsBatch(i) == i = 1

HandleEnd ==
  /\ pc = "batch" /\ batch # <<>>
  /\ \E i \in 1..Len(batch) :
       /\ batch[i].t \in {"result", "error"}
       /\ EndsBatch(i)
       /\ End(IF batch[i].t = "result" THEN "value" ELSE "tool error")

BatchDone ==
  /\ pc = "batch" /\ batch = <<>>
  /\ pc' = "loop"
  /\ UNCHANGED <<driver, frames, pipe, tool, clock, outcome, history>>

\* The read handler: one chunk; a complete line settles its promise.
ReadHandler ==
  IF pipe = <<>> THEN UNCHANGED <<pipe, tool>>
  ELSE IF Head(pipe).chunks > 1
  THEN pipe' = [pipe EXCEPT ![1].chunks = @ - 1] /\ UNCHANGED tool
  ELSE /\ pipe' = Tail(pipe)
       /\ tool' = [tool EXCEPT !.pending = @ \ {Head(pipe).id}, !.ready = TRUE]

\* writeResp pokes PollIO and hands its error on.
CanPollAlways == TRUE
CanPoll == ~late

Respond ==
  /\ pc = "respond"
  /\ CanPoll
  /\ ReadHandler
  /\ pc' = "batch"
  /\ NextFrame
  /\ UNCHANGED <<progressed, idle, logs, frames, clock, outcome, history>>

\* PollIO after the deadline: an error, from writeResp or from the loop.
PollFails ==
  /\ pc \in {"respond", "poll"}
  /\ late
  /\ End("poll io")

\* LoopOnce returns; more says whether jobs are left.  A timer that is not due
\* yet does not count.
LoopOnce(more) ==
  /\ pc = "loop"
  /\ more => tool.ready
  /\ tool' = [tool EXCEPT !.ready = more]
  /\ IF more \/ progressed
     THEN pc' = "top" /\ idle' = 0
     ELSE pc' = "poll" /\ UNCHANGED idle
  /\ UNCHANGED <<batch, progressed, logs, frames, pipe, clock, outcome, history>>

\* The deadline interrupts the tool, or the sandbox breaks (memory limit).
LoopFailsOnTime == pc = "loop" /\ ~late /\ End("event loop")
LoopFails ==
  /\ pc = "loop"
  /\ End(IF late THEN "timeout" ELSE "event loop")

GiveUpEarly(spins) == spins >= MaxIdle
GiveUpLate(spins) == spins > MaxIdle + 1
GiveUp(spins) == spins > MaxIdle

\* Nothing to do: nudge the read handler, and give up after maxIdleSpins.
IdlePoll ==
  /\ pc = "poll"
  /\ CanPoll
  /\ ReadHandler
  /\ idle' = idle + 1
  /\ IF GiveUp(idle + 1)
     THEN pc' = "done" /\ outcome' = "stalled"
     ELSE pc' = "top" /\ UNCHANGED outcome
  /\ UNCHANGED <<batch, progressed, logs, frames, clock, history>>

DriverStep ==
  \/ EvalReturns \/ EvalFails
  \/ LoopTop \/ HandleCall \/ HandleLog \/ HandleEnd \/ BatchDone
  \/ Respond \/ PollFails
  \/ \E more \in BOOLEAN : LoopOnce(more)
  \/ LoopFails \/ IdlePoll

Next == Deadline \/ Cancelled \/ ToolStep \/ TimerFires \/ DriverStep \/ HostReturns

Spec == Init /\ [][Next]_vars

\* The deadline comes, if there is one; the driver goes on where nothing but
\* the driver decides; wazero interrupts once the context is done; a host call
\* returns once its context is done.  A tool may loop for ever, and nobody need
\* go away.
Fairness ==
  /\ WF_vars(Deadline)
  /\ WF_vars(LoopTop \/ HandleCall \/ HandleLog \/ HandleEnd \/ BatchDone)
  /\ WF_vars(Respond \/ PollFails \/ IdlePoll)
  /\ WF_vars(late /\ (EvalFails \/ LoopFails))
  /\ WF_vars(late /\ HostReturns)

FairSpec == Spec /\ Fairness

-----------------------------------------------------------------------------
(* Properties *)

Frame ==
  [t : {"call"}, id : 1..MaxCalls] \cup [t : {"log"}, id : 1..MaxLogs]
    \cup [t : {"result", "error"}, id : {0}]

\* Every variable has its type, pending promises are calls that were made, and
\* while a host call is answered its frame is the head of the batch.
TypeOK ==
  /\ pc \in {"load", "start", "top", "batch", "host", "respond", "loop", "poll", "done"}
  /\ batch \in Seq(Frame) /\ frames \in Seq(Frame)
  /\ pc \in {"host", "respond"} => batch # <<>> /\ Head(batch).t = "call"
  /\ progressed \in BOOLEAN
  /\ wall \in BOOLEAN /\ late \in BOOLEAN /\ timer \in BOOLEAN /\ fired \in BOOLEAN
  /\ idle \in 0..(MaxIdle + 1) /\ (idle <= MaxIdle \/ pc = "done")
  /\ logs \in Seq(1..MaxLogs) /\ executed \in Seq(1..MaxCalls)
  /\ pipe \in Seq([id : 1..MaxCalls, chunks : 1..MaxChunks])
  /\ tool \in [ready : BOOLEAN, pending : SUBSET (1..MaxCalls), calls : 0..MaxCalls,
               logs : 0..MaxLogs, settled : BOOLEAN]
  /\ tool.pending \subseteq 1..tool.calls
  /\ outcome \in {"none", "value", "tool error", "timeout", "load error", "poll io",
                  "event loop", "stalled"}
  /\ sentBefore \in [calls : 0..MaxCalls, logs : 0..MaxLogs]
  /\ lateCalls \in Nat

\* Host calls take effect once each and in the order the tool made them,
\* however its frames are spread over batches.
CallsOnceInOrder ==
  /\ Len(executed) <= tool.calls
  /\ \A i \in 1..Len(executed) : executed[i] = i

\* A promise of the tool settles only after its own call was executed, and a
\* response is never delivered twice.
ResponsesAnswerCalls ==
  /\ \A i \in 1..Len(pipe) : pipe[i].id \in tool.pending
  /\ \A id \in 1..tool.calls : id \notin tool.pending => id <= Len(executed)

\* When the tool's result (or error) is returned, every host call it made before
\* settling has been executed, awaited or not, and the log lines it wrote before
\* come with the result, in order; nothing it did later has happened.
NothingBeforeResultIsLost ==
  outcome \in {"value", "tool error"} =>
    /\ Len(executed) = sentBefore.calls
    /\ logs = [i \in 1..sentBefore.logs |-> i]

\* After the deadline at most one more host call begins: the one whose frame
\* was already taken when the deadline passed.
AtMostOneLateCall == lateCalls <= 1

\* All that can be on its way to the tool, of which each response is read once
\* as it is written, fits into fewer than maxIdleSpins reads (16 MiB in the code).
ResponsesFit == MaxCalls * (MaxChunks - 1) < MaxIdle

\* "One awaiting something the host never delivers": a tool is given up as
\* stalled only if none of its jobs can run, no response is on its way and what
\* it has written is dealt with, so that of all that the host does nothing could
\* have moved it: only a timer of its own could, one that is not due yet or one
\* that came due in the very last spin.  (This needs ResponsesFit.)
StalledIsStuck ==
  outcome = "stalled" => pipe = <<>> /\ ~tool.ready /\ (frames = <<>> \/ fired)

\* "Bounded by lim": whatever the tool does, an invocation with a wall-clock
\* limit ends, and so does one whose client has gone away.
InvocationEnds == wall \/ late ~> outcome # "none"
=============================================================================

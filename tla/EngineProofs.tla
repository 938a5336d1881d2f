---------------------------- MODULE EngineProofs ----------------------------
(* What holds of Engine for any number of frames, chunks and spins, and     *)
(* whatever the tool does.  Frames on their way are the rest of the batch   *)
(* followed by what was written since; the argument is about that sequence. *)
EXTENDS Engine, SequenceTheorems, TLAPS

-----------------------------------------------------------------------------
(* Sequences of frames *)

Ends(f) == f.t \in {"result", "error"}

\* Of the frames of kind k (calls or log lines) the tool sent 1..sent, of which
\* mark before it settled; done are handled, and Q carries the others, in order,
\* those up to mark before the frame that ends the invocation.
Carries(Q, k, done, sent, mark) ==
  /\ done <= sent /\ mark <= sent
  /\ \A i, j \in 1..Len(Q) : i < j /\ Q[i].t = k /\ Q[j].t = k => Q[i].id < Q[j].id
  /\ \A i \in 1..Len(Q) : Q[i].t = k => Q[i].id \in (done + 1)..sent
  /\ \A n \in (done + 1)..sent : \E i \in 1..Len(Q) : Q[i].t = k /\ Q[i].id = n
  /\ \A p \in 1..Len(Q) : Ends(Q[p]) =>
       /\ done <= mark
       /\ \A i \in 1..(p - 1) : Q[i].t = k => Q[i].id <= mark
       /\ \A i \in (p + 1)..Len(Q) : Q[i].t = k => Q[i].id > mark

Kinds == {"call", "log"}

LEMMA FrameTyped ==
  ASSUME NEW f \in Frame
  PROVE  f.id \in Nat /\ (f.t \in Kinds <=> ~Ends(f))
  BY EngineAssumption DEF Frame, Ends, Kinds

LEMMA CarriesMore ==
  ASSUME NEW Q \in Seq(Frame), NEW f \in Frame, NEW k \in Kinds,
         NEW done \in Nat, NEW sent \in Nat, NEW mark \in Nat,
         Carries(Q, k, done, sent, mark), f.t = k, f.id = sent + 1
  PROVE  Carries(Append(Q, f), k, done, sent + 1, mark)
<1> DEFINE R == Append(Q, f)
           n == Len(Q)
<1>1. /\ n \in Nat /\ Len(R) = n + 1 /\ R[n + 1] = f
      /\ \A i \in 1..n : R[i] = Q[i] /\ Q[i].id \in Nat
  BY AppendProperties, LenProperties, ElementOfSeq, FrameTyped
<1>2. ~Ends(f)
  BY DEF Ends, Kinds
<1> HIDE DEF R, n
<1>3. \A i \in 1..(n + 1) : i \in 1..n \/ i = n + 1
  BY <1>1
<1>4. \A i \in 1..n : Q[i].t = k => Q[i].id < f.id
  BY <1>1 DEF Carries, n
<1>5. ASSUME NEW i \in 1..Len(R), NEW j \in 1..Len(R), i < j, R[i].t = k, R[j].t = k
      PROVE  R[i].id < R[j].id
  <2>1. i \in 1..n /\ R[i] = Q[i] /\ Q[i].t = k
    BY <1>1, <1>5
  <2>2. CASE j = n + 1
    BY <1>1, <1>4, <2>1, <2>2
  <2>3. CASE j \in 1..n
    BY <1>1, <1>5, <2>1, <2>3 DEF Carries, n
  <2> QED BY <1>1, <1>3, <2>2, <2>3
<1>6. \A i \in 1..Len(R) : R[i].t = k => R[i].id \in (done + 1)..(sent + 1)
  <2> TAKE i \in 1..Len(R)
  <2>1. CASE i = n + 1
    <3>1. R[i].id = sent + 1 /\ done <= sent
      BY <1>1, <2>1 DEF Carries
    <3> QED BY <3>1
  <2>2. CASE i \in 1..n
    <3>1. R[i] = Q[i] /\ (Q[i].t = k => Q[i].id \in (done + 1)..sent)
      BY <1>1, <2>2 DEF Carries, n
    <3> QED BY <3>1
  <2> QED BY <1>1, <1>3, <2>1, <2>2
<1>7. \A m \in (done + 1)..(sent + 1) : \E i \in 1..Len(R) : R[i].t = k /\ R[i].id = m
  <2> TAKE m \in (done + 1)..(sent + 1)
  <2>1. CASE m = sent + 1
    BY <1>1, <2>1
  <2>2. CASE m \in (done + 1)..sent
    <3>1. PICK i \in 1..n : Q[i].t = k /\ Q[i].id = m
      BY <2>2 DEF Carries, n
    <3> QED BY <1>1, <3>1
  <2> QED BY <2>1, <2>2
<1>8. ASSUME NEW p \in 1..Len(R), Ends(R[p])
      PROVE  /\ done <= mark
             /\ \A i \in 1..(p - 1) : R[i].t = k => R[i].id <= mark
             /\ \A i \in (p + 1)..Len(R) : R[i].t = k => R[i].id > mark
  <2>1. p \in 1..n /\ Ends(Q[p])
    BY <1>1, <1>2, <1>3, <1>8
  <2>2. \A i \in (p + 1)..Len(R) : i \in (p + 1)..n \/ i = n + 1
    BY <1>1, <2>1
  <2>3. f.id > mark
    BY DEF Carries
  <2>4. /\ done <= mark
        /\ \A i \in 1..(p - 1) : Q[i].t = k => Q[i].id <= mark
        /\ \A i \in (p + 1)..n : Q[i].t = k => Q[i].id > mark
    BY <2>1 DEF Carries, n
  <2>5. \A i \in 1..(p - 1) : i \in 1..n /\ R[i] = Q[i]
    BY <1>1, <2>1
  <2>6. \A i \in (p + 1)..n : i \in 1..n /\ R[i] = Q[i]
    BY <1>1, <2>1
  <2> QED BY <1>1, <2>2, <2>3, <2>4, <2>5, <2>6
<1> QED
  BY <1>5, <1>6, <1>7, <1>8 DEF Carries, R

\* A frame of another kind; the one that ends the invocation marks what was sent.
LEMMA CarriesOther ==
  ASSUME NEW Q \in Seq(Frame), NEW f \in Frame, NEW k \in Kinds,
         NEW done \in Nat, NEW sent \in Nat, NEW mark \in Nat, NEW new \in Nat,
         Carries(Q, k, done, sent, mark), f.t # k,
         \/ ~Ends(f) /\ new = mark
         \/ new = sent /\ \A i \in 1..Len(Q) : ~Ends(Q[i])
  PROVE  Carries(Append(Q, f), k, done, sent, new)
<1> DEFINE R == Append(Q, f)
           n == Len(Q)
<1>1. /\ n \in Nat /\ Len(R) = n + 1 /\ R[n + 1] = f
      /\ \A i \in 1..n : R[i] = Q[i] /\ Q[i].id \in Nat
  BY AppendProperties, LenProperties, ElementOfSeq, FrameTyped
<1> HIDE DEF R, n
<1>3. \A i \in 1..(n + 1) : i \in 1..n \/ i = n + 1
  BY <1>1
<1>5. ASSUME NEW i \in 1..Len(R), NEW j \in 1..Len(R), i < j, R[i].t = k, R[j].t = k
      PROVE  R[i].id < R[j].id
  <2>1. i \in 1..n /\ j \in 1..n /\ R[i] = Q[i] /\ R[j] = Q[j]
    BY <1>1, <1>3, <1>5
  <2> QED BY <1>5, <2>1 DEF Carries, n
<1>6. \A i \in 1..Len(R) : R[i].t = k => R[i].id \in (done + 1)..sent
  BY <1>1, <1>3 DEF Carries, n
<1>7. \A m \in (done + 1)..sent : \E i \in 1..Len(R) : R[i].t = k /\ R[i].id = m
  <2> TAKE m \in (done + 1)..sent
  <2>1. PICK i \in 1..n : Q[i].t = k /\ Q[i].id = m
    BY DEF Carries, n
  <2> QED BY <1>1, <2>1
<1>8. ASSUME NEW p \in 1..Len(R), Ends(R[p])
      PROVE  /\ done <= new
             /\ \A i \in 1..(p - 1) : R[i].t = k => R[i].id <= new
             /\ \A i \in (p + 1)..Len(R) : R[i].t = k => R[i].id > new
  <2>1. CASE p \in 1..n
    <3>1. Ends(Q[p]) /\ new = mark
      BY <1>1, <1>8, <2>1 DEF n
    <3>2. \A i \in (p + 1)..Len(R) : i \in (p + 1)..n \/ i = n + 1
      BY <1>1, <2>1
    <3>3. /\ done <= mark
          /\ \A i \in 1..(p - 1) : Q[i].t = k => Q[i].id <= mark
          /\ \A i \in (p + 1)..n : Q[i].t = k => Q[i].id > mark
      BY <2>1, <3>1 DEF Carries, n
    <3>4. \A i \in 1..(p - 1) : i \in 1..n /\ R[i] = Q[i]
      BY <1>1, <2>1
    <3>5. \A i \in (p + 1)..n : i \in 1..n /\ R[i] = Q[i]
      BY <1>1, <2>1
    <3> QED BY <1>1, <3>1, <3>2, <3>3, <3>4, <3>5
  <2>2. CASE p = n + 1
    <3>1. new = sent
      BY <1>1, <1>8, <2>2
    <3>2. \A i \in 1..(p - 1) : i \in 1..n
      BY <1>1, <2>2
    <3>3. \A i \in 1..n : Q[i].t = k => Q[i].id <= sent
      BY <1>1 DEF Carries, n
    <3>4. (p + 1)..Len(R) = {}
      BY <1>1, <2>2
    <3> QED BY <1>1, <3>1, <3>2, <3>3, <3>4 DEF Carries
  <2> QED BY <1>1, <1>3, <2>1, <2>2
<1>9. new <= sent
  BY DEF Carries
<1> QED
  BY <1>5, <1>6, <1>7, <1>8, <1>9 DEF Carries, R

\* The head of what is on its way is the next of its kind; and if it ends the
\* invocation, everything that was sent before it is done.
LEMMA CarriesLess ==
  ASSUME NEW Q \in Seq(Frame), Q # <<>>, NEW k \in Kinds,
         NEW done \in Nat, NEW sent \in Nat, NEW mark \in Nat,
         Carries(Q, k, done, sent, mark)
  PROVE  /\ Head(Q).t = k => Head(Q).id = done + 1 /\ Carries(Tail(Q), k, done + 1, sent, mark)
         /\ Head(Q).t # k => Carries(Tail(Q), k, done, sent, mark)
         /\ Ends(Head(Q)) => done = mark
<1> DEFINE R == Tail(Q)
           n == Len(Q)
           now == IF Head(Q).t = k THEN done + 1 ELSE done
<1>1. /\ n \in Nat \ {0} /\ Head(Q) = Q[1] /\ Len(R) = n - 1
      /\ \A i \in 1..(n - 1) : R[i] = Q[i + 1]
      /\ \A i \in 1..n : Q[i] \in Frame /\ Q[i].id \in Nat
  BY EmptySeq, HeadTailProperties, LenProperties, ElementOfSeq, FrameTyped
<1> HIDE DEF R, n
<1>2. ASSUME Head(Q).t = k PROVE Head(Q).id = done + 1
  <2>1. Q[1].t = k /\ Q[1].id \in (done + 1)..sent
    BY <1>1, <1>2 DEF Carries, n
  <2>2. PICK i \in 1..n : Q[i].t = k /\ Q[i].id = done + 1
    BY <2>1 DEF Carries, n
  <2>3. 1 \in 1..n /\ (i = 1 \/ 1 < i)
    BY <1>1
  <2>4. i = 1 \/ Q[1].id < Q[i].id
    BY <2>1, <2>2, <2>3 DEF Carries, n
  <2> QED BY <1>1, <2>1, <2>2, <2>4
<1>3. now \in Nat /\ now <= sent /\ done <= now
  BY <1>1, <1>2 DEF Carries, n
<1>4. ASSUME NEW i \in 1..Len(R), NEW j \in 1..Len(R), i < j, R[i].t = k, R[j].t = k
      PROVE  R[i].id < R[j].id
  <2> DEFINE a == i + 1
             b == j + 1
  <2>1. R[i] = Q[a] /\ R[j] = Q[b]
    BY <1>1
  <2>2. a \in 1..n /\ b \in 1..n /\ a < b
    BY <1>1, <1>4
  <2> HIDE DEF a, b
  <2> QED BY <1>4, <2>1, <2>2 DEF Carries, n
<1>5. \A i \in 1..Len(R) : R[i].t = k => R[i].id \in (now + 1)..sent
  <2> SUFFICES ASSUME NEW i \in 1..Len(R), R[i].t = k PROVE R[i].id \in (now + 1)..sent
    OBVIOUS
  <2>1. i + 1 \in 1..n /\ 1 \in 1..n /\ 1 < i + 1 /\ R[i] = Q[i + 1] /\ Q[i + 1].t = k
    BY <1>1
  <2>2. Q[i + 1].id \in (done + 1)..sent
    BY <2>1 DEF Carries, n
  <2>3. CASE Head(Q).t = k
    <3>1. Q[1].t = k /\ Q[1].id = done + 1
      BY <1>1, <1>2, <2>3
    <3>2. Q[1].id < Q[i + 1].id
      BY <2>1, <3>1 DEF Carries, n
    <3> QED BY <2>1, <2>2, <2>3, <3>1, <3>2
  <2>4. CASE Head(Q).t # k
    BY <2>1, <2>2, <2>4
  <2> QED BY <2>3, <2>4
<1>6. \A m \in (now + 1)..sent : \E i \in 1..Len(R) : R[i].t = k /\ R[i].id = m
  <2> TAKE m \in (now + 1)..sent
  <2>1. m \in (done + 1)..sent
    BY <1>3
  <2>2. PICK j \in 1..n : Q[j].t = k /\ Q[j].id = m
    BY <2>1 DEF Carries, n
  <2>3. j # 1
    BY <1>1, <1>2, <2>2
  <2>4. j - 1 \in 1..Len(R) /\ R[j - 1] = Q[j]
    BY <1>1, <2>3
  <2> QED BY <2>2, <2>4
<1>7. ASSUME NEW p \in 1..Len(R), Ends(R[p])
      PROVE  /\ now <= mark
             /\ \A i \in 1..(p - 1) : R[i].t = k => R[i].id <= mark
             /\ \A i \in (p + 1)..Len(R) : R[i].t = k => R[i].id > mark
  <2>1. p + 1 \in 1..n /\ Ends(Q[p + 1]) /\ (p + 1) - 1 = p /\ (p + 1) + 1 = p + 2
    BY <1>1, <1>7
  <2>2. /\ done <= mark
        /\ \A i \in 1..p : Q[i].t = k => Q[i].id <= mark
        /\ \A i \in (p + 2)..n : Q[i].t = k => Q[i].id > mark
    <3> DEFINE q == p + 1
    <3>1. /\ done <= mark
          /\ \A i \in 1..(q - 1) : Q[i].t = k => Q[i].id <= mark
          /\ \A i \in (q + 1)..n : Q[i].t = k => Q[i].id > mark
      <4> HIDE DEF q
      <4>1. q \in 1..n /\ Ends(Q[q])
        BY <2>1 DEF q
      <4> QED BY <4>1 DEF Carries, n
    <3> QED BY <2>1, <3>1
  <2>3. Head(Q).t = k => Q[1].id <= mark
    <3>1. Head(Q) = Q[1]
      BY <1>1
    <3>2. p \in Nat /\ p >= 1
      BY <1>1
    <3>3. 1 \in 1..p
      BY <3>2
    <3> QED BY <2>2, <3>1, <3>3
  <2>4. \A i \in 1..(p - 1) : i + 1 \in 1..p /\ R[i] = Q[i + 1]
    BY <1>1, <2>1
  <2>5. \A i \in (p + 1)..Len(R) : i + 1 \in (p + 2)..n /\ R[i] = Q[i + 1]
    BY <1>1, <2>1
  <2> QED BY <1>1, <1>2, <2>2, <2>3, <2>4, <2>5
<1>8. Carries(R, k, now, sent, mark)
  BY <1>3, <1>4, <1>5, <1>6, <1>7 DEF Carries
<1>9. ASSUME Ends(Head(Q)) PROVE done = mark
  <2>1. done <= mark /\ \A i \in 2..n : Q[i].t = k => Q[i].id > mark
    BY <1>1, <1>9 DEF Carries, n
  <2>2. Q[1].t # k
    BY <1>1, <1>9 DEF Ends, Kinds
  <2>3. CASE done < mark
    <3>1. done + 1 \in (done + 1)..sent
      BY <2>3 DEF Carries
    <3>2. PICK i \in 1..n : Q[i].t = k /\ Q[i].id = done + 1
      BY <3>1 DEF Carries, n
    <3>3. i \in 2..n
      BY <1>1, <2>2, <3>2
    <3> QED BY <2>1, <2>3, <3>2, <3>3
  <2> QED BY <2>1, <2>3
<1> QED
  BY <1>2, <1>8, <1>9 DEF R

LEMMA Concat ==
  ASSUME NEW s \in Seq(Frame), NEW t \in Seq(Frame), s # <<>>
  PROVE  s \o t # <<>> /\ Head(s \o t) = Head(s) /\ Tail(s \o t) = Tail(s) \o t
<1> DEFINE n == Len(s)
           m == Len(t)
           st == s \o t
           left == Tail(st)
           right == Tail(s) \o t
<1>1. /\ n \in Nat \ {0} /\ m \in Nat /\ st \in Seq(Frame) /\ Len(st) = n + m
      /\ \A i \in 1..(n + m) : st[i] = IF i <= n THEN s[i] ELSE t[i - n]
  BY EmptySeq, LenProperties, ConcatProperties
<1>2. st # <<>>
  BY <1>1, EmptySeq
<1>3. Head(st) = st[1] /\ Head(s) = s[1]
  OBVIOUS
<1>4. /\ left \in Seq(Frame) /\ Len(left) = (n + m) - 1
      /\ \A i \in 1..((n + m) - 1) : left[i] = st[i + 1]
  <2> HIDE DEF st
  <2> QED BY <1>1, <1>2, HeadTailProperties
<1>5. /\ Tail(s) \in Seq(Frame) /\ Len(Tail(s)) = n - 1
      /\ \A i \in 1..(n - 1) : Tail(s)[i] = s[i + 1]
  BY HeadTailProperties
<1>6. /\ right \in Seq(Frame) /\ Len(right) = (n - 1) + m
      /\ \A i \in 1..((n - 1) + m) : right[i] = IF i <= n - 1 THEN Tail(s)[i] ELSE t[i - (n - 1)]
  BY <1>5, ConcatProperties
<1> HIDE DEF n, m, st, left, right
<1>7. Len(left) = Len(right)
  BY <1>1, <1>4, <1>6
<1>8. ASSUME NEW i \in 1..Len(left) PROVE left[i] = right[i]
  <2>1. i \in 1..((n + m) - 1) /\ i \in 1..((n - 1) + m) /\ i + 1 \in 1..(n + m)
    BY <1>1, <1>4
  <2>2. left[i] = IF i + 1 <= n THEN s[i + 1] ELSE t[(i + 1) - n]
    BY <1>1, <1>4, <2>1
  <2>3. right[i] = IF i <= n - 1 THEN Tail(s)[i] ELSE t[i - (n - 1)]
    BY <1>6, <2>1
  <2>4. CASE i <= n - 1
    BY <1>1, <1>5, <2>1, <2>2, <2>3, <2>4
  <2>5. CASE ~(i <= n - 1)
    <3>1. (i + 1) - n = i - (n - 1) /\ ~(i + 1 <= n)
      BY <1>1, <2>1, <2>5
    <3> QED BY <2>2, <2>3, <2>5, <3>1
  <2> QED BY <2>4, <2>5
<1>9. left = right
  BY <1>4, <1>6, <1>7, <1>8, SeqEqual
<1>10. st[1] = s[1]
  BY <1>1
<1> QED
  BY <1>2, <1>3, <1>9, <1>10 DEF st, left, right

-----------------------------------------------------------------------------
(* Type correctness *)

Response == [id : 1..MaxCalls, chunks : 1..MaxChunks]

ToolSet ==
  [ready : BOOLEAN, pending : SUBSET (1..MaxCalls), calls : 0..MaxCalls,
   logs : 0..MaxLogs, settled : BOOLEAN]

LEMMA ToolTyped ==
  ASSUME TypeOK
  PROVE  /\ tool \in ToolSet /\ tool.calls \in 0..MaxCalls /\ tool.calls \in Nat
         /\ tool.logs \in 0..MaxLogs /\ tool.logs \in Nat /\ tool.settled \in BOOLEAN
         /\ tool.pending \subseteq 1..tool.calls /\ tool.pending \subseteq 1..MaxCalls
         /\ sentBefore.calls \in Nat /\ sentBefore.logs \in Nat
<1>1. tool \in ToolSet /\ tool.pending \subseteq 1..tool.calls
  BY DEF TypeOK, ToolSet
<1>2. /\ tool.calls \in 0..MaxCalls /\ tool.logs \in 0..MaxLogs /\ tool.settled \in BOOLEAN
      /\ tool.pending \subseteq 1..MaxCalls
  BY <1>1 DEF ToolSet
<1>3. sentBefore.calls \in 0..MaxCalls /\ sentBefore.logs \in 0..MaxLogs
  BY DEF TypeOK
<1>4. MaxCalls \in Nat /\ MaxLogs \in Nat
  BY EngineAssumption
<1> QED
  BY <1>1, <1>2, <1>3, <1>4

LEMMA CountersTyped ==
  ASSUME TypeOK
  PROVE  /\ idle \in Nat /\ MaxIdle \in Nat /\ (pc # "done" => idle <= MaxIdle)
         /\ lateCalls \in Nat
<1>1. idle \in 0..(MaxIdle + 1) /\ (idle <= MaxIdle \/ pc = "done") /\ lateCalls \in Nat
  BY DEF TypeOK
<1> QED
  BY <1>1, EngineAssumption

LEMMA ReadTyped ==
  ASSUME TypeOK, ReadHandler
  PROVE  /\ pipe' \in Seq(Response)
         /\ tool' \in ToolSet
         /\ tool'.pending \subseteq tool.pending
         /\ UNCHANGED <<tool.calls, tool.logs, tool.settled>>
<1>0. pipe \in Seq(Response)
  BY DEF TypeOK, Response
<1>1. CASE pipe = <<>>
  BY <1>0, <1>1, ToolTyped DEF ReadHandler, TypeOK
<1>2. CASE pipe # <<>> /\ Head(pipe).chunks > 1
  <2>1. pipe' = [pipe EXCEPT ![1].chunks = @ - 1] /\ tool' = tool
    BY <1>2 DEF ReadHandler
  <2> DEFINE x == [pipe[1] EXCEPT !.chunks = @ - 1]
  <2>2. Head(pipe) = pipe[1] /\ 1 \in 1..Len(pipe) /\ pipe[1] \in Response
    BY <1>0, <1>2, EmptySeq, ElementOfSeq
  <2>3. x \in Response
    BY <1>2, <2>2, EngineAssumption DEF Response
  <2>4. pipe' = [pipe EXCEPT ![1] = x]
    BY <2>1
  <2> HIDE DEF x
  <2>5. pipe' \in Seq(Response)
    BY <1>0, <2>2, <2>3, <2>4, ExceptSeq
  <2> QED BY <2>1, <2>5, ToolTyped
<1>3. CASE pipe # <<>> /\ ~(Head(pipe).chunks > 1)
  <2>1. pipe' = Tail(pipe) /\ tool' = [tool EXCEPT !.pending = @ \ {Head(pipe).id}, !.ready = TRUE]
    BY <1>3 DEF ReadHandler
  <2>2. pipe' \in Seq(Response)
    BY <1>0, <1>3, <2>1, HeadTailProperties
  <2> QED BY <2>1, <2>2, ToolTyped DEF ToolSet
<1> QED
  BY <1>1, <1>2, <1>3

\* A frame that is sent while the driver is inside the sandbox.
LEMMA SendTyped ==
  ASSUME TypeOK, ToolRuns, NEW f \in Frame, Send(f),
         tool' \in ToolSet,
         tool'.pending \subseteq 1..tool'.calls,
         sentBefore' \in [calls : 0..MaxCalls, logs : 0..MaxLogs],
         UNCHANGED <<pc, driver, pipe, clock, outcome, executed, lateCalls, fired>>
  PROVE  TypeOK'
<1>1. frames' \in Seq(Frame)
  BY AppendProperties DEF TypeOK, Send
<1>2. pc \notin {"host", "respond"}
  BY DEF ToolRuns
<1> QED
  BY <1>1, <1>2 DEF TypeOK, driver, clock, ToolSet

LEMMA EndTyped ==
  ASSUME TypeOK, NEW how \in {"value", "tool error", "timeout", "load error", "poll io",
                              "event loop"}, End(how)
  PROVE  TypeOK'
  BY DEF End, TypeOK, driver, history, clock

\* Clocks change nothing but themselves.
LEMMA ClocksOnly ==
  ASSUME Deadline \/ Cancelled \/ ToolTimer
  PROVE  UNCHANGED <<pc, batch, progressed, idle, logs, frames, pipe, tool, outcome, executed,
                     sentBefore, lateCalls, fired>>
  BY DEF Deadline, Cancelled, ToolTimer, driver, history

\* A timer's callback readies the tool and changes nothing else.
LEMMA TimerOnly ==
  ASSUME TypeOK, TimerFires
  PROVE  /\ UNCHANGED <<pc, batch, progressed, idle, logs, frames, pipe, wall, late, outcome,
                        executed, sentBefore, lateCalls>>
         /\ tool' \in ToolSet /\ tool'.ready = TRUE
         /\ UNCHANGED <<tool.pending, tool.calls, tool.logs, tool.settled>>
         /\ pc = "loop" /\ fired' = TRUE /\ timer' \in BOOLEAN
  BY ToolTyped DEF TimerFires, driver, ToolSet

LEMMA EngineTypes == TypeOK /\ [Next]_vars => TypeOK'
<1> SUFFICES ASSUME TypeOK, [Next]_vars PROVE TypeOK'
  OBVIOUS
<1>1. CASE Deadline \/ Cancelled \/ ToolTimer
  <2>1. wall' \in BOOLEAN /\ late' \in BOOLEAN /\ timer' \in BOOLEAN
    BY <1>1 DEF Deadline, Cancelled, ToolTimer, TypeOK
  <2> QED BY <1>1, <2>1, ClocksOnly DEF TypeOK
<1>2. CASE ToolCalls
  <2> DEFINE f == [t |-> "call", id |-> tool.calls + 1]
  <2>1. tool.calls + 1 \in 1..MaxCalls /\ tool.calls \in Nat
    BY <1>2, ToolTyped, EngineAssumption DEF ToolCalls
  <2>2. f \in Frame
    BY <2>1 DEF Frame
  <2>3. tool' = [tool EXCEPT !.calls = tool.calls + 1, !.pending = @ \cup {tool.calls + 1}]
    BY <1>2 DEF ToolCalls
  <2>4. /\ tool' \in ToolSet
        /\ tool'.pending \subseteq 1..tool'.calls
    <3> DEFINE id == tool.calls + 1
               P == tool.pending \cup {id}
    <3>1. P \subseteq 1..id /\ P \subseteq 1..MaxCalls /\ id \in 0..MaxCalls
      BY <2>1, ToolTyped
    <3>2. tool' = [tool EXCEPT !.calls = id, !.pending = P]
      BY <2>3
    <3> HIDE DEF id, P
    <3> QED BY <3>1, <3>2, ToolTyped DEF ToolSet
  <2>5. Send(f) /\ ToolRuns /\ UNCHANGED <<pc, driver, pipe, clock, outcome, history>>
    BY <1>2 DEF ToolCalls
  <2> HIDE DEF f
  <2>6. sentBefore' \in [calls : 0..MaxCalls, logs : 0..MaxLogs]
    BY <2>5 DEF TypeOK, history, clock
  <2> QED BY <2>2, <2>4, <2>5, <2>6, SendTyped DEF history, clock
<1>3. CASE ToolLogs
  <2> DEFINE f == [t |-> "log", id |-> tool.logs + 1]
  <2>1. tool.logs + 1 \in 1..MaxLogs
    BY <1>3, ToolTyped, EngineAssumption DEF ToolLogs
  <2>2. f \in Frame
    BY <2>1 DEF Frame
  <2>3. tool' = [tool EXCEPT !.logs = tool.logs + 1]
    BY <1>3 DEF ToolLogs
  <2>4. /\ tool' \in ToolSet
        /\ tool'.pending \subseteq 1..tool'.calls
    BY <2>1, <2>3, ToolTyped DEF ToolSet
  <2>5. Send(f) /\ ToolRuns /\ UNCHANGED <<pc, driver, pipe, clock, outcome, history>>
    BY <1>3 DEF ToolLogs
  <2> HIDE DEF f
  <2>6. sentBefore' \in [calls : 0..MaxCalls, logs : 0..MaxLogs]
    BY <2>5 DEF TypeOK, history, clock
  <2> QED BY <2>2, <2>4, <2>5, <2>6, SendTyped DEF history, clock
<1>4. ASSUME NEW how \in {"result", "error"}, ToolSettles(how) PROVE TypeOK'
  <2> DEFINE f == [t |-> how, id |-> 0]
  <2>1. f \in Frame
    BY DEF Frame
  <2>2. /\ tool' \in ToolSet
        /\ tool'.pending \subseteq 1..tool'.calls
        /\ sentBefore' \in [calls : 0..MaxCalls, logs : 0..MaxLogs]
    BY <1>4, ToolTyped DEF ToolSettles, ToolSet, TypeOK
  <2>3. Send(f) /\ ToolRuns /\ UNCHANGED <<pc, driver, pipe, clock, outcome, executed, lateCalls, fired>>
    BY <1>4 DEF ToolSettles, ToolRuns
  <2> HIDE DEF f
  <2> QED BY <2>1, <2>2, <2>3, SendTyped
<1>5. CASE EvalReturns
  BY <1>5 DEF EvalReturns, TypeOK, driver, history, clock
<1>6. CASE EvalFails \/ PollFails \/ LoopFails
  BY <1>6, EndTyped DEF EvalFails, PollFails, LoopFails
<1>7. CASE LoopTop
  <2>1. CASE late
    BY <1>7, <2>1, EndTyped DEF LoopTop
  <2>2. CASE ~late
    BY <1>7, <2>2, EmptySeq DEF LoopTop, Take, TypeOK, history, clock
  <2> QED BY <2>1, <2>2
<1>8. CASE HandleCall
  <2>1. batch # <<>> /\ Head(batch).t = "call" /\ batch \in Seq(Frame) /\ executed \in Seq(1..MaxCalls)
    BY <1>8 DEF HandleCall, TypeOK
  <2>2. Head(batch) \in Frame
    BY <2>1, HeadTailProperties
  <2>3. Head(batch).id \in 1..MaxCalls
    BY <2>1, <2>2 DEF Frame
  <2>4. executed' \in Seq(1..MaxCalls)
    BY <1>8, <2>1, <2>3, AppendProperties DEF HandleCall
  <2>5. lateCalls' \in Nat
    BY <1>8, CountersTyped DEF HandleCall
  <2>6. UNCHANGED <<batch, progressed, idle, logs, frames, pipe, tool, wall, late, timer, outcome,
                   sentBefore, fired>>
    BY <1>8 DEF HandleCall, driver, clock
  <2>7. pc = "batch" /\ pc' = "host"
    BY <1>8 DEF HandleCall
  <2> QED BY <2>1, <2>4, <2>5, <2>6, <2>7 DEF TypeOK
<1>9. CASE HandleLog
  <2>1. batch # <<>> /\ Head(batch).t = "log" /\ batch \in Seq(Frame) /\ logs \in Seq(1..MaxLogs)
    BY <1>9 DEF HandleLog, TypeOK
  <2>2. Head(batch) \in Frame /\ Tail(batch) \in Seq(Frame)
    BY <2>1, HeadTailProperties
  <2>3. Head(batch).id \in 1..MaxLogs
    BY <2>1, <2>2 DEF Frame
  <2>4. logs' \in Seq(1..MaxLogs)
    BY <1>9, <2>1, <2>3, AppendProperties DEF HandleLog
  <2> QED BY <1>9, <2>2, <2>4 DEF HandleLog, NextFrame, TypeOK, history, clock
<1>10. CASE HandleEnd
  <2>1. End("value") \/ End("tool error")
    BY <1>10 DEF HandleEnd
  <2> QED BY <2>1, EndTyped
<1>11. CASE BatchDone
  BY <1>11 DEF BatchDone, TypeOK, driver, history, clock
<1>12. CASE Respond
  <2>1. Tail(batch) \in Seq(Frame)
    BY <1>12, HeadTailProperties DEF Respond, TypeOK
  <2>2. tool'.pending \subseteq 1..tool'.calls
    BY <1>12, ReadTyped, ToolTyped DEF Respond
  <2> QED
    BY <1>12, <2>1, <2>2, ReadTyped DEF Respond, NextFrame, TypeOK, history, clock, Response, ToolSet
<1>13. ASSUME NEW more \in BOOLEAN, LoopOnce(more) PROVE TypeOK'
  <2>1. tool' \in ToolSet /\ tool'.pending \subseteq 1..tool'.calls
    BY <1>13, ToolTyped DEF LoopOnce, ToolSet
  <2>2. idle' \in 0..(MaxIdle + 1) /\ idle' <= MaxIdle /\ pc' \in {"top", "poll"}
    BY <1>13, CountersTyped DEF LoopOnce
  <2>3. UNCHANGED <<batch, progressed, logs, frames, pipe, wall, late, timer, outcome, executed,
                   sentBefore, lateCalls, fired>>
    BY <1>13 DEF LoopOnce, history, clock
  <2> QED BY <2>1, <2>2, <2>3 DEF TypeOK, ToolSet
<1>14. CASE IdlePoll
  <2>1. tool'.pending \subseteq 1..tool'.calls
    BY <1>14, ReadTyped, ToolTyped DEF IdlePoll
  <2>2. idle' \in 0..(MaxIdle + 1) /\ (idle' <= MaxIdle \/ pc' = "done")
    <3>1. idle \in Nat /\ idle <= MaxIdle /\ MaxIdle \in Nat
      BY <1>14, CountersTyped DEF IdlePoll
    <3>2. idle' = idle + 1 /\ (idle + 1 > MaxIdle => pc' = "done")
      BY <1>14 DEF IdlePoll, GiveUp
    <3> QED BY <3>1, <3>2
  <2> QED
    BY <1>14, <2>1, <2>2, ReadTyped DEF IdlePoll, TypeOK, history, clock, Response, ToolSet
<1>15. CASE HostReturns
  <2>1. PICK c \in 1..MaxChunks : pipe' = Append(pipe, [id |-> Answers, chunks |-> c])
    BY <1>15 DEF HostReturns
  <2>2. pc = "host" /\ batch # <<>> /\ Head(batch).t = "call" /\ batch \in Seq(Frame)
    BY <1>15 DEF HostReturns, TypeOK
  <2>3. Head(batch) \in Frame
    BY <2>2, HeadTailProperties
  <2>4. Answers \in 1..MaxCalls
    BY <2>2, <2>3 DEF Frame, Answers
  <2>5. [id |-> Answers, chunks |-> c] \in Response /\ pipe \in Seq(Response)
    BY <2>4 DEF Response, TypeOK
  <2>6. pipe' \in Seq(Response)
    BY <2>1, <2>5, AppendProperties
  <2> QED BY <1>15, <2>2, <2>6 DEF HostReturns, TypeOK, Response, driver, history, clock
<1>16. CASE UNCHANGED vars
  <2>1. UNCHANGED <<wall, late, timer, fired, tool, pc, batch, frames, progressed>>
    BY <1>16 DEF vars
  <2>2. UNCHANGED <<idle, logs, executed, pipe, outcome, sentBefore, lateCalls>>
    BY <1>16 DEF vars
  <2>3. /\ wall' \in BOOLEAN /\ late' \in BOOLEAN /\ timer' \in BOOLEAN /\ fired' \in BOOLEAN
        /\ progressed' \in BOOLEAN
    BY <2>1 DEF TypeOK
  <2> QED BY <2>1, <2>2, <2>3 DEF TypeOK
<1>17. CASE TimerFires
  <2>1. tool'.pending \subseteq 1..tool'.calls
    BY <1>17, TimerOnly, ToolTyped
  <2> QED BY <1>17, <2>1, TimerOnly DEF TypeOK, ToolSet
<1> QED
  BY <1>1, <1>2, <1>3, <1>4, <1>5, <1>6, <1>7, <1>8, <1>9, <1>10, <1>11, <1>12, <1>13, <1>14,
     <1>15, <1>16, <1>17 DEF Next, ToolStep, DriverStep

-----------------------------------------------------------------------------
(* Every frame is handled once, in order *)

\* The frames that are neither handled nor being handled.
Left == (IF pc \in {"host", "respond"} THEN Tail(batch) ELSE batch) \o frames

\* Calls and log lines are numbered as the tool writes them: those handled and
\* those left are all of them, until the invocation ends.
Carried ==
  /\ Carries(Left, "call", Len(executed), tool.calls, sentBefore.calls)
  /\ Carries(Left, "log", Len(logs), tool.logs, sentBefore.logs)
  /\ ~tool.settled => \A i \in 1..Len(Left) : ~Ends(Left[i])

Numbered(q) == \A i \in 1..Len(q) : q[i] = i

FrameInv ==
  /\ TypeOK
  /\ pc \notin {"batch", "host", "respond", "done"} => batch = <<>>
  /\ pc \in {"host", "respond"} => Head(batch).id = Len(executed)
  /\ pc # "done" => Carried /\ outcome = "none"
  /\ Numbered(executed) /\ Numbered(logs) /\ Len(executed) <= tool.calls
  /\ NothingBeforeResultIsLost

LEMMA LeftTyped ==
  ASSUME TypeOK
  PROVE  /\ Left \in Seq(Frame)
         /\ pc \notin {"host", "respond"} => Left = batch \o frames
         /\ pc \in {"host", "respond"} => Left = Tail(batch) \o frames
<1>1. batch \in Seq(Frame) /\ frames \in Seq(Frame)
  BY DEF TypeOK
<1>2. pc \in {"host", "respond"} => Tail(batch) \in Seq(Frame)
  BY HeadTailProperties DEF TypeOK
<1> QED
  BY <1>1, <1>2, ConcatProperties DEF Left

\* The end of an invocation without a result or error of the tool.
LEMMA EndFrames ==
  ASSUME FrameInv, TypeOK', NEW how \in {"timeout", "load error", "poll io", "event loop"}, End(how)
  PROVE  FrameInv'
  BY DEF End, FrameInv, NothingBeforeResultIsLost, Numbered, driver, history, clock

\* A step that handles and sends nothing.
LEMMA NothingHandled ==
  ASSUME FrameInv, TypeOK', pc # "done", outcome' = "none", Left' = Left,
         pc' \notin {"batch", "host", "respond", "done"} => batch' = <<>>,
         pc' \in {"host", "respond"} => Head(batch').id = Len(executed),
         UNCHANGED <<executed, logs, sentBefore, tool.calls, tool.logs, tool.settled>>
  PROVE  FrameInv'
<1>1. Carried
  BY DEF FrameInv
<1>2. Carried'
  <2> HIDE DEF Left
  <2> QED BY <1>1 DEF Carried
<1> QED
  BY <1>2 DEF FrameInv, Numbered, NothingBeforeResultIsLost

\* The tool sends a frame: the driver is inside the sandbox, the batch empty.
LEMMA SendAdds ==
  ASSUME FrameInv, ToolRuns, NEW f \in Frame, Send(f), UNCHANGED <<pc, driver>>
  PROVE  Left \in Seq(Frame) /\ Left' = Append(Left, f) /\ batch = <<>>
<1>1. pc \in {"load", "loop"} /\ batch = <<>> /\ frames \in Seq(Frame)
  BY DEF ToolRuns, FrameInv, TypeOK
<1>2. Left = frames
  BY <1>1, ConcatEmptySeq DEF Left
<1>3. frames' = Append(frames, f) /\ frames' \in Seq(Frame)
  BY <1>1, AppendProperties DEF Send
<1>4. Left' = frames'
  BY <1>1, <1>3, ConcatEmptySeq DEF Left, driver, clock
<1> QED
  BY <1>1, <1>2, <1>3, <1>4

LEMMA Lengths ==
  ASSUME TypeOK
  PROVE  /\ Len(executed) \in Nat /\ Len(logs) \in Nat
         /\ executed \in Seq(1..MaxCalls) /\ logs \in Seq(1..MaxLogs)
  BY LenProperties DEF TypeOK

LEMMA NextNumber ==
  ASSUME NEW n \in Nat, NEW q \in Seq(1..n), Numbered(q), NEW x \in 1..n, x = Len(q) + 1
  PROVE  Numbered(Append(q, x)) /\ Len(Append(q, x)) = Len(q) + 1
<1>1. /\ Len(q) \in Nat /\ Len(Append(q, x)) = Len(q) + 1 /\ Append(q, x)[Len(q) + 1] = x
      /\ \A i \in 1..Len(q) : Append(q, x)[i] = q[i]
  BY AppendProperties, LenProperties
<1>2. \A i \in 1..(Len(q) + 1) : i \in 1..Len(q) \/ i = Len(q) + 1
  BY <1>1
<1> QED
  BY <1>1, <1>2 DEF Numbered

LEMMA CallSent == ASSUME FrameInv, TypeOK', ToolCalls PROVE FrameInv'
<1> DEFINE f == [t |-> "call", id |-> tool.calls + 1]
<1>1. /\ Send(f) /\ ToolRuns /\ UNCHANGED <<pc, driver, pipe, clock, outcome, history>>
      /\ tool'.calls = tool.calls + 1 /\ UNCHANGED <<tool.logs, tool.settled>>
      /\ tool.calls + 1 <= MaxCalls
  BY ToolTyped DEF ToolCalls, FrameInv, ToolSet
<1>2. tool.calls + 1 \in 1..MaxCalls
  BY <1>1, ToolTyped, EngineAssumption DEF FrameInv
<1>3. f \in Frame /\ f.t = "call" /\ f.id = tool.calls + 1
  BY <1>2 DEF Frame
<1> HIDE DEF f
<1>4. Left \in Seq(Frame) /\ Left' = Append(Left, f) /\ batch = <<>>
  BY <1>1, <1>3, SendAdds
<1>5. Carried /\ pc \in {"load", "loop"} /\ TypeOK
  BY <1>1 DEF ToolRuns, FrameInv
<1>6. Carries(Left', "call", Len(executed), tool.calls + 1, sentBefore.calls)
  BY <1>3, <1>4, <1>5, ToolTyped, Lengths, CarriesMore DEF Carried, Kinds
<1>7. Carries(Left', "log", Len(logs), tool.logs, sentBefore.logs)
  BY <1>3, <1>4, <1>5, ToolTyped, Lengths, CarriesOther DEF Carried, Kinds, Ends
<1>8. ~tool.settled => \A i \in 1..Len(Left') : ~Ends(Left'[i])
  <2>1. /\ Len(Left) \in Nat /\ Len(Left') = Len(Left) + 1 /\ Left'[Len(Left) + 1] = f
        /\ \A i \in 1..Len(Left) : Left'[i] = Left[i]
    BY <1>3, <1>4, AppendProperties, LenProperties
  <2>2. \A i \in 1..(Len(Left) + 1) : i \in 1..Len(Left) \/ i = Len(Left) + 1
    BY <2>1
  <2> QED BY <1>3, <1>5, <2>1, <2>2 DEF Carried, Ends
<1>9. Carried'
  <2> HIDE DEF Left
  <2> QED BY <1>1, <1>6, <1>7, <1>8 DEF Carried, driver, history, clock
<1>10. Len(executed) <= tool.calls + 1
  BY <1>5, ToolTyped, Lengths DEF FrameInv
<1> QED
  BY <1>1, <1>4, <1>5, <1>9, <1>10 DEF FrameInv, Numbered, NothingBeforeResultIsLost, driver, history, clock

LEMMA LineSent == ASSUME FrameInv, TypeOK', ToolLogs PROVE FrameInv'
<1> DEFINE f == [t |-> "log", id |-> tool.logs + 1]
<1>1. /\ Send(f) /\ ToolRuns /\ UNCHANGED <<pc, driver, pipe, clock, outcome, history>>
      /\ tool'.logs = tool.logs + 1 /\ UNCHANGED <<tool.calls, tool.settled>>
      /\ tool.logs + 1 <= MaxLogs
  BY ToolTyped DEF ToolLogs, FrameInv, ToolSet
<1>2. tool.logs + 1 \in 1..MaxLogs
  BY <1>1, ToolTyped, EngineAssumption DEF FrameInv
<1>3. f \in Frame /\ f.t = "log" /\ f.id = tool.logs + 1
  BY <1>2 DEF Frame
<1> HIDE DEF f
<1>4. Left \in Seq(Frame) /\ Left' = Append(Left, f) /\ batch = <<>>
  BY <1>1, <1>3, SendAdds
<1>5. Carried /\ pc \in {"load", "loop"} /\ TypeOK
  BY <1>1 DEF ToolRuns, FrameInv
<1>6. Carries(Left', "log", Len(logs), tool.logs + 1, sentBefore.logs)
  BY <1>3, <1>4, <1>5, ToolTyped, Lengths, CarriesMore DEF Carried, Kinds
<1>7. Carries(Left', "call", Len(executed), tool.calls, sentBefore.calls)
  BY <1>3, <1>4, <1>5, ToolTyped, Lengths, CarriesOther DEF Carried, Kinds, Ends
<1>8. ~tool.settled => \A i \in 1..Len(Left') : ~Ends(Left'[i])
  <2>1. /\ Len(Left) \in Nat /\ Len(Left') = Len(Left) + 1 /\ Left'[Len(Left) + 1] = f
        /\ \A i \in 1..Len(Left) : Left'[i] = Left[i]
    BY <1>3, <1>4, AppendProperties, LenProperties
  <2>2. \A i \in 1..(Len(Left) + 1) : i \in 1..Len(Left) \/ i = Len(Left) + 1
    BY <2>1
  <2> QED BY <1>3, <1>5, <2>1, <2>2 DEF Carried, Ends
<1>9. Carried'
  <2> HIDE DEF Left
  <2> QED BY <1>1, <1>6, <1>7, <1>8 DEF Carried, driver, history, clock
<1> QED
  BY <1>1, <1>4, <1>5, <1>9 DEF FrameInv, Numbered, NothingBeforeResultIsLost, driver, history, clock

LEMMA EndSent ==
  ASSUME FrameInv, TypeOK', NEW how \in {"result", "error"}, ToolSettles(how) PROVE FrameInv'
<1> DEFINE f == [t |-> how, id |-> 0]
<1>1. /\ Send(f) /\ ToolRuns /\ UNCHANGED <<pc, driver, pipe, clock, outcome, executed, lateCalls, fired>>
      /\ tool'.settled = TRUE /\ UNCHANGED <<tool.calls, tool.logs>> /\ ~tool.settled
      /\ sentBefore'.calls = tool.calls /\ sentBefore'.logs = tool.logs
  BY ToolTyped DEF ToolSettles, ToolRuns, FrameInv, ToolSet
<1>2. f \in Frame /\ f.t \notin {"call", "log"}
  BY DEF Frame
<1> HIDE DEF f
<1>3. Left \in Seq(Frame) /\ Left' = Append(Left, f) /\ batch = <<>>
  BY <1>1, <1>2, SendAdds
<1>4. Carried /\ pc \in {"load", "loop"} /\ TypeOK /\ outcome = "none"
  BY <1>1 DEF ToolRuns, FrameInv
<1>5. \A i \in 1..Len(Left) : ~Ends(Left[i])
  BY <1>1, <1>4 DEF Carried
<1>6. Carries(Left', "call", Len(executed), tool.calls, tool.calls)
  BY <1>2, <1>3, <1>4, <1>5, ToolTyped, Lengths, CarriesOther DEF Carried, Kinds
<1>7. Carries(Left', "log", Len(logs), tool.logs, tool.logs)
  BY <1>2, <1>3, <1>4, <1>5, ToolTyped, Lengths, CarriesOther DEF Carried, Kinds
<1>8. Carried'
  <2> HIDE DEF Left
  <2> QED BY <1>1, <1>6, <1>7 DEF Carried, driver, clock
<1> QED
  BY <1>1, <1>3, <1>4, <1>8 DEF FrameInv, Numbered, NothingBeforeResultIsLost, driver, clock

\* The head of the batch is the head of what is left.
LEMMA HeadLeft ==
  ASSUME FrameInv, pc = "batch", batch # <<>>
  PROVE  /\ Left \in Seq(Frame) /\ Left # <<>> /\ Head(Left) = Head(batch) /\ Head(batch) \in Frame
         /\ Tail(Left) = Tail(batch) \o frames /\ Carried /\ TypeOK
<1>1. Left = batch \o frames /\ Left \in Seq(Frame)
  BY LeftTyped DEF FrameInv
<1>2. batch \in Seq(Frame) /\ frames \in Seq(Frame)
  BY DEF FrameInv, TypeOK
<1> QED
  BY <1>1, <1>2, Concat, HeadTailProperties DEF FrameInv

\* What is left after a frame that did not end the invocation.
LEMMA TailQuiet ==
  ASSUME NEW Q \in Seq(Frame), Q # <<>>, \A i \in 1..Len(Q) : ~Ends(Q[i])
  PROVE  \A i \in 1..Len(Tail(Q)) : ~Ends(Tail(Q)[i])
<1>1. /\ Len(Q) \in Nat /\ Len(Tail(Q)) = Len(Q) - 1
      /\ \A i \in 1..Len(Tail(Q)) : Tail(Q)[i] = Q[i + 1]
  BY HeadTailProperties, LenProperties
<1>2. \A i \in 1..Len(Tail(Q)) : i + 1 \in 1..Len(Q)
  BY <1>1
<1> QED
  BY <1>1, <1>2

LEMMA CallHandled == ASSUME FrameInv, TypeOK', HandleCall PROVE FrameInv'
<1>1. /\ pc = "batch" /\ batch # <<>> /\ Head(batch).t = "call" /\ pc' = "host"
      /\ executed' = Append(executed, Head(batch).id)
      /\ UNCHANGED <<batch, logs, frames, tool, outcome, sentBefore>>
  BY DEF HandleCall, driver, clock
<1>2. /\ Left \in Seq(Frame) /\ Left # <<>> /\ Head(Left) = Head(batch) /\ Head(batch) \in Frame
      /\ Tail(Left) = Tail(batch) \o frames /\ Carried /\ TypeOK
  BY <1>1, HeadLeft
<1>3. Left' = Tail(Left)
  BY <1>1, <1>2 DEF Left
<1>4. /\ Head(batch).id = Len(executed) + 1
      /\ Carries(Tail(Left), "call", Len(executed) + 1, tool.calls, sentBefore.calls)
      /\ Carries(Tail(Left), "log", Len(logs), tool.logs, sentBefore.logs)
  BY <1>1, <1>2, ToolTyped, Lengths, CarriesLess DEF Carried, Kinds
<1>5. Head(batch).id \in 1..MaxCalls /\ MaxCalls \in Nat
  BY <1>1, <1>2, EngineAssumption DEF Frame
<1>6. Numbered(executed') /\ Len(executed') = Len(executed) + 1
  BY <1>1, <1>2, <1>4, <1>5, Lengths, NextNumber DEF FrameInv
<1>7. ~tool.settled => \A i \in 1..Len(Tail(Left)) : ~Ends(Tail(Left)[i])
  BY <1>2, TailQuiet DEF Carried
<1>8. Carried'
  <2> HIDE DEF Left
  <2> QED BY <1>1, <1>3, <1>4, <1>6, <1>7 DEF Carried
<1>9. outcome = "none"
  BY <1>1 DEF FrameInv
<1>10. Len(executed) + 1 <= tool.calls
  BY <1>4 DEF Carries
<1> QED
  BY <1>1, <1>4, <1>6, <1>8, <1>9, <1>10 DEF FrameInv, Numbered, NothingBeforeResultIsLost

LEMMA LineHandled == ASSUME FrameInv, TypeOK', HandleLog PROVE FrameInv'
<1>1. /\ pc = "batch" /\ batch # <<>> /\ Head(batch).t = "log" /\ pc' = "batch"
      /\ batch' = Tail(batch) /\ logs' = Append(logs, Head(batch).id)
      /\ UNCHANGED <<executed, frames, tool, outcome, sentBefore>>
  BY DEF HandleLog, NextFrame, history, clock
<1>2. /\ Left \in Seq(Frame) /\ Left # <<>> /\ Head(Left) = Head(batch) /\ Head(batch) \in Frame
      /\ Tail(Left) = Tail(batch) \o frames /\ Carried /\ TypeOK
  BY <1>1, HeadLeft
<1>3. Left' = Tail(Left)
  BY <1>1, <1>2 DEF Left
<1>4. /\ Head(batch).id = Len(logs) + 1
      /\ Carries(Tail(Left), "call", Len(executed), tool.calls, sentBefore.calls)
      /\ Carries(Tail(Left), "log", Len(logs) + 1, tool.logs, sentBefore.logs)
  BY <1>1, <1>2, ToolTyped, Lengths, CarriesLess DEF Carried, Kinds
<1>5. Head(batch).id \in 1..MaxLogs /\ MaxLogs \in Nat
  BY <1>1, <1>2, EngineAssumption DEF Frame
<1>6. Numbered(logs') /\ Len(logs') = Len(logs) + 1
  BY <1>1, <1>2, <1>4, <1>5, Lengths, NextNumber DEF FrameInv
<1>7. ~tool.settled => \A i \in 1..Len(Tail(Left)) : ~Ends(Tail(Left)[i])
  BY <1>2, TailQuiet DEF Carried
<1>8. Carried'
  <2> HIDE DEF Left
  <2> QED BY <1>1, <1>3, <1>4, <1>6, <1>7 DEF Carried
<1>9. outcome = "none"
  BY <1>1 DEF FrameInv
<1> QED
  BY <1>1, <1>6, <1>8, <1>9 DEF FrameInv, Numbered, NothingBeforeResultIsLost

\* The frame that ends the invocation has nothing before it.
LEMMA EndHandled == ASSUME FrameInv, TypeOK', HandleEnd PROVE FrameInv'
<1>1. /\ pc = "batch" /\ batch # <<>> /\ Ends(batch[1])
      /\ pc' = "done" /\ UNCHANGED <<driver, frames, pipe, tool, clock, history>>
  BY DEF HandleEnd, EndsBatch, End, Ends
<1>2. /\ Left \in Seq(Frame) /\ Left # <<>> /\ Head(Left) = Head(batch)
      /\ Carried /\ TypeOK
  BY <1>1, HeadLeft
<1>3. Ends(Head(Left))
  BY <1>1, <1>2
<1>4. Len(executed) = sentBefore.calls /\ Len(logs) = sentBefore.logs
  BY <1>2, <1>3, ToolTyped, Lengths, CarriesLess DEF Carried, Kinds
<1>5. logs = [i \in 1..sentBefore.logs |-> i]
  <2>1. logs \in [1..Len(logs) -> 1..MaxLogs]
    BY <1>2, Lengths, LenProperties
  <2> QED BY <1>4, <2>1 DEF FrameInv, Numbered
<1> QED
  BY <1>1, <1>4, <1>5 DEF FrameInv, Numbered, NothingBeforeResultIsLost, driver, history, clock

LEMMA FrameStep == FrameInv /\ [Next]_vars => FrameInv'
<1> SUFFICES ASSUME FrameInv, [Next]_vars PROVE FrameInv'
  OBVIOUS
<1>0. TypeOK /\ TypeOK'
  BY EngineTypes DEF FrameInv
<1>1. CASE Deadline \/ Cancelled \/ ToolTimer
  <2>1. UNCHANGED <<pc, batch, frames, executed, logs, sentBefore, tool, outcome>>
    BY <1>1, ClocksOnly
  <2>2. pc # "done" => Left' = Left
    BY <2>1 DEF Left
  <2>3. CASE pc # "done"
    BY <1>0, <2>1, <2>2, <2>3, NothingHandled DEF FrameInv
  <2>4. CASE pc = "done"
    BY <1>0, <2>1, <2>4 DEF FrameInv, Numbered, NothingBeforeResultIsLost
  <2> QED BY <2>3, <2>4
<1>2. CASE ToolStep
  BY <1>0, <1>1, <1>2, CallSent, LineSent, EndSent DEF ToolStep
<1>3. CASE EvalReturns
  <2>1. /\ pc \in {"load", "start"} /\ pc' \in {"start", "top"} /\ outcome = "none" /\ batch = <<>>
        /\ UNCHANGED <<batch, frames, executed, logs, sentBefore, outcome>>
        /\ UNCHANGED <<tool.calls, tool.logs, tool.settled>>
    BY <1>0, <1>3, ToolTyped DEF EvalReturns, driver, history, clock, FrameInv, ToolSet
  <2>2. Left' = Left
    BY <2>1 DEF Left
  <2> QED BY <1>0, <2>1, <2>2, NothingHandled
<1>4. CASE EvalFails \/ PollFails \/ LoopFails
  BY <1>0, <1>4, EndFrames DEF EvalFails, PollFails, LoopFails
<1>5. CASE LoopTop
  <2>1. CASE late
    BY <1>0, <1>5, <2>1, EndFrames DEF LoopTop
  <2>2. CASE ~late
    <3>1. /\ pc = "top" /\ pc' = "batch" /\ batch = <<>> /\ batch' = frames /\ frames' = <<>>
          /\ frames \in Seq(Frame) /\ outcome = "none"
          /\ UNCHANGED <<executed, logs, sentBefore, tool, outcome>>
      BY <1>0, <1>5, <2>2 DEF LoopTop, Take, history, clock, FrameInv, TypeOK
    <3>2. Left = frames /\ Left' = frames
      BY <3>1, ConcatEmptySeq DEF Left
    <3> QED BY <1>0, <3>1, <3>2, NothingHandled
  <2> QED BY <2>1, <2>2
<1>6. CASE HandleCall \/ HandleLog \/ HandleEnd
  BY <1>0, <1>6, CallHandled, LineHandled, EndHandled
<1>7. CASE BatchDone
  <2>1. /\ pc = "batch" /\ pc' = "loop" /\ batch = <<>> /\ outcome = "none"
        /\ UNCHANGED <<batch, frames, executed, logs, sentBefore, tool, outcome>>
    BY <1>7 DEF BatchDone, driver, history, clock, FrameInv
  <2>2. Left' = Left
    BY <2>1 DEF Left
  <2> QED BY <1>0, <2>1, <2>2, NothingHandled
<1>8. CASE Respond
  <2>1. /\ pc = "respond" /\ pc' = "batch" /\ outcome = "none" /\ batch' = Tail(batch)
        /\ UNCHANGED <<frames, executed, logs, sentBefore, outcome>> /\ ReadHandler
    BY <1>8 DEF Respond, NextFrame, history, clock, FrameInv
  <2>2. UNCHANGED <<tool.calls, tool.logs, tool.settled>>
    BY <1>0, <2>1, ReadTyped
  <2>3. Left' = Left
    BY <2>1 DEF Left
  <2> QED BY <1>0, <2>1, <2>2, <2>3, NothingHandled
<1>9. ASSUME NEW more \in BOOLEAN, LoopOnce(more) PROVE FrameInv'
  <2>1. /\ pc = "loop" /\ pc' \in {"top", "poll"} /\ batch = <<>> /\ outcome = "none"
        /\ UNCHANGED <<batch, frames, executed, logs, sentBefore, outcome>>
        /\ UNCHANGED <<tool.calls, tool.logs, tool.settled>>
    BY <1>0, <1>9, ToolTyped DEF LoopOnce, history, clock, FrameInv, ToolSet
  <2>2. Left' = Left
    BY <2>1 DEF Left
  <2> QED BY <1>0, <2>1, <2>2, NothingHandled
<1>10. CASE IdlePoll
  <2>1. /\ pc = "poll" /\ batch = <<>> /\ outcome = "none" /\ ReadHandler
        /\ UNCHANGED <<batch, frames, executed, logs, sentBefore>>
        /\ (pc' = "top" /\ outcome' = outcome) \/ (pc' = "done" /\ outcome' = "stalled")
    BY <1>10 DEF IdlePoll, history, clock, FrameInv
  <2>2. UNCHANGED <<tool.calls, tool.logs, tool.settled>>
    BY <1>0, <2>1, ReadTyped
  <2>3. CASE pc' = "top" /\ outcome' = outcome
    <3>1. Left' = Left
      BY <2>1, <2>3 DEF Left
    <3> QED BY <1>0, <2>1, <2>2, <2>3, <3>1, NothingHandled
  <2>4. CASE pc' = "done" /\ outcome' = "stalled"
    BY <1>0, <2>1, <2>2, <2>4 DEF FrameInv, Numbered, NothingBeforeResultIsLost
  <2> QED BY <2>1, <2>3, <2>4
<1>11. CASE HostReturns
  <2>1. /\ pc = "host" /\ pc' = "respond" /\ outcome = "none" /\ Head(batch).id = Len(executed)
        /\ UNCHANGED <<batch, frames, executed, logs, sentBefore, tool, outcome>>
    BY <1>11 DEF HostReturns, driver, history, clock, FrameInv
  <2>2. Left' = Left
    BY <2>1 DEF Left
  <2> QED BY <1>0, <2>1, <2>2, NothingHandled
<1>13. CASE TimerFires
  <2>1. /\ pc = "loop" /\ batch = <<>> /\ outcome = "none"
        /\ UNCHANGED <<pc, batch, frames, executed, logs, sentBefore, outcome>>
        /\ UNCHANGED <<tool.calls, tool.logs, tool.settled>>
    BY <1>0, <1>13, TimerOnly DEF FrameInv
  <2>2. Left' = Left
    BY <2>1 DEF Left
  <2> QED BY <1>0, <2>1, <2>2, NothingHandled
<1>12. CASE UNCHANGED vars
  <2>1. UNCHANGED <<pc, batch, frames, executed, logs, sentBefore, tool, outcome>>
    BY <1>12 DEF vars
  <2>2. Left' = Left
    BY <2>1 DEF Left
  <2>3. Carried' = Carried
    <3> HIDE DEF Left
    <3> QED BY <2>1, <2>2 DEF Carried
  <2> QED BY <1>0, <2>1, <2>3 DEF FrameInv, Numbered, NothingBeforeResultIsLost
<1> QED
  BY <1>1, <1>2, <1>3, <1>4, <1>5, <1>6, <1>7, <1>8, <1>9, <1>10, <1>11, <1>12, <1>13 DEF Next, DriverStep

-----------------------------------------------------------------------------
(* Every response answers a call that was executed, once *)

\* The calls whose response was written.
Answered == IF pc = "host" THEN Len(executed) - 1 ELSE Len(executed)

AnswerInv ==
  /\ FrameInv
  /\ \A i, j \in 1..Len(pipe) : i < j => pipe[i].id < pipe[j].id
  /\ \A i \in 1..Len(pipe) : pipe[i].id \in tool.pending /\ pipe[i].id <= Answered
  /\ \A id \in 1..tool.calls : id \notin tool.pending => id <= Answered

LEMMA PipeTyped ==
  ASSUME TypeOK
  PROVE  /\ pipe \in Seq(Response) /\ Len(pipe) \in Nat
         /\ \A i \in 1..Len(pipe) : pipe[i].id \in Nat /\ pipe[i] \in Response
<1>1. pipe \in Seq(Response)
  BY DEF TypeOK, Response
<1>2. \A x \in Response : x.id \in Nat
  BY EngineAssumption DEF Response
<1> QED
  BY <1>1, <1>2, LenProperties, ElementOfSeq

\* A step that delivers and answers nothing.
LEMMA NothingAnswered ==
  ASSUME AnswerInv, FrameInv', UNCHANGED pipe, Answered' >= Answered,
         tool.pending \subseteq tool'.pending,
         \A id \in 1..tool'.calls : id \in tool'.pending \/ id \in (1..tool.calls) \ tool.pending
  PROVE  AnswerInv'
<1>1. Answered \in Int /\ Answered' \in Int
  BY Lengths DEF Answered, AnswerInv, FrameInv
<1>2. \A i \in 1..Len(pipe) : pipe[i].id \in Nat
  BY PipeTyped DEF AnswerInv, FrameInv
<1> HIDE DEF Answered
<1>3. \A i \in 1..Len(pipe) : pipe[i].id \in tool'.pending /\ pipe[i].id <= Answered'
  BY <1>1, <1>2 DEF AnswerInv
<1>4. \A id \in 1..tool'.calls : id \notin tool'.pending => id <= Answered'
  BY <1>1 DEF AnswerInv
<1> QED
  BY <1>3, <1>4 DEF AnswerInv

\* The tool reads: a response is delivered once, so the others still wait.
LEMMA ReadAnswers ==
  ASSUME AnswerInv, FrameInv', ReadHandler, UNCHANGED executed, pc # "host", pc' # "host"
  PROVE  AnswerInv'
<1>0. TypeOK /\ Answered = Len(executed) /\ Answered' = Len(executed) /\ Len(executed) \in Nat
  BY Lengths DEF Answered, AnswerInv, FrameInv
<1>1. /\ pipe \in Seq(Response) /\ Len(pipe) \in Nat
      /\ \A i \in 1..Len(pipe) : pipe[i].id \in Nat /\ pipe[i] \in Response
  BY <1>0, PipeTyped
<1>2. tool'.calls = tool.calls
  BY <1>0, ReadTyped
<1>3. CASE pipe = <<>>
  BY <1>0, <1>3 DEF ReadHandler, AnswerInv
<1>4. CASE pipe # <<>> /\ Head(pipe).chunks > 1
  <2> DEFINE x == [pipe[1] EXCEPT !.chunks = @ - 1]
  <2>1. pipe' = [pipe EXCEPT ![1] = x] /\ tool' = tool
    BY <1>4 DEF ReadHandler
  <2>2. 1 \in 1..Len(pipe) /\ pipe[1] \in Response /\ Head(pipe) = pipe[1]
    BY <1>1, <1>4, EmptySeq
  <2>3. x \in Response /\ x.id = pipe[1].id
    BY <1>4, <2>2, EngineAssumption DEF Response
  <2> HIDE DEF x
  <2>4. /\ Len(pipe') = Len(pipe)
        /\ \A i \in 1..Len(pipe) : pipe'[i] = IF i = 1 THEN x ELSE pipe[i]
    BY <1>1, <2>1, <2>2, <2>3, ExceptSeq
  <2>5. \A i \in 1..Len(pipe) : pipe'[i].id = pipe[i].id
    BY <2>3, <2>4
  <2> QED BY <1>0, <2>1, <2>4, <2>5 DEF AnswerInv
<1>5. CASE pipe # <<>> /\ ~(Head(pipe).chunks > 1)
  <2>1. pipe' = Tail(pipe) /\ tool' = [tool EXCEPT !.pending = @ \ {Head(pipe).id}, !.ready = TRUE]
    BY <1>5 DEF ReadHandler
  <2>2. tool'.pending = tool.pending \ {pipe[1].id}
    BY <1>0, <2>1, ToolTyped DEF ToolSet
  <2>3. /\ Len(pipe') = Len(pipe) - 1 /\ Len(pipe) \in Nat \ {0}
        /\ \A i \in 1..Len(pipe') : pipe'[i] = pipe[i + 1]
    BY <1>1, <1>5, <2>1, HeadTailProperties, EmptySeq
  <2>4. \A i \in 1..Len(pipe') : i + 1 \in 1..Len(pipe) /\ 1 \in 1..Len(pipe) /\ 1 < i + 1
    BY <2>3
  <2>5. \A i \in 1..Len(pipe') : pipe[1].id < pipe[i + 1].id
    BY <2>4 DEF AnswerInv
  <2>6. \A i \in 1..Len(pipe') : pipe'[i].id \in tool'.pending /\ pipe'[i].id <= Len(executed)
    BY <1>0, <1>1, <2>2, <2>3, <2>4, <2>5 DEF AnswerInv
  <2>7. ASSUME NEW i \in 1..Len(pipe'), NEW j \in 1..Len(pipe'), i < j
        PROVE  pipe'[i].id < pipe'[j].id
    <3> DEFINE a == i + 1
               b == j + 1
    <3>1. pipe'[i] = pipe[a] /\ pipe'[j] = pipe[b] /\ a \in 1..Len(pipe) /\ b \in 1..Len(pipe)
      BY <2>3, <2>4
    <3>2. a < b
      BY <2>3, <2>7
    <3> HIDE DEF a, b
    <3> QED BY <3>1, <3>2 DEF AnswerInv
  <2>8. \A id \in 1..tool.calls : id \notin tool'.pending => id <= Len(executed)
    <3>1. 1 \in 1..Len(pipe) /\ pipe[1].id <= Len(executed)
      BY <1>0, <2>3 DEF AnswerInv
    <3> QED BY <1>0, <2>2, <3>1 DEF AnswerInv
  <2> QED BY <1>0, <1>2, <2>6, <2>7, <2>8 DEF AnswerInv
<1> QED
  BY <1>3, <1>4, <1>5

LEMMA HostAnswers == ASSUME AnswerInv, FrameInv', HostReturns PROVE AnswerInv'
<1>1. /\ pc = "host" /\ pc' = "respond" /\ UNCHANGED <<tool, executed>>
      /\ Head(batch).id = Len(executed) /\ TypeOK /\ Carried /\ batch # <<>>
      /\ Head(batch).t = "call" /\ batch \in Seq(Frame)
  BY DEF HostReturns, AnswerInv, FrameInv, TypeOK, history, clock
<1>2. Len(executed) \in Nat /\ Answered = Len(executed) - 1 /\ Answered' = Len(executed)
  BY <1>1, Lengths DEF Answered
<1>3. Head(batch) \in Frame /\ Len(executed) \in 1..MaxCalls
  BY <1>1, HeadTailProperties DEF Frame
<1>4. PICK c \in 1..MaxChunks : pipe' = Append(pipe, [id |-> Len(executed), chunks |-> c])
  BY <1>1 DEF HostReturns, Answers
<1> DEFINE x == [id |-> Len(executed), chunks |-> c]
<1>5. x \in Response /\ x.id = Len(executed) /\ pipe' = Append(pipe, x)
  BY <1>3, <1>4 DEF Response
<1> HIDE DEF x
<1>6. /\ pipe \in Seq(Response) /\ Len(pipe) \in Nat /\ \A i \in 1..Len(pipe) : pipe[i].id \in Nat
  BY <1>1, PipeTyped
<1>7. /\ Len(pipe') = Len(pipe) + 1 /\ pipe'[Len(pipe) + 1] = x
      /\ \A i \in 1..Len(pipe) : pipe'[i] = pipe[i]
  BY <1>5, <1>6, AppendProperties
<1>8. \A i \in 1..Len(pipe') : i \in 1..Len(pipe) \/ i = Len(pipe) + 1
  BY <1>6, <1>7
<1>9. \A i \in 1..Len(pipe) : pipe[i].id \in tool.pending /\ pipe[i].id < Len(executed)
  BY <1>2, <1>6 DEF AnswerInv
<1>10. Len(executed) \in tool.pending
  <2>1. Len(executed) <= tool.calls
    BY <1>1 DEF Carried, Carries
  <2>2. Len(executed) \in 1..tool.calls
    BY <1>1, <1>2, <1>3, <2>1, ToolTyped
  <2> QED BY <1>2, <2>2 DEF AnswerInv
<1>11. \A i \in 1..Len(pipe') : pipe'[i].id \in tool.pending /\ pipe'[i].id <= Len(executed)
  BY <1>2, <1>5, <1>6, <1>7, <1>8, <1>9, <1>10
<1>12. ASSUME NEW i \in 1..Len(pipe'), NEW j \in 1..Len(pipe'), i < j
       PROVE  pipe'[i].id < pipe'[j].id
  <2>1. i \in 1..Len(pipe)
    BY <1>6, <1>7, <1>12
  <2>2. CASE j = Len(pipe) + 1
    BY <1>5, <1>7, <1>9, <2>1, <2>2
  <2>3. CASE j \in 1..Len(pipe)
    BY <1>7, <1>12, <2>1, <2>3 DEF AnswerInv
  <2> QED BY <1>8, <2>2, <2>3
<1>13. \A id \in 1..tool.calls : id \notin tool.pending => id <= Len(executed)
  <2>1. \A id \in 1..tool.calls : id \notin tool.pending => id <= Len(executed) - 1
    BY <1>2 DEF AnswerInv
  <2>2. \A id \in 1..tool.calls : id \in Int
    BY <1>1, ToolTyped
  <2> QED BY <1>2, <2>1, <2>2
<1> QED
  BY <1>1, <1>2, <1>11, <1>12, <1>13 DEF AnswerInv

LEMMA CallGrows ==
  ASSUME FrameInv, HandleCall
  PROVE  Len(executed') = Len(executed) + 1
<1>1. /\ TypeOK /\ batch # <<>> /\ batch \in Seq(Frame) /\ Head(batch).t = "call"
      /\ executed' = Append(executed, Head(batch).id)
  BY DEF HandleCall, FrameInv, TypeOK
<1>2. Head(batch) \in Frame
  BY <1>1, HeadTailProperties
<1>3. Head(batch).id \in 1..MaxCalls
  BY <1>1, <1>2 DEF Frame
<1> QED
  BY <1>1, <1>3, Lengths, AppendProperties

LEMMA AnswerStep == AnswerInv /\ [Next]_vars => AnswerInv'
<1> SUFFICES ASSUME AnswerInv, [Next]_vars PROVE AnswerInv'
  OBVIOUS
<1>0. FrameInv' /\ TypeOK
  BY FrameStep DEF AnswerInv, FrameInv
<1>1. Len(executed) \in Nat
  BY <1>0, Lengths
<1>2. \A id \in 1..tool.calls : id \in tool.pending \/ id \in (1..tool.calls) \ tool.pending
  OBVIOUS
<1>3. ASSUME UNCHANGED <<pipe, tool, executed>>, pc # "host" \/ pc' = "host", pc' # "host" \/ pc = "host"
      PROVE  AnswerInv'
  <2>1. Answered' = Answered /\ Answered \in Int
    BY <1>1, <1>3 DEF Answered
  <2> HIDE DEF Answered
  <2> QED BY <1>0, <1>2, <1>3, <2>1, NothingAnswered
<1>4. CASE Deadline \/ Cancelled \/ ToolTimer \/ UNCHANGED vars
  BY <1>3, <1>4, ClocksOnly DEF vars
<1>5. ASSUME UNCHANGED <<pipe, executed, pc>>, tool'.pending = tool.pending, tool'.calls = tool.calls
      PROVE  AnswerInv'
  <2>1. Answered' = Answered /\ Answered \in Int
    BY <1>1, <1>5 DEF Answered
  <2> HIDE DEF Answered
  <2> QED BY <1>0, <1>2, <1>5, <2>1, NothingAnswered
<1>6. CASE ToolCalls
  <2>1. /\ UNCHANGED <<pipe, executed, pc>> /\ tool'.calls = tool.calls + 1
        /\ tool'.pending = tool.pending \cup {tool.calls + 1}
    BY <1>0, <1>6, ToolTyped DEF ToolCalls, history, clock, ToolSet
  <2>2. Answered' = Answered /\ Answered \in Int
    BY <1>1, <2>1 DEF Answered
  <2>3. \A id \in 1..tool'.calls : id \in 1..tool.calls \/ id = tool.calls + 1
    BY <1>0, <2>1, ToolTyped
  <2> HIDE DEF Answered
  <2> QED BY <1>0, <2>1, <2>2, <2>3, NothingAnswered
<1>7. CASE ToolLogs \/ \E how \in {"result", "error"} : ToolSettles(how)
  BY <1>0, <1>5, <1>7, ToolTyped DEF ToolLogs, ToolSettles, history, clock, ToolSet
<1>13. CASE TimerFires
  BY <1>0, <1>5, <1>13, TimerOnly
<1>8. CASE EvalReturns \/ \E more \in BOOLEAN : LoopOnce(more)
  <2>1. /\ UNCHANGED <<pipe, executed>> /\ pc # "host" /\ pc' # "host"
        /\ tool'.pending = tool.pending /\ tool'.calls = tool.calls
    BY <1>0, <1>8, ToolTyped DEF EvalReturns, LoopOnce, history, clock, ToolSet
  <2>2. Answered' = Answered /\ Answered \in Int
    BY <1>1, <2>1 DEF Answered
  <2> HIDE DEF Answered
  <2> QED BY <1>0, <1>2, <2>1, <2>2, NothingAnswered
<1>9. CASE EvalFails \/ PollFails \/ LoopFails \/ LoopTop \/ HandleLog \/ HandleEnd \/ BatchDone
  BY <1>3, <1>9 DEF EvalFails, PollFails, LoopFails, LoopTop, HandleLog, HandleEnd, BatchDone, End, history, clock
<1>10. CASE HandleCall
  <2>1. /\ UNCHANGED <<pipe, tool>> /\ pc = "batch" /\ pc' = "host"
        /\ executed' = Append(executed, Head(batch).id)
    BY <1>10 DEF HandleCall
  <2>2. Len(executed') = Len(executed) + 1
    BY <1>0, <1>10, CallGrows DEF AnswerInv
  <2>3. Answered' = Answered /\ Answered \in Int
    BY <1>1, <2>1, <2>2 DEF Answered
  <2> HIDE DEF Answered
  <2> QED BY <1>0, <1>2, <2>1, <2>3, NothingAnswered
<1>11. CASE Respond \/ IdlePoll
  BY <1>0, <1>11, ReadAnswers DEF Respond, IdlePoll, history, clock
<1>12. CASE HostReturns
  BY <1>0, <1>12, HostAnswers
<1> QED
  BY <1>4, <1>6, <1>7, <1>8, <1>9, <1>10, <1>11, <1>12, <1>13 DEF Next, ToolStep, DriverStep

-----------------------------------------------------------------------------
(* Stalls.  Every idle spin reads a chunk if one is left, and every response   *)
(* is read once as it is written: as long as something is on its way, the      *)
(* spins made and the reads left stay below maxIdleSpins.                      *)

\* Chunks left to read, at most: the first response's are known.
ReadsIn(p) == IF p = <<>> THEN 0 ELSE (Len(p) - 1) * MaxChunks + Head(p).chunks
ReadsLeft == ReadsIn(pipe)

Stuck == frames = <<>> /\ pipe = <<>> /\ ~tool.ready

Spins == Stuck \/ idle + ReadsLeft < MaxIdle

\* Whenever the driver enters the loop, what is on its way to the tool is read in
\* fewer than maxIdleSpins spins.
PipeFits == pc \in {"top", "loop"} => ReadsLeft < MaxIdle

\* A timer came due in this spin, and nothing is on its way to the tool.
Fired == fired /\ pipe = <<>>

SpinInv ==
  /\ AnswerInv
  /\ pc \in {"load", "start"} => idle = 0 /\ pipe = <<>>
  /\ pc = "top" => Spins \/ frames # <<>>
  /\ pc \in {"batch", "host", "respond"} => progressed \/ (batch = <<>> /\ Spins)
  /\ pc = "loop" => progressed \/ Spins \/ Fired
  /\ pc = "poll" => ~tool.ready /\ (Spins \/ Fired)
  /\ outcome = "stalled" => StalledIsStuck

LEMMA Times == ASSUME NEW a \in Nat, NEW b \in Nat PROVE a * b \in Nat
  OBVIOUS

LEMMA TimesMore ==
  ASSUME NEW a \in Int, NEW b \in Int, NEW c \in Nat, a <= b
  PROVE  a * c <= b * c /\ a * c \in Int /\ (a + 1) * c = a * c + c
<1>1. b - a \in Nat /\ (b - a) * c \in Nat
  BY Times
<1>2. (b - a) * c = b * c - a * c
  OBVIOUS
<1> QED
  BY <1>1, <1>2

LEMMA ReadsTyped ==
  ASSUME NEW p \in Seq(Response)
  PROVE  ReadsIn(p) \in Nat /\ (ReadsIn(p) = 0 <=> p = <<>>)
<1>1. CASE p = <<>>
  BY <1>1 DEF ReadsIn
<1>2. CASE p # <<>>
  <2>1. Len(p) - 1 \in Nat /\ MaxChunks \in Nat /\ Head(p) \in Response
    BY <1>2, HeadTailProperties, EngineAssumption, EmptySeq, LenProperties
  <2>2. Head(p).chunks \in Nat \ {0}
    BY <2>1 DEF Response
  <2>3. (Len(p) - 1) * MaxChunks \in Nat
    BY <2>1, Times
  <2> QED BY <1>2, <2>2, <2>3 DEF ReadsIn
<1> QED
  BY <1>1, <1>2

LEMMA LeftReads ==
  ASSUME TypeOK
  PROVE  ReadsLeft \in Nat /\ (ReadsLeft = 0 <=> pipe = <<>>)
<1>1. pipe \in Seq(Response)
  BY DEF TypeOK, Response
<1> QED
  BY <1>1, ReadsTyped DEF ReadsLeft

LEMMA LeftReadsNext == ASSUME TypeOK' PROVE ReadsLeft' \in Nat
<1>1. pipe' \in Seq(Response)
  BY DEF TypeOK, Response
<1> QED
  BY <1>1, ReadsTyped DEF ReadsLeft

\* A read makes what is left less, if anything was left.
LEMMA ReadLess ==
  ASSUME TypeOK, TypeOK', ReadHandler
  PROVE  ReadsLeft' <= ReadsLeft /\ (pipe # <<>> => ReadsLeft' < ReadsLeft)
<1> DEFINE n == Len(pipe)
<1>1. /\ pipe \in Seq(Response) /\ n \in Nat /\ MaxChunks \in Nat
      /\ \A x \in Response : x.chunks \in 1..MaxChunks
  BY PipeTyped, EngineAssumption DEF Response
<1>2. CASE pipe = <<>>
  BY <1>2, LeftReads DEF ReadHandler, ReadsLeft, ReadsIn
<1>3. CASE pipe # <<>> /\ Head(pipe).chunks > 1
  <2> DEFINE x == [pipe[1] EXCEPT !.chunks = @ - 1]
  <2>1. pipe' = [pipe EXCEPT ![1] = x]
    BY <1>3 DEF ReadHandler
  <2>2. 1 \in 1..n /\ pipe[1] \in Response /\ Head(pipe) = pipe[1] /\ n - 1 \in Nat
    BY <1>1, <1>3, EmptySeq, HeadTailProperties
  <2>3. x \in Response /\ x.chunks = Head(pipe).chunks - 1
    BY <1>3, <2>2, EngineAssumption DEF Response
  <2> HIDE DEF x
  <2>4. pipe' \in Seq(Response) /\ Len(pipe') = n /\ pipe'[1] = x
    BY <1>1, <2>1, <2>2, <2>3, ExceptSeq
  <2>5. pipe' # <<>> /\ Head(pipe') = x
    BY <2>2, <2>4, EmptySeq
  <2>6. (n - 1) * MaxChunks \in Nat /\ Head(pipe).chunks \in Nat
    BY <1>1, <2>2, Times
  <2>7. ReadsLeft = (n - 1) * MaxChunks + Head(pipe).chunks
    BY <1>3 DEF ReadsLeft, ReadsIn
  <2>8. ReadsLeft' = (n - 1) * MaxChunks + (Head(pipe).chunks - 1)
    BY <2>3, <2>4, <2>5, EngineAssumption DEF ReadsLeft, ReadsIn
  <2> HIDE DEF n
  <2> QED BY <2>6, <2>7, <2>8
<1>4. CASE pipe # <<>> /\ ~(Head(pipe).chunks > 1)
  <2>1. pipe' = Tail(pipe)
    BY <1>4 DEF ReadHandler
  <2>2. /\ pipe' \in Seq(Response) /\ Len(pipe') = n - 1 /\ n - 1 \in Nat
        /\ Head(pipe).chunks \in 1..MaxChunks
    BY <1>1, <1>4, <2>1, HeadTailProperties, EmptySeq
  <2>3. (n - 1) * MaxChunks \in Nat /\ ReadsLeft = (n - 1) * MaxChunks + Head(pipe).chunks
    BY <1>1, <1>4, <2>2, Times DEF ReadsLeft, ReadsIn
  <2>4. CASE pipe' = <<>>
    BY <1>1, <2>2, <2>3, <2>4 DEF ReadsLeft, ReadsIn
  <2>5. CASE pipe' # <<>>
    <3>1. n - 2 \in Nat /\ Head(pipe') \in Response
      BY <2>2, <2>5, HeadTailProperties, EmptySeq
    <3>2. (n - 2) * MaxChunks \in Int /\ ((n - 2) + 1) * MaxChunks = (n - 2) * MaxChunks + MaxChunks
      BY <1>1, <3>1, TimesMore
    <3>3. (n - 2) + 1 = n - 1 /\ (n - 1) - 1 = n - 2
      BY <1>1
    <3>4. ReadsLeft' = (n - 2) * MaxChunks + Head(pipe').chunks
      BY <2>2, <2>5, <3>3 DEF ReadsLeft, ReadsIn
    <3>5. Head(pipe').chunks \in 1..MaxChunks
      BY <1>1, <3>1
    <3>6. (n - 1) * MaxChunks = (n - 2) * MaxChunks + MaxChunks
      BY <3>2, <3>3
    <3> HIDE DEF n
    <3> QED BY <1>1, <2>2, <2>3, <3>2, <3>4, <3>5, <3>6
  <2> QED BY <2>4, <2>5
<1> QED
  BY <1>2, <1>3, <1>4

\* A response adds its chunks.
LEMMA WriteMore ==
  ASSUME TypeOK, TypeOK', HostReturns
  PROVE  ReadsLeft' <= ReadsLeft + MaxChunks
<1> DEFINE n == Len(pipe)
<1>1. PICK c \in 1..MaxChunks : pipe' = Append(pipe, [id |-> Answers, chunks |-> c])
  BY DEF HostReturns
<1> DEFINE x == [id |-> Answers, chunks |-> c]
<1>2. x.chunks = c /\ pipe' = Append(pipe, x)
  BY <1>1
<1> HIDE DEF x
<1>3. pipe \in Seq(Response) /\ pipe' \in Seq(Response) /\ n \in Nat /\ MaxChunks \in Nat /\ ReadsLeft \in Nat
  BY PipeTyped, LeftReads, EngineAssumption DEF TypeOK, Response
<1>4. Len(pipe') = n + 1 /\ pipe'[n + 1] = x /\ \A i \in 1..n : pipe'[i] = pipe[i]
  <2> DEFINE S == Response \cup {x}
  <2>1. pipe \in Seq(S) /\ x \in S
    BY <1>3, SeqMonotonic
  <2> HIDE DEF S
  <2> QED BY <1>2, <2>1, AppendProperties
<1>5. pipe' # <<>> /\ Head(pipe') = pipe'[1]
  BY <1>3, <1>4, EmptySeq, HeadTailProperties
<1>6. ReadsLeft' = ((n + 1) - 1) * MaxChunks + pipe'[1].chunks
  BY <1>4, <1>5, EngineAssumption DEF ReadsLeft, ReadsIn
<1>7. (n + 1) - 1 = n
  BY <1>3
<1>8. CASE pipe = <<>>
  <2>1. n = 0
    BY <1>8, EmptySeq
  <2>2. ReadsLeft' = 0 * MaxChunks + c
    BY <1>2, <1>4, <1>6, <1>7, <2>1
  <2> HIDE DEF n
  <2> QED BY <1>3, <2>2
<1>9. CASE pipe # <<>>
  <2>1. n - 1 \in Nat /\ pipe'[1] = Head(pipe) /\ Head(pipe) \in Response
    BY <1>3, <1>4, <1>9, EmptySeq, HeadTailProperties
  <2>2. /\ (n - 1) * MaxChunks \in Int
        /\ ((n - 1) + 1) * MaxChunks = (n - 1) * MaxChunks + MaxChunks
    BY <1>3, <2>1, TimesMore
  <2>3. ReadsLeft = (n - 1) * MaxChunks + Head(pipe).chunks
    BY <1>9 DEF ReadsLeft, ReadsIn
  <2>4. (n - 1) + 1 = n
    BY <1>3
  <2>5. Head(pipe).chunks \in Int
    BY <2>1 DEF Response
  <2>6. ReadsLeft' = (n - 1) * MaxChunks + MaxChunks + Head(pipe).chunks
    BY <1>6, <1>7, <2>1, <2>2, <2>4
  <2> HIDE DEF n
  <2> QED BY <1>3, <2>2, <2>3, <2>5, <2>6
<1> QED
  BY <1>8, <1>9

\* The invocation ends, but not as stalled.
LEMMA SpinEnd ==
  ASSUME AnswerInv', pc' = "done", outcome' # "stalled" PROVE SpinInv'
  BY DEF SpinInv

\* The tool runs: a job of its own, so it was not stuck.
LEMMA SpinTool == ASSUME SpinInv, AnswerInv', ToolStep PROVE SpinInv'
<1>1. TypeOK
  BY DEF SpinInv, AnswerInv, FrameInv
<1>2. /\ UNCHANGED <<pc, driver, pipe, outcome, fired>> /\ tool'.ready = tool.ready
      /\ pc = "load" \/ (pc = "loop" /\ tool.ready)
  BY <1>1, ToolTyped DEF ToolStep, ToolCalls, ToolLogs, ToolTimer, ToolSettles, ToolRuns, history,
     clock, ToolSet
<1>3. ReadsLeft' = ReadsLeft
  BY <1>2 DEF ReadsLeft
<1>4. pc # "done" /\ outcome # "stalled"
  BY <1>2 DEF SpinInv, AnswerInv, FrameInv
<1>5. pc = "loop" => progressed \/ idle + ReadsLeft < MaxIdle \/ Fired
  BY <1>2 DEF SpinInv, Spins, Stuck
<1> QED
  BY <1>2, <1>3, <1>4, <1>5 DEF SpinInv, Spins, Fired, driver

\* The tool's own timer: what else it waits for is as it was.
LEMMA SpinTimer == ASSUME SpinInv, AnswerInv', TimerFires PROVE SpinInv'
<1>1. TypeOK
  BY DEF SpinInv, AnswerInv, FrameInv
<1>2. /\ UNCHANGED <<pc, idle, pipe, progressed, outcome>> /\ pc = "loop" /\ fired'
  BY <1>1, TimerOnly
<1>3. ReadsLeft' = ReadsLeft
  BY <1>2 DEF ReadsLeft
<1>4. outcome # "stalled"
  BY <1>2 DEF SpinInv, AnswerInv, FrameInv
<1>5. progressed \/ idle + ReadsLeft < MaxIdle \/ pipe = <<>>
  BY <1>2 DEF SpinInv, Spins, Stuck, Fired
<1>6. progressed' \/ Spins' \/ Fired'
  BY <1>2, <1>3, <1>5 DEF Spins, Fired
<1> QED
  BY <1>2, <1>4, <1>6 DEF SpinInv

\* The driver goes from Eval, over the batch and the host calls, into the loop.
LEMMA SpinBatch ==
  ASSUME SpinInv, AnswerInv', PipeFits',
         EvalReturns \/ LoopTop \/ HandleCall \/ HandleLog \/ BatchDone \/ HostReturns \/ Respond
  PROVE  SpinInv'
<1>0. TypeOK /\ outcome = "none"
  BY DEF SpinInv, AnswerInv, FrameInv, EvalReturns, LoopTop, HandleCall, HandleLog, BatchDone,
     HostReturns, Respond
<1>1. CASE EvalReturns
  <2>1. /\ UNCHANGED <<driver, frames, pipe, outcome>> /\ pc \in {"load", "start"}
        /\ pc' \in {"start", "top"}
    BY <1>1 DEF EvalReturns
  <2>2. idle' = 0 /\ pipe' = <<>> /\ ReadsLeft' = 0
    BY <2>1 DEF SpinInv, ReadsLeft, ReadsIn, driver, clock
  <2>3. pc' = "top" => Spins'
    BY <2>2 DEF Spins, PipeFits
  <2> QED BY <1>0, <2>1, <2>2, <2>3 DEF SpinInv
<1>2. CASE LoopTop /\ late
  BY <1>0, <1>2, SpinEnd DEF LoopTop, End
<1>3. CASE LoopTop /\ ~late
  <2>1. /\ UNCHANGED <<idle, pipe, tool, outcome>> /\ pc = "top" /\ pc' = "batch"
        /\ batch' = frames /\ frames' = <<>> /\ progressed' = (frames # <<>>)
    BY <1>3 DEF LoopTop, Take
  <2>2. ReadsLeft' = ReadsLeft
    BY <2>1 DEF ReadsLeft
  <2>3. progressed' \/ (batch' = <<>> /\ Spins')
    BY <2>1, <2>2 DEF SpinInv, Spins, Stuck
  <2> QED BY <1>0, <2>1, <2>3 DEF SpinInv
<1>4. CASE HandleCall \/ HostReturns \/ Respond
  <2>1. /\ UNCHANGED <<progressed, outcome>> /\ pc \in {"batch", "host", "respond"}
        /\ pc' \in {"batch", "host", "respond"} /\ batch # <<>>
    BY <1>0, <1>4 DEF HandleCall, HostReturns, Respond, driver, clock, TypeOK
  <2> QED BY <1>0, <2>1 DEF SpinInv
<1>5. CASE HandleLog \/ BatchDone
  <2>1. /\ UNCHANGED <<progressed, idle, frames, pipe, tool, outcome>> /\ pc = "batch"
        /\ \/ pc' = "batch" /\ batch # <<>>
           \/ pc' = "loop"
    BY <1>5 DEF HandleLog, BatchDone, driver, clock
  <2>2. ReadsLeft' = ReadsLeft
    BY <2>1 DEF ReadsLeft
  <2>3. pc' = "batch" => progressed'
    BY <2>1 DEF SpinInv
  <2>4. progressed' \/ Spins'
    BY <2>1, <2>2 DEF SpinInv, Spins, Stuck
  <2> QED BY <1>0, <2>1, <2>3, <2>4 DEF SpinInv
<1> QED
  BY <1>1, <1>2, <1>3, <1>4, <1>5

\* LoopOnce resets the count, or there is nothing the tool can run.
LEMMA SpinLoop ==
  ASSUME SpinInv, AnswerInv', PipeFits, NEW more \in BOOLEAN, LoopOnce(more)
  PROVE  SpinInv'
<1>1. /\ UNCHANGED <<progressed, frames, pipe, outcome, fired>> /\ pc = "loop"
      /\ pc' \in {"top", "poll"} /\ tool' = [tool EXCEPT !.ready = more] /\ TypeOK
  BY DEF LoopOnce, history, SpinInv, AnswerInv, FrameInv
<1>2. ReadsLeft' = ReadsLeft /\ ReadsLeft \in Nat
  BY <1>1, LeftReads DEF ReadsLeft
<1>3. outcome = "none" /\ tool'.ready = more
  BY <1>1, ToolTyped DEF SpinInv, AnswerInv, FrameInv, ToolSet
<1>4. CASE more \/ progressed
  <2>1. pc' = "top" /\ idle' = 0
    BY <1>4 DEF LoopOnce
  <2>2. ReadsLeft < MaxIdle
    BY <1>1 DEF PipeFits
  <2>3. Spins'
    BY <1>2, <2>1, <2>2 DEF Spins
  <2> QED BY <1>1, <1>3, <2>1, <2>3 DEF SpinInv
<1>5. CASE ~(more \/ progressed)
  <2>1. pc' = "poll" /\ idle' = idle /\ ~tool'.ready
    BY <1>3, <1>5 DEF LoopOnce
  <2>2. Spins \/ Fired
    BY <1>1, <1>5 DEF SpinInv
  <2>3. Spins' \/ Fired'
    BY <1>1, <1>2, <2>1, <2>2 DEF Spins, Stuck, Fired
  <2> QED BY <1>1, <1>3, <2>1, <2>3 DEF SpinInv
<1> QED
  BY <1>4, <1>5

\* An idle spin: one read less, or the tool is stuck, or it wrote something
\* before it stopped.
LEMMA SpinPoll ==
  ASSUME SpinInv, AnswerInv', IdlePoll
  PROVE  SpinInv'
<1>1. /\ UNCHANGED <<progressed, frames, executed, fired>> /\ pc = "poll" /\ ReadHandler /\ idle' = idle + 1
      /\ TypeOK /\ TypeOK' /\ outcome = "none"
  BY DEF IdlePoll, history, clock, SpinInv, AnswerInv, FrameInv
<1>2. idle \in Nat /\ MaxIdle \in Nat /\ ReadsLeft \in Nat /\ ReadsLeft' \in Nat
  BY <1>1, CountersTyped, LeftReads, LeftReadsNext
<1>3. ReadsLeft' <= ReadsLeft /\ (pipe # <<>> => ReadsLeft' < ReadsLeft)
  BY <1>1, ReadLess
<1>4. ~tool.ready /\ (Spins \/ Fired)
  BY <1>1 DEF SpinInv
<1>5. CASE Stuck
  <2>1. Stuck'
    BY <1>1, <1>5 DEF Stuck, ReadHandler
  <2> QED BY <1>1, <2>1 DEF SpinInv, IdlePoll, Spins, Stuck, StalledIsStuck
<1>7. CASE Fired /\ ~Stuck
  <2>1. Fired' /\ frames' # <<>> /\ ~tool'.ready
    BY <1>1, <1>4, <1>7 DEF Fired, Stuck, ReadHandler
  <2> QED BY <1>1, <2>1 DEF SpinInv, IdlePoll, Fired, StalledIsStuck
<1>6. CASE ~Stuck /\ ~Fired
  <2>1. idle + ReadsLeft < MaxIdle
    BY <1>4, <1>6 DEF Spins
  <2>2. pc' = "top" /\ outcome' = outcome
    BY <1>2, <2>1 DEF IdlePoll, GiveUp
  <2>3. CASE pipe = <<>>
    <3>1. frames' # <<>>
      BY <1>1, <1>4, <1>6, <2>3 DEF Stuck
    <3> QED BY <1>1, <2>2, <3>1 DEF SpinInv
  <2>4. CASE pipe # <<>>
    <3>1. PICK left \in Nat : left = ReadsLeft'
      BY <1>2
    <3>2. left < ReadsLeft
      BY <1>3, <2>4, <3>1
    <3>3. idle' + left < MaxIdle
      BY <1>1, <1>2, <2>1, <3>2
    <3>4. Spins'
      BY <3>1, <3>3 DEF Spins
    <3> QED BY <1>1, <2>2, <3>4 DEF SpinInv
  <2> QED BY <2>3, <2>4
<1> QED
  BY <1>5, <1>6, <1>7

LEMMA SpinStep == SpinInv /\ PipeFits /\ PipeFits' /\ [Next]_vars => SpinInv'
<1> SUFFICES ASSUME SpinInv, PipeFits, PipeFits', [Next]_vars PROVE SpinInv'
  OBVIOUS
<1>0. AnswerInv' /\ TypeOK
  BY AnswerStep DEF SpinInv, AnswerInv, FrameInv
<1>1. CASE Deadline \/ Cancelled \/ ToolTimer \/ UNCHANGED vars
  <2>1. UNCHANGED <<pc, batch, progressed, idle, frames, pipe, tool, outcome, fired>>
    BY <1>1, ClocksOnly DEF vars
  <2>2. Spins' = Spins /\ Fired' = Fired /\ StalledIsStuck' = StalledIsStuck
    BY <2>1 DEF Spins, Stuck, Fired, StalledIsStuck, ReadsLeft
  <2> QED BY <1>0, <2>1, <2>2 DEF SpinInv
<1>2. CASE EvalFails \/ PollFails \/ LoopFails \/ HandleEnd
  BY <1>0, <1>2, SpinEnd DEF EvalFails, PollFails, LoopFails, HandleEnd, End
<1> QED
  BY <1>0, <1>1, <1>2, SpinTool, SpinTimer, SpinBatch, SpinLoop, SpinPoll DEF Next, DriverStep

\* How much is on its way: every response is read once as it is written.
ReadBound ==
  pc # "done" =>
    ReadsLeft <= Answered * (MaxChunks - 1) + (IF pc = "respond" THEN 1 ELSE 0)

LEMMA ReadStep == AnswerInv /\ ReadBound /\ [Next]_vars => ReadBound'
<1> SUFFICES ASSUME AnswerInv, ReadBound, [Next]_vars, pc' # "done" PROVE ReadBound'
  BY DEF ReadBound
<1> DEFINE per == MaxChunks - 1
<1>0. /\ TypeOK /\ TypeOK' /\ Len(executed) \in Nat /\ per \in Nat /\ MaxChunks = per + 1
      /\ ReadsLeft \in Nat /\ ReadsLeft' \in Nat /\ AnswerInv'
  <2>1. AnswerInv' /\ TypeOK /\ TypeOK'
    BY AnswerStep DEF AnswerInv, FrameInv
  <2> QED BY <2>1, Lengths, LeftReads, LeftReadsNext, EngineAssumption
<1> HIDE DEF per
<1>1. ASSUME UNCHANGED pipe, Answered' = Answered, pc # "done", pc # "respond" \/ pc' = "respond"
      PROVE  ReadBound'
  <2> DEFINE a == Answered * (MaxChunks - 1)
  <2>1. Answered \in Int
    BY <1>0 DEF Answered
  <2>2. ReadsLeft' = ReadsLeft
    BY <1>1 DEF ReadsLeft
  <2> HIDE DEF Answered
  <2>3. a \in Int /\ a' = a
    BY <1>0, <1>1, <2>1, TimesMore DEF per
  <2> HIDE DEF a
  <2>4. ReadsLeft <= a + (IF pc = "respond" THEN 1 ELSE 0)
    BY <1>1 DEF ReadBound, a
  <2>5. ReadsLeft' <= a' + (IF pc' = "respond" THEN 1 ELSE 0)
    BY <1>0, <1>1, <2>2, <2>3, <2>4
  <2> QED BY <2>5 DEF ReadBound, a
<1>2. ASSUME UNCHANGED <<pipe, executed>>, pc # "done", pc # "host" /\ pc' # "host",
             pc # "respond" /\ pc' # "respond"
      PROVE  ReadBound'
  <2>1. Answered' = Answered
    BY <1>2 DEF Answered
  <2> QED BY <1>1, <1>2, <2>1
<1>3. CASE Deadline \/ Cancelled \/ ToolTimer \/ TimerFires \/ UNCHANGED vars
  <2>1. UNCHANGED <<pc, pipe, executed>>
    BY <1>0, <1>3, ClocksOnly, TimerOnly DEF vars
  <2> QED BY <2>1 DEF ReadBound, ReadsLeft, Answered
<1>4. CASE ToolStep \/ EvalReturns \/ LoopTop \/ HandleLog \/ BatchDone \/ \E more \in BOOLEAN : LoopOnce(more)
  BY <1>2, <1>3, <1>4 DEF ToolStep, ToolCalls, ToolLogs, ToolSettles, ToolRuns, EvalReturns, LoopTop, HandleLog,
     BatchDone, LoopOnce, End, history, clock
<1>5. CASE EvalFails \/ PollFails \/ LoopFails \/ HandleEnd
  BY <1>5 DEF EvalFails, PollFails, LoopFails, HandleEnd, End
<1>6. CASE HandleCall
  <2>1. UNCHANGED pipe /\ pc = "batch" /\ pc' = "host" /\ Len(executed') = Len(executed) + 1
    BY <1>6, CallGrows DEF HandleCall, AnswerInv
  <2>2. Answered' = Answered
    BY <1>0, <2>1 DEF Answered
  <2> QED BY <1>1, <2>1, <2>2
<1>7. CASE HostReturns
  <2> DEFINE e == Len(executed)
             a == (e - 1) * per
             b == e * per
  <2>1. UNCHANGED executed /\ pc = "host" /\ pc' = "respond"
    BY <1>7 DEF HostReturns, history, clock
  <2>2. ReadsLeft <= a + 0
    BY <2>1 DEF ReadBound, Answered, per
  <2>3. ReadsLeft' <= ReadsLeft + (per + 1)
    BY <1>0, <1>7, WriteMore
  <2>4. a \in Int /\ ((e - 1) + 1) * per = a + per
    BY <1>0, TimesMore
  <2>5. (e - 1) + 1 = e
    BY <1>0
  <2>6. b = a + per
    BY <2>4, <2>5
  <2> HIDE DEF a, b
  <2>7. ReadsLeft' <= b + 1
    BY <1>0, <2>2, <2>3, <2>4, <2>6
  <2> QED BY <2>1, <2>7 DEF ReadBound, Answered, b, per
<1>8. CASE Respond \/ IdlePoll
  <2> DEFINE b == Len(executed) * per
  <2>1. UNCHANGED executed /\ pc \in {"respond", "poll"} /\ pc' \in {"batch", "top", "done"} /\ ReadHandler
    BY <1>8 DEF Respond, IdlePoll, history, clock
  <2>2. ReadsLeft <= b + (IF pc = "respond" THEN 1 ELSE 0)
    BY <2>1 DEF ReadBound, Answered, per
  <2>3. ReadsLeft' <= ReadsLeft /\ (pipe # <<>> => ReadsLeft' < ReadsLeft)
    BY <1>0, <2>1, ReadLess
  <2>4. pipe = <<>> => ReadsLeft = 0
    BY DEF ReadsLeft, ReadsIn
  <2>5. b \in Nat
    BY <1>0, Times
  <2> HIDE DEF b
  <2>6. ReadsLeft' <= b + 0
    BY <1>0, <2>2, <2>3, <2>4, <2>5
  <2> QED BY <2>1, <2>6 DEF ReadBound, Answered, b, per
<1> QED
  BY <1>3, <1>4, <1>5, <1>6, <1>7, <1>8 DEF Next, DriverStep

\* Every call answered adds what is left of its response after one read.
LEMMA ReadsBounded ==
  ASSUME ResponsesFit
  PROVE  AnswerInv /\ ReadBound => PipeFits
<1> SUFFICES ASSUME AnswerInv, ReadBound, pc \in {"top", "loop"} PROVE ReadsLeft < MaxIdle
  BY DEF PipeFits
<1>1. MaxChunks - 1 \in Nat /\ MaxCalls \in Nat /\ MaxIdle \in Nat
  BY EngineAssumption
<1>2. Len(executed) \in Nat /\ Len(executed) <= MaxCalls /\ ReadsLeft \in Nat
  <2>1. TypeOK /\ Len(executed) <= tool.calls
    BY DEF AnswerInv, FrameInv
  <2> QED BY <2>1, Lengths, ToolTyped, LeftReads, <1>1
<1>3. ReadsLeft <= Len(executed) * (MaxChunks - 1) + 0
  BY DEF ReadBound, Answered
<1>4. /\ Len(executed) * (MaxChunks - 1) <= MaxCalls * (MaxChunks - 1)
      /\ Len(executed) * (MaxChunks - 1) \in Int
  BY <1>1, <1>2, TimesMore
<1>5. MaxCalls * (MaxChunks - 1) \in Nat /\ MaxCalls * (MaxChunks - 1) < MaxIdle
  BY <1>1, Times DEF ResponsesFit
<1> QED
  BY <1>1, <1>2, <1>3, <1>4, <1>5

-----------------------------------------------------------------------------
(* The theorems *)

\* After the deadline, a call that was begun is the driver's last.
LateInv ==
  /\ TypeOK
  /\ lateCalls <= 1
  /\ lateCalls # 0 => late /\ pc \in {"host", "respond", "done"}

LEMMA LateStep == LateInv /\ [Next]_vars => LateInv'
<1> SUFFICES ASSUME LateInv, [Next]_vars PROVE LateInv'
  OBVIOUS
<1>0. TypeOK /\ TypeOK' /\ lateCalls \in Nat
  BY EngineTypes, CountersTyped DEF LateInv
<1>1. CASE HandleCall
  <2>1. lateCalls = 0 /\ pc' = "host" /\ late' = late
    BY <1>1 DEF HandleCall, clock, LateInv
  <2>2. lateCalls' = IF late THEN lateCalls + 1 ELSE lateCalls
    BY <1>1 DEF HandleCall
  <2> QED BY <1>0, <2>1, <2>2 DEF LateInv
<1>2. CASE Respond
  BY <1>0, <1>2 DEF Respond, CanPoll, LateInv, history, clock
<1>6. CASE Deadline \/ Cancelled \/ ToolTimer
  <2>1. late => late'
    BY <1>6 DEF Deadline, Cancelled, ToolTimer
  <2> QED BY <1>0, <1>6, <2>1, ClocksOnly DEF LateInv
<1>7. CASE TimerFires
  BY <1>0, <1>7, TimerOnly DEF LateInv
<1>3. CASE ToolStep \/ UNCHANGED vars
  BY <1>0, <1>3, <1>6 DEF ToolStep, ToolCalls, ToolLogs, ToolSettles, vars, history, clock, LateInv
<1>4. CASE EvalReturns \/ EvalFails \/ LoopTop \/ HandleLog \/ HandleEnd \/ BatchDone \/ PollFails
  BY <1>0, <1>4 DEF EvalReturns, EvalFails, LoopTop, HandleLog, HandleEnd, BatchDone, PollFails, End,
     history, clock, LateInv
<1>5. CASE (\E more \in BOOLEAN : LoopOnce(more)) \/ LoopFails \/ IdlePoll \/ HostReturns
  BY <1>0, <1>5 DEF LoopOnce, LoopFails, IdlePoll, HostReturns, End, history, clock, LateInv
<1> QED
  BY <1>1, <1>2, <1>3, <1>4, <1>5, <1>6, <1>7 DEF Next, DriverStep

LEMMA AtStart == Init => AnswerInv /\ LateInv
<1> SUFFICES ASSUME Init PROVE AnswerInv /\ LateInv
  OBVIOUS
<1>1. TypeOK
  <2>1. 0 \in 0..(MaxIdle + 1) /\ 0 <= MaxIdle /\ 0 \in 0..MaxCalls /\ 0 \in 0..MaxLogs
    BY EngineAssumption
  <2>2. \A S : <<>> \in Seq(S)
    BY EmptySeq
  <2>3. tool \in ToolSet /\ tool.pending \subseteq 1..tool.calls
    BY <2>1 DEF Init, ToolSet
  <2> QED BY <2>1, <2>2, <2>3 DEF Init, TypeOK, ToolSet
<1>2. Left = <<>>
  BY ConcatEmptySeq, EmptySeq DEF Init, Left
<1>3. /\ executed = <<>> /\ logs = <<>> /\ pipe = <<>> /\ Len(<<>>) = 0 /\ tool.calls = 0 /\ tool.logs = 0
      /\ sentBefore.calls = 0 /\ sentBefore.logs = 0
  BY EmptySeq DEF Init
<1>4. \A k \in Kinds : Carries(<<>>, k, 0, 0, 0)
  BY <1>3 DEF Carries
<1>5. Carried
  BY <1>2, <1>3, <1>4 DEF Carried, Kinds
<1>6. FrameInv
  BY <1>1, <1>3, <1>5 DEF Init, FrameInv, Numbered, NothingBeforeResultIsLost
<1>7. AnswerInv
  BY <1>3, <1>6 DEF AnswerInv
<1>8. LateInv
  BY <1>1 DEF Init, LateInv
<1> QED
  BY <1>7, <1>8

\* However the frames are spread over batches: those handled and those left are
\* all that were written, and what waits in the pipe waits for a promise.
THEOREM EngineInductive == Spec => []AnswerInv
  BY AtStart, AnswerStep, PTL DEF Spec

\* Every variable of an invocation has its type.
THEOREM EngineTypeCorrect == Spec => []TypeOK
<1>1. AnswerInv => TypeOK
  BY DEF AnswerInv, FrameInv
<1> QED
  BY <1>1, EngineInductive, PTL

\* Host calls are executed once each, in the order the tool made them.
THEOREM CallsOnceInOrderCorrect == Spec => []CallsOnceInOrder
<1>1. AnswerInv => CallsOnceInOrder
  BY DEF AnswerInv, FrameInv, Numbered, CallsOnceInOrder
<1> QED
  BY <1>1, EngineInductive, PTL

\* A response settles the promise of a call that was executed, and only once.
THEOREM ResponsesAnswerCallsCorrect == Spec => []ResponsesAnswerCalls
<1>1. AnswerInv => ResponsesAnswerCalls
  <2> SUFFICES ASSUME AnswerInv PROVE ResponsesAnswerCalls
    OBVIOUS
  <2>1. Len(executed) \in Nat /\ Answered <= Len(executed) /\ Answered \in Int /\ tool.calls \in Nat
    BY Lengths, ToolTyped DEF Answered, AnswerInv, FrameInv
  <2> HIDE DEF Answered
  <2>2. \A id \in 1..tool.calls : id \notin tool.pending => id <= Len(executed)
    BY <2>1 DEF AnswerInv
  <2> QED BY <2>2 DEF AnswerInv, ResponsesAnswerCalls
<1> QED
  BY <1>1, EngineInductive, PTL

\* A result comes with everything the tool did before it, and nothing after.
THEOREM NothingLostCorrect == Spec => []NothingBeforeResultIsLost
<1>1. AnswerInv => NothingBeforeResultIsLost
  BY DEF AnswerInv, FrameInv
<1> QED
  BY <1>1, EngineInductive, PTL

\* At most one host call begins after the deadline.
THEOREM AtMostOneLateCallCorrect == Spec => []AtMostOneLateCall
<1>1. LateInv => AtMostOneLateCall
  BY DEF LateInv, AtMostOneLateCall
<1> QED
  BY <1>1, AtStart, LateStep, PTL DEF Spec

\* A tool is given up as stalled only when it has nothing to run and nothing is
\* on its way to it but a timer of its own, as long as what is on its way when the
\* driver enters the loop is read in fewer than maxIdleSpins spins.
THEOREM StalledIsStuckCorrect == Spec /\ []PipeFits => []StalledIsStuck
<1>1. Init => SpinInv
  BY AtStart DEF Init, SpinInv
<1>2. SpinInv => StalledIsStuck
  BY DEF SpinInv, StalledIsStuck
<1> QED
  BY <1>1, <1>2, SpinStep, PTL DEF Spec

\* It is read in fewer if all the calls' responses would be.
THEOREM ResponsesFitCorrect ==
  ASSUME ResponsesFit
  PROVE  Spec => []StalledIsStuck
<1>1. Init => AnswerInv /\ ReadBound
  <2> SUFFICES ASSUME Init PROVE AnswerInv /\ ReadBound
    OBVIOUS
  <2>1. Answered = 0 /\ MaxChunks - 1 \in Nat /\ pipe = <<>> /\ pc = "load"
    BY EmptySeq, EngineAssumption DEF Answered, Init
  <2>2. ReadBound
    BY <2>1 DEF ReadBound, ReadsLeft, ReadsIn
  <2> QED BY <2>2, AtStart
<1> QED
  BY <1>1, AnswerStep, ReadStep, ReadsBounded, StalledIsStuckCorrect, PTL DEF Spec
=============================================================================

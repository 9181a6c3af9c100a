------------------------ MODULE TcpSocketIntegrity ------------------------
(***************************************************************************)
(* What flows through a TcpSocket during the first connection of the       *)
(* object: no byte is lost, repeated or reordered in either direction and  *)
(* neither direction stalls, for all buffer sizes, numbers of io threads,  *)
(* errors and bounds.  A later connection of the same object gives no such *)
(* guarantee: completions of the earlier one may still be queued.          *)
(*                                                                         *)
(* Three parts: the flow of bytes; what SendHandler may erase; the course  *)
(* of one gracefully ended connection and what a step does to the streams  *)
(* the two applications see, on which TcpConnectionProofs rests.           *)
(***************************************************************************)
EXTENDS TcpSocketProofs, SequenceTheorems

USE DEF flags, sendSide, recvSide, wire, history

NoClear == "ClearBuffers" \notin Calls
NoReset == "Reset" \notin Calls

Numbers(n) == [i \in 1..n |-> i]

-----------------------------------------------------------------------------
(* The inductive invariant.                                                *)

FirstConnection == connects <= 1

\* Before the first connection there has been nothing but Send().
Unconnected ==
  connects = 0 =>
    /\ ~connected /\ ~requestShutdown /\ ~sending /\ ~receiving
    /\ sendOp = <<>> /\ ~recvOp /\ conn = "closed" /\ ~connectOp /\ ready = <<>>
    /\ recvBuf = <<>> /\ delivered = <<>> /\ ~finSent
    /\ taken = <<>> /\ consumed = 0 /\ ~finOut
    /\ accepted = 0 => sendBuf = <<>>

\* Until the connect handler runs, its completion is the only one, and what
\* Send() accepted waits in the buffer.
ConnectPending == connectOp \/ Queued(ready, "connect") # {}

Connecting ==
  connects = 1 /\ ConnectPending =>
    /\ ~connected /\ ~requestShutdown /\ ~sending /\ ~receiving
    /\ recvBuf = <<>> /\ delivered = <<>> /\ taken = <<>> /\ consumed = 0
    /\ conn = "est" => ~finOut
    /\ NoClear => sendBuf = Numbers(accepted)
    /\ IF connectOp THEN ready = <<>> ELSE Len(ready) = 1

\* The phases of a connection in which bytes flow.
Readable == FirstConnection /\ connected /\ conn \in {"est", "lost"}
Live == FirstConnection /\ connected /\ conn = "est"

\* Received bytes: read, waiting in receive_buffer, or with the one completion.
ReceiveFlow ==
  Readable =>
    /\ Queued(ready, "recv") = {} => delivered \o recvBuf = SubSeq(incoming, 1, consumed)
    /\ \A c \in Queued(ready, "recv") :
         /\ delivered \o recvBuf \o c.data = SubSeq(incoming, 1, consumed)
         /\ c.err # "ok" => c.data = <<>>

\* Receiving pauses at the limit or at the peer's FIN only.
ReceiveGoesOn ==
  Live =>
    /\ \A c \in Queued(ready, "recv") :
         /\ c.err \in {"ok", "eof"}
         /\ c.err = "eof" => finIn /\ consumed = Len(incoming)
    /\ ~finReceived /\ Len(recvBuf) < MaxBlockSize => receiving
    /\ NoReset /\ finReceived => finIn /\ consumed = Len(incoming) /\ ~receiving

\* Sent bytes: with the kernel, or in send_buffer beyond what the one
\* completion will erase; the operation sends a head of the buffer.
SendFlow ==
  Live /\ NoClear =>
    /\ Queued(ready, "send") = {} => taken \o sendBuf = Numbers(accepted)
    /\ \A c \in Queued(ready, "send") :
         /\ c.err = "ok" /\ Len(c.data) \in 1..Len(sendBuf)
         /\ taken \o SubSeq(sendBuf, Len(c.data) + 1, Len(sendBuf)) = Numbers(accepted)
    /\ sendOp # <<>> => /\ Len(sendOp) <= Len(sendBuf)
                        /\ sendOp = SubSeq(sendBuf, 1, Len(sendOp))
    /\ sending <=> sendBuf # <<>>
    /\ finOut => finSent
    /\ finSent <=> requestShutdown /\ sendBuf = <<>>

Flow == Unconnected /\ Connecting /\ ReceiveFlow /\ ReceiveGoesOn /\ SendFlow

-----------------------------------------------------------------------------
(* The completions of one operation.                                       *)

\* Queueing a completion adds it to those of its operation.
LEMMA QueuedAppend ==
  ASSUME NEW q \in Seq(Completions), NEW c \in Completions, NEW op
  PROVE  /\ c.op = op => Queued(Append(q, c), op) = Queued(q, op) \union {c}
         /\ c.op # op => Queued(Append(q, c), op) = Queued(q, op)
<1>1. Range(Append(q, c)) = Range(q) \union {c}
  <2>1. /\ DOMAIN Append(q, c) = 1..Len(q) + 1 /\ DOMAIN q = 1..Len(q)
        /\ \A i \in 1..Len(q) + 1 : Append(q, c)[i] = IF i <= Len(q) THEN q[i] ELSE c
    OBVIOUS
  <2>2. \A i \in 1..Len(q) : i \in 1..Len(q) + 1 /\ Append(q, c)[i] = q[i]
    BY <2>1
  <2>3. Len(q) + 1 \in 1..Len(q) + 1 /\ Append(q, c)[Len(q) + 1] = c
    BY <2>1
  <2>4. \A i \in 1..Len(q) + 1 : i \in 1..Len(q) \/ i = Len(q) + 1
    OBVIOUS
  <2> QED BY Zenon, <2>1, <2>2, <2>3, <2>4 DEF Range
<1> QED BY <1>1 DEF Queued

\* A completion that may be queued is no concern of the other operations.
LEMMA QueuedPost ==
  ASSUME NEW q \in Seq(Completions), NEW c \in Completions, NEW cond, NEW op, c.op # op
  PROVE  Queued(PostIf(cond, q, c), op) = Queued(q, op)
<1>1. CASE cond
  BY <1>1, QueuedAppend DEF PostIf
<1>2. CASE ~cond
  BY <1>2 DEF PostIf
<1> QED BY <1>1, <1>2

\* An operation has completions queued exactly if some index holds one.
LEMMA QueuedNone ==
  ASSUME NEW q, NEW op
  PROVE  NoneQueued(q, op) <=> Queued(q, op) = {}
BY DEF NoneQueued, Queued, Range

\* Running a completion leaves those of the other operations queued.
LEMMA QueuedRemove ==
  ASSUME NEW q \in Seq(Completions), NEW i \in 1..Len(q), NEW op, q[i].op # op
  PROVE  Queued(RemoveAt(q, i), op) = Queued(q, op)
<1> DEFINE r == RemoveAt(q, i)
<1>1. /\ r \in Seq(Completions) /\ Len(r) = Len(q) - 1
      /\ \A j \in 1..Len(q) - 1 : r[j] = q[IF j < i THEN j ELSE j + 1]
  BY RemoveAtFacts
<1> HIDE DEF r
<1>2. DOMAIN r = 1..Len(q) - 1 /\ DOMAIN q = 1..Len(q)
  BY <1>1
<1>3. ASSUME NEW j \in 1..Len(q) - 1 PROVE \E k \in 1..Len(q) : r[j] = q[k]
  BY <1>1
<1>4. ASSUME NEW k \in 1..Len(q), k # i PROVE \E j \in 1..Len(q) - 1 : r[j] = q[k]
  <2>1. CASE k < i
    BY <1>1, <2>1
  <2>2. CASE ~(k < i)
    <3>1. k - 1 \in 1..Len(q) - 1 /\ ~(k - 1 < i) /\ (k - 1) + 1 = k
      BY <1>4, <2>2
    <3> QED BY <1>1, <3>1
  <2> QED BY <2>1, <2>2
<1>5. \A k \in 1..Len(q) : q[k].op = op => k # i
  OBVIOUS
<1>6. Queued(r, op) \subseteq Queued(q, op)
  BY Zenon, <1>2, <1>3 DEF Queued, Range
<1>7. Queued(q, op) \subseteq Queued(r, op)
  <2> SUFFICES ASSUME NEW k \in 1..Len(q), q[k].op = op PROVE q[k] \in Queued(r, op)
    BY Zenon, <1>2 DEF Queued, Range
  <2>1. PICK j \in 1..Len(q) - 1 : r[j] = q[k]
    BY Zenon, <1>4, <1>5
  <2> QED BY Zenon, <1>2, <2>1 DEF Queued, Range
<1> QED BY Zenon, <1>6, <1>7 DEF r

\* The completion that runs is the only one of its operation.
LEMMA QueuedRun ==
  ASSUME NEW q \in Seq(Completions), NEW i \in 1..Len(q), OneQueued(q, q[i].op)
  PROVE  /\ Queued(q, q[i].op) = {q[i]}
         /\ Queued(RemoveAt(q, i), q[i].op) = {}
<1>1. \A j \in DOMAIN q : q[j].op = q[i].op => j = i
  BY DEF OneQueued
<1>2. i \in DOMAIN q
  OBVIOUS
<1>3. Queued(q, q[i].op) = {q[i]}
  BY Zenon, <1>1, <1>2 DEF Queued, Range
<1> QED BY <1>3, RemoveOwn, QueuedNone

\* A single completion is a set of one.
LEMMA QueuedOne ==
  ASSUME NEW q, NEW op, OneQueued(q, op)
  PROVE  \E c \in Range(q) : c.op = op /\ Queued(q, op) = {c}
BY DEF OneQueued, Queued, Range

\* Starting an operation queues something on a closed socket only.
LEMMA QueuedStarted ==
  ASSUME NEW q \in Seq(Completions), NEW op \in {"send", "recv"}, NEW go \in BOOLEAN
  PROVE  /\ conn # "closed" => Started(op, go, q) = q
         /\ \A other : other # op => Queued(Started(op, go, q), other) = Queued(q, other)
<1>1. conn # "closed" => Started(op, go, q) = q
  BY DEF Started, PostIf
<1>2. Completion(op, "other", <<>>) \in Completions
      /\ Completion(op, "other", <<>>).op = op
  BY ChunkFacts, CompletionType DEF Errors
<1>3. ASSUME NEW other, other # op
      PROVE  Queued(Started(op, go, q), other) = Queued(q, other)
  <2> DEFINE cond == go /\ conn = "closed"
             c == Completion(op, "other", <<>>)
  <2>1. cond \in BOOLEAN /\ c \in Completions /\ c.op # other
    BY <1>2, <1>3
  <2>2. Started(op, go, q) = PostIf(cond, q, c)
    BY DEF Started
  <2> HIDE DEF cond, c
  <2> QED BY <2>1, <2>2, QueuedPost
<1> QED BY <1>1, <1>3

\* Closing the socket queues a connect completion only for a connect that was
\* outstanding.
LEMMA QueuedAbortAll ==
  ASSUME NEW q \in Seq(Completions), connectOp \in BOOLEAN, recvOp \in BOOLEAN
  PROVE  /\ ~connectOp => Queued(AbortAll(q), "connect") = Queued(q, "connect")
         /\ sendOp = <<>> /\ ~recvOp /\ connectOp => Len(AbortAll(q)) = Len(q) + 1
         /\ sendOp = <<>> /\ ~recvOp /\ ~connectOp => AbortAll(q) = q
<1> DEFINE q1 == Abort("recv", recvOp, q)
           q2 == Abort("connect", connectOp, q1)
           q3 == Abort("send", sendOp # <<>>, q2)
           cr == Completion("recv", "aborted", <<>>)
           cs == Completion("send", "aborted", <<>>)
           cc == Completion("connect", "aborted", <<>>)
<1>0. AbortAll(q) = q3
  BY DEF AbortAll
<1>1. cr \in Completions /\ cr.op = "recv"
      /\ cs \in Completions /\ cs.op = "send"
  BY ChunkFacts, CompletionType DEF Errors
<1>2. /\ q1 = PostIf(recvOp, q, cr) /\ q1 \in Seq(Completions)
      /\ ~recvOp => q1 = q
  BY AbortFacts DEF Abort
<1>3. Queued(q1, "connect") = Queued(q, "connect")
  BY <1>1, <1>2, QueuedPost
<1> HIDE DEF q1
<1>4. /\ q2 \in Seq(Completions)
      /\ ~connectOp => q2 = q1
      /\ connectOp => q2 = Append(q1, cc)
  BY <1>2, AbortFacts DEF Abort, PostIf
<1> HIDE DEF q2
<1>5. q3 = IF sendOp # <<>> THEN Append(q2, cs) ELSE q2
  BY DEF Abort, PostIf
<1>6. Queued(q3, "connect") = Queued(q2, "connect")
  <2> HIDE DEF q3, cs
  <2>0. cs \in Completions /\ cs.op # "connect"
    BY <1>1
  <2>1. Queued(Append(q2, cs), "connect") = Queued(q2, "connect")
    BY <1>4, <2>0, QueuedAppend
  <2> QED BY <1>5, <2>1
<1> HIDE DEF q3, cs
<1>7. connectOp => Len(q2) = Len(q1) + 1
  BY <1>2, <1>4
<1>8. sendOp = <<>> => q3 = q2
  BY <1>5
<1>9. ~connectOp => Queued(AbortAll(q), "connect") = Queued(q, "connect")
  BY Zenon, <1>0, <1>3, <1>4, <1>6
<1>10. ~recvOp => q1 = q
  BY <1>2
<1>11. sendOp = <<>> /\ ~recvOp /\ connectOp => Len(AbortAll(q)) = Len(q) + 1
  BY Zenon, <1>0, <1>7, <1>8, <1>10
<1>12. sendOp = <<>> /\ ~recvOp /\ ~connectOp => AbortAll(q) = q
  BY Zenon, <1>0, <1>4, <1>8, <1>10
<1> QED BY <1>9, <1>11, <1>12

-----------------------------------------------------------------------------
(* Heads and tails of buffers.                                             *)

\* A buffer is its first k bytes and the rest.
LEMMA SplitBuffer ==
  ASSUME NEW s \in Seq(Nat), NEW k \in 0..Len(s)
  PROVE  /\ SubSeq(s, 1, k) \in Seq(Nat) /\ Len(SubSeq(s, 1, k)) = k
         /\ SubSeq(s, k + 1, Len(s)) \in Seq(Nat)
         /\ Len(SubSeq(s, k + 1, Len(s))) = Len(s) - k
         /\ SubSeq(s, 1, k) \o SubSeq(s, k + 1, Len(s)) = s
<1>1. /\ SubSeq(s, 1, k) \in Seq(Nat) /\ Len(SubSeq(s, 1, k)) = k
      /\ \A i \in 1..k : SubSeq(s, 1, k)[i] = s[i]
  OBVIOUS
<1>2. /\ SubSeq(s, k + 1, Len(s)) \in Seq(Nat)
      /\ Len(SubSeq(s, k + 1, Len(s))) = Len(s) - k
      /\ \A i \in 1..(Len(s) - k) : SubSeq(s, k + 1, Len(s))[i] = s[k + i]
  OBVIOUS
<1> DEFINE t == SubSeq(s, 1, k) \o SubSeq(s, k + 1, Len(s))
<1> HIDE DEF t
<1>3. t \in Seq(Nat) /\ Len(t) = Len(s) /\ \A i \in 1..Len(t) : t[i] = s[i]
  <2> DEFINE a == SubSeq(s, 1, k)
             b == SubSeq(s, k + 1, Len(s))
  <2>0. /\ a \in Seq(Nat) /\ Len(a) = k
        /\ b \in Seq(Nat) /\ Len(b) = Len(s) - k
    BY <1>1, <1>2
  <2> HIDE DEF a, b
  <2>a. Len(a) + Len(b) = Len(s)
    BY <2>0
  <2>c. \A x, y \in Seq(Nat) :
         /\ x \o y \in Seq(Nat) /\ Len(x \o y) = Len(x) + Len(y)
         /\ \A i \in 1..(Len(x) + Len(y)) :
              (x \o y)[i] = IF i <= Len(x) THEN x[i] ELSE y[i - Len(x)]
    BY ConcatProperties
  <2>1. /\ a \o b \in Seq(Nat) /\ Len(a \o b) = Len(s)
        /\ \A i \in 1..Len(s) : (a \o b)[i] = IF i <= k THEN a[i] ELSE b[i - k]
    BY <2>0, <2>a, <2>c, Zenon
  <2>2. ASSUME NEW i \in 1..Len(s) PROVE (a \o b)[i] = s[i]
    <3>1. CASE i <= k
      <4>1. i \in 1..k
        BY <3>1
      <4> QED BY <1>1, <2>1, <3>1, <4>1 DEF a
    <3>2. CASE ~(i <= k)
      <4>1. i - k \in 1..(Len(s) - k) /\ k + (i - k) = i
        BY <3>2
      <4> QED BY <1>2, <2>1, <3>2, <4>1 DEF b
    <3> QED BY <3>1, <3>2
  <2> QED BY <2>1, <2>2 DEF a, b, t
<1>4. t = s
  BY <1>3, SeqEqual
<1> QED BY <1>1, <1>2, <1>4 DEF t

\* What is appended leaves the first k bytes alone and follows the rest.
LEMMA ExtendBuffer ==
  ASSUME NEW s \in Seq(Nat), NEW t \in Seq(Nat), NEW k \in 0..Len(s)
  PROVE  /\ SubSeq(s \o t, 1, k) = SubSeq(s, 1, k)
         /\ SubSeq(s \o t, k + 1, Len(s \o t)) = SubSeq(s, k + 1, Len(s)) \o t
<1> DEFINE u == s \o t
<1>1. /\ u \in Seq(Nat) /\ Len(u) = Len(s) + Len(t)
      /\ \A i \in 1..Len(s) : u[i] = s[i]
      /\ \A i \in 1..Len(t) : u[Len(s) + i] = t[i]
  BY ConcatProperties
<1>2. \A i \in Len(s) + 1 .. Len(s) + Len(t) : u[i] = t[i - Len(s)]
  BY ConcatProperties
<1> HIDE DEF u
<1>3. SubSeq(u, 1, k) = SubSeq(s, 1, k)
  <2> DEFINE a == SubSeq(u, 1, k)
             b == SubSeq(s, 1, k)
  <2>1. a \in Seq(Nat) /\ Len(a) = k /\ \A i \in 1..k : a[i] = u[i]
    BY <1>1
  <2>2. b \in Seq(Nat) /\ Len(b) = k /\ \A i \in 1..k : b[i] = s[i]
    OBVIOUS
  <2> HIDE DEF a, b
  <2>3. ASSUME NEW i \in 1..k PROVE a[i] = b[i]
    <3>1. i \in 1..Len(s)
      OBVIOUS
    <3>2. i \in 1..Len(u) /\ u[i] = s[i]
      BY <1>1, <3>1
    <3> QED BY <2>1, <2>2, <3>2, Zenon
  <2>4. a = b
    BY <2>1, <2>2, <2>3, SeqEqual
  <2> QED BY <2>4 DEF a, b
<1>4. SubSeq(u, k + 1, Len(u)) = SubSeq(s, k + 1, Len(s)) \o t
  <2> DEFINE a == SubSeq(u, k + 1, Len(u))
             r == SubSeq(s, k + 1, Len(s))
             n == Len(s) - k
  <2>1. a \in Seq(Nat) /\ Len(a) = Len(u) - k
        /\ \A i \in 1..(Len(u) - k) : a[i] = u[k + i]
    <3>1. /\ k + 1 \in Int /\ Len(u) \in Int /\ k <= Len(u)
          /\ \A i \in k + 1 .. Len(u) : u[i] \in Nat
      BY <1>1
    <3> HIDE DEF u
    <3>2. /\ a \in Seq(Nat)
          /\ Len(a) = IF k + 1 <= Len(u) THEN Len(u) - (k + 1) + 1 ELSE 0
          /\ \A i \in 1 .. Len(u) - (k + 1) + 1 : a[i] = u[(k + 1) + i - 1]
      BY <3>1, SubSeqProperties
    <3>3. /\ Len(u) - (k + 1) + 1 = Len(u) - k
          /\ ~ (k + 1 <= Len(u)) => Len(u) - k = 0
          /\ \A i \in 1 .. Len(u) - k : (k + 1) + i - 1 = k + i
      <4>1. \A l, j \in Int : j <= l =>
              /\ l - (j + 1) + 1 = l - j
              /\ ~ (j + 1 <= l) => l - j = 0
              /\ \A i \in 1 .. l - j : (j + 1) + i - 1 = j + i
        BY SMT
      <4>2. k \in Int
        OBVIOUS
      <4> QED BY <3>1, <4>1, <4>2, Zenon
    <3> HIDE DEF a
    <3> QED BY <3>2, <3>3, Zenon
  <2>2. r \in Seq(Nat) /\ Len(r) = n /\ \A i \in 1..n : r[i] = s[k + i]
    OBVIOUS
  <2>a. n \in Nat
    OBVIOUS
  <2> HIDE DEF a, r, n
  <2>c. \A x, y \in Seq(Nat) :
         /\ x \o y \in Seq(Nat) /\ Len(x \o y) = Len(x) + Len(y)
         /\ \A i \in 1..(Len(x) + Len(y)) :
              (x \o y)[i] = IF i <= Len(x) THEN x[i] ELSE y[i - Len(x)]
    BY ConcatProperties
  <2>3. /\ r \o t \in Seq(Nat) /\ Len(r \o t) = n + Len(t)
        /\ \A i \in 1..(n + Len(t)) : (r \o t)[i] = IF i <= n THEN r[i] ELSE t[i - n]
    <3>1. r \in Seq(Nat) /\ Len(r) = n
      BY <2>2
    <3> QED BY <2>c, <3>1, Zenon
  <2>4. ASSUME NEW i \in 1..Len(a) PROVE a[i] = (r \o t)[i]
    <3>1. i \in 1..(n + Len(t)) /\ a[i] = u[k + i]
      BY <1>1, <2>1 DEF n
    <3>2. CASE i <= n
      <4>1. i \in 1..n /\ k + i \in 1..Len(s)
        BY <3>2 DEF n
      <4> QED BY <1>1, <2>2, <2>3, <3>1, <3>2, <4>1
    <3>3. CASE ~(i <= n)
      <4>1. /\ k + i \in Len(s) + 1 .. Len(s) + Len(t)
            /\ (k + i) - Len(s) = i - n
        BY <3>1, <3>3 DEF n
      <4> QED BY <1>2, <2>3, <3>1, <3>3, <4>1
    <3> QED BY <3>2, <3>3
  <2>5. Len(a) = Len(r \o t)
    BY <1>1, <2>1, <2>3 DEF n
  <2>6. a = r \o t
    BY <2>1, <2>3, <2>4, <2>5, SeqEqual
  <2> QED BY <2>6 DEF a, r
<1> QED BY <1>3, <1>4 DEF u

\* Buffers joined in either order are the same stream.
LEMMA JoinBuffers ==
  ASSUME NEW s \in Seq(Nat), NEW t \in Seq(Nat), NEW u \in Seq(Nat)
  PROVE  /\ s \o t \in Seq(Nat) /\ Len(s \o t) = Len(s) + Len(t)
         /\ (s \o t) \o u = s \o (t \o u)
<1>1. (s \o t) \o u = s \o (t \o u)
  BY ConcatAssociative, SMTT(60)
<1>2. s \o t \in Seq(Nat) /\ Len(s \o t) = Len(s) + Len(t)
  BY Zenon, ConcatProperties
<1> QED BY <1>1, <1>2, Zenon

\* Send() numbers its bytes on from those accepted before.
LEMMA NumbersExtend ==
  ASSUME NEW a \in Nat, NEW n \in Nat
  PROVE  /\ Numbers(a) \in Seq(Nat) /\ Len(Numbers(a)) = a
         /\ [i \in 1..n |-> a + i] \in Seq(Nat) /\ Len([i \in 1..n |-> a + i]) = n
         /\ Numbers(a) \o [i \in 1..n |-> a + i] = Numbers(a + n)
<1> DEFINE s == Numbers(a)
           t == [i \in 1..n |-> a + i]
           w == Numbers(a + n)
<1>1. s \in Seq(Nat) /\ Len(s) = a /\ \A i \in 1..a : s[i] = i
  BY DEF Numbers
<1>2. t \in Seq(Nat) /\ Len(t) = n /\ \A i \in 1..n : t[i] = a + i
  OBVIOUS
<1>3. w \in Seq(Nat) /\ Len(w) = a + n /\ \A i \in 1..(a + n) : w[i] = i
  BY DEF Numbers
<1> HIDE DEF s, t, w
<1>4. s \o t \in Seq(Nat) /\ Len(s \o t) = a + n
      /\ \A i \in 1..(a + n) : (s \o t)[i] = IF i <= a THEN s[i] ELSE t[i - a]
  BY <1>1, <1>2, ConcatProperties
<1>5. ASSUME NEW i \in 1..(a + n) PROVE (s \o t)[i] = w[i]
  <2>1. CASE i <= a
    BY <1>1, <1>3, <1>4, <2>1
  <2>2. CASE ~(i <= a)
    <3>1. i - a \in 1..n /\ a + (i - a) = i
      BY <2>2
    <3> QED BY <1>2, <1>3, <1>4, <2>2, <3>1
  <2> QED BY <2>1, <2>2
<1>6. s \o t = w
  BY <1>3, <1>4, <1>5, SeqEqual
<1> QED BY <1>1, <1>2, <1>6 DEF s, t, w

\* What the kernel hands over next follows what it handed over before.
LEMMA ContinueStream ==
  ASSUME NEW s \in Seq(Nat), NEW k \in 0..Len(s), NEW n \in Nat, k + n <= Len(s)
  PROVE  /\ SubSeq(s, k + 1, k + n) \in Seq(Nat)
         /\ SubSeq(s, 1, k) \o SubSeq(s, k + 1, k + n) = SubSeq(s, 1, k + n)
<1> DEFINE a == SubSeq(s, 1, k)
           b == SubSeq(s, k + 1, k + n)
           c == SubSeq(s, 1, k + n)
<1>1. a \in Seq(Nat) /\ Len(a) = k /\ \A i \in 1..k : a[i] = s[i]
  OBVIOUS
<1>2. b \in Seq(Nat) /\ Len(b) = n /\ \A i \in 1..n : b[i] = s[k + i]
  OBVIOUS
<1>3. c \in Seq(Nat) /\ Len(c) = k + n /\ \A i \in 1..(k + n) : c[i] = s[i]
  OBVIOUS
<1> HIDE DEF a, b, c
<1>4. a \o b \in Seq(Nat) /\ Len(a \o b) = k + n
      /\ \A i \in 1..(k + n) : (a \o b)[i] = IF i <= k THEN a[i] ELSE b[i - k]
  BY <1>1, <1>2, ConcatProperties
<1>5. ASSUME NEW i \in 1..(k + n) PROVE (a \o b)[i] = c[i]
  <2>1. CASE i <= k
    <3>1. i \in 1..k
      BY <2>1
    <3> QED BY <1>1, <1>3, <1>4, <2>1, <3>1
  <2>2. CASE ~(i <= k)
    <3>1. i - k \in 1..n /\ k + (i - k) = i
      BY <2>2
    <3> QED BY <1>2, <1>3, <1>4, <2>2, <3>1
  <2> QED BY <2>1, <2>2
<1>6. a \o b = c
  BY <1>3, <1>4, <1>5, SeqEqual
<1> QED BY <1>2, <1>6 DEF a, b, c

-----------------------------------------------------------------------------
(* What a step need not disturb.                                           *)

\* While an operation is under way, or the socket connected, no connect is
\* pending: the phases of a first connection follow each other.
LEMMA Phases ==
  ASSUME Inv, Flow, FirstConnection, sending \/ receiving \/ connected
  PROVE  connects = 1 /\ ~connectOp /\ Queued(ready, "connect") = {}
<1>1. connects \in {0, 1}
  BY DEF Inv, TypeOK, HistoryType, FirstConnection
<1>2. connects # 0
  BY Zenon DEF Flow, Unconnected
<1>3. connects = 1 /\ ~ConnectPending
  BY Zenon, <1>1, <1>2 DEF Flow, Connecting
<1> QED BY Zenon, <1>3 DEF ConnectPending

\* Nothing that the receive side speaks of has changed.
LEMMA SameReceive ==
  ASSUME Flow, UNCHANGED <<delivered, recvBuf, incoming, consumed, finIn, receiving>>,
         Queued(ready, "recv")' = Queued(ready, "recv"),
         Readable' => Readable, Live' => Live /\ finReceived' = finReceived
  PROVE  ReceiveFlow' /\ ReceiveGoesOn'
<1>1. ReceiveFlow'
  BY Zenon DEF Flow, ReceiveFlow
<1>2. ReceiveGoesOn'
  BY Zenon DEF Flow, ReceiveGoesOn
<1> QED BY <1>1, <1>2

\* Nothing that the send side speaks of has changed.
LEMMA SameSend ==
  ASSUME Flow, Queued(ready, "send")' = Queued(ready, "send"),
         Live' => /\ Live
                  /\ UNCHANGED <<taken, sendBuf, accepted, sendOp, sending, finOut,
                                 finSent, requestShutdown>>
  PROVE  SendFlow'
BY Zenon DEF Flow, SendFlow

\* A socket that is not connected, or whose connection is closed, promises
\* nothing.
LEMMA NothingFlows ==
  ASSUME ~Readable'
  PROVE  ReceiveFlow' /\ ReceiveGoesOn' /\ SendFlow'
<1>1. ~Live'
  BY DEF Readable, Live
<1> QED BY <1>1 DEF ReceiveFlow, ReceiveGoesOn, SendFlow

\* A socket that has been connected again promises nothing.
LEMMA ConnectedAgain ==
  ASSUME connects' \in Nat, connects' > 1
  PROVE  Flow'
<1>1. ~Readable' /\ connects' # 0 /\ connects' # 1
  BY DEF Readable, FirstConnection
<1> QED BY <1>1, NothingFlows DEF Flow, Unconnected, Connecting

\* Nothing that the phases speak of has changed.
LEMMA SamePhase ==
  ASSUME Flow,
         UNCHANGED <<connects, sending, receiving, sendOp, recvOp, conn, connectOp, ready,
                     recvBuf, delivered, taken, consumed, finOut, sendBuf, accepted>>,
         connects = 0 => UNCHANGED <<connected, requestShutdown, finSent>>,
         ~connected => ~connected' /\ requestShutdown' = requestShutdown
  PROVE  Unconnected' /\ Connecting'
<1>1. Unconnected'
  BY Zenon DEF Flow, Unconnected
<1>2. ConnectPending' = ConnectPending
  BY Zenon DEF ConnectPending
<1>3. Connecting'
  BY Zenon, <1>2 DEF Flow, Connecting
<1> QED BY <1>1, <1>3

\* While no connect is pending and none is queued there is no more to say of it.
LEMMA NonePending ==
  ASSUME Flow, connects' = connects, connects # 0, ~ConnectPending'
  PROVE  Unconnected' /\ Connecting'
BY Zenon DEF Unconnected, Connecting

-----------------------------------------------------------------------------
(* The calls.                                                              *)

\* A new socket has nothing to lose.
LEMMA InitFlow == Init => Flow
<1> SUFFICES ASSUME Init PROVE Flow
  OBVIOUS
<1>1. Unconnected
  BY Zenon DEF Init, Unconnected
<1>2. connects # 1 /\ ~connected
  BY DEF Init
<1> QED BY Zenon, <1>1, <1>2
    DEF Flow, Connecting, ReceiveFlow, ReceiveGoesOn, SendFlow, Readable, Live

\* Reset() makes finReceived useless as a sign of the peer's FIN.
LEMMA ResetFlow == ASSUME Inv, Flow, Reset PROVE Flow'
<1>1. Unconnected' /\ Connecting'
  BY Zenon, SamePhase DEF Reset
<1>2. SendFlow'
  BY Zenon, SameSend DEF Reset, Live, FirstConnection
<1>3. ReceiveFlow'
  BY Zenon DEF Flow, ReceiveFlow, Readable, FirstConnection, Reset
<1>4. ReceiveGoesOn'
  BY Zenon DEF Flow, ReceiveGoesOn, Live, FirstConnection, Reset, NoReset
<1> QED BY <1>1, <1>2, <1>3, <1>4 DEF Flow

\* Shutdown() sends the FIN at once only when nothing is queued.
LEMMA ShutdownFlow == ASSUME Inv, Flow, Shutdown PROVE Flow'
<1>1. UNCHANGED <<sendSide, recvSide, conn, connectOp, ready, taken, incoming,
                  finIn, consumed, peerConsumed, history>>
  BY DEF Shutdown
<1>2. CASE conn = "closed"
  <2>1. connected' = FALSE /\ UNCHANGED <<requestShutdown, finSent, finReceived, finOut>>
    BY Zenon, <1>2 DEF Shutdown
  <2>2. Unconnected' /\ Connecting'
    <3>1. connects = 0 => UNCHANGED <<connected, requestShutdown, finSent>>
      BY ZenonT(20), <1>1, <2>1 DEF Flow, Unconnected, Inv, TypeOK, FlagsType
    <3> QED BY Zenon, <1>1, <2>1, <3>1, SamePhase
  <2>3. ~Readable'
    BY <2>1 DEF Readable
  <2> QED BY <2>2, <2>3, NothingFlows DEF Flow
<1>3. CASE conn # "closed"
  <2>1. /\ connected /\ ~finSent /\ requestShutdown' = TRUE /\ UNCHANGED connected
        /\ \/ sendBuf # <<>> /\ UNCHANGED <<finSent, finReceived, finOut>>
           \/ /\ sendBuf = <<>>
              /\ \E result \in ShutdownResults :
                   /\ finSent' = (result # "other")
                   /\ finReceived' = (finReceived \/ result = "reset")
                   /\ finOut' = (finOut \/ conn = "est")
    BY Zenon, <1>3 DEF Shutdown, Flushed
  <2>2. FirstConnection => connects # 0 /\ ~ConnectPending
    <3>1. FirstConnection => connects = 1 /\ ~connectOp /\ Queued(ready, "connect") = {}
      BY Zenon, <2>1, Phases
    <3> QED BY <3>1 DEF ConnectPending
  <2>3. Unconnected' /\ Connecting'
    <3>1. connects \in Nat /\ connects' = connects
      BY <1>1 DEF Inv, TypeOK, HistoryType
    <3>2. connects \in {0, 1} => connects # 0 /\ ~ConnectPending'
      <4>1. ConnectPending' = ConnectPending
        BY Zenon, <1>1 DEF ConnectPending
      <4> QED BY <2>2, <3>1, <4>1 DEF FirstConnection
    <3> QED BY Zenon, <3>1, <3>2 DEF Unconnected, Connecting
  <2>4. ASSUME conn = "est", sendBuf = <<>>
        PROVE  finSent' = TRUE /\ finOut' = TRUE /\ finReceived' = finReceived
    <3>1. PICK result \in ShutdownResults :
            /\ finSent' = (result # "other")
            /\ finReceived' = (finReceived \/ result = "reset")
            /\ finOut' = (finOut \/ conn = "est")
      BY Zenon, <2>1, <2>4
    <3>2. result = "ok"
      BY <2>4 DEF ShutdownResults
    <3>3. finReceived \in BOOLEAN /\ finOut \in BOOLEAN
      BY Zenon DEF Inv, TypeOK, FlagsType
    <3>4. result # "other" /\ result # "reset"
      BY <3>2
    <3>5. finReceived' = (finReceived \/ FALSE)
      BY Zenon, <3>1, <3>4
    <3> QED BY Zenon, <2>4, <3>1, <3>3, <3>4, <3>5
  <2>5. Readable' = Readable /\ Live' = Live
    BY Zenon, <1>1, <2>1 DEF Readable, Live, FirstConnection
  <2>6. ReceiveFlow' /\ ReceiveGoesOn'
    <3>1. Live => finReceived' = finReceived
      BY Zenon, <2>1, <2>4 DEF Live
    <3> QED BY Zenon, <1>1, <2>5, <3>1, SameReceive
  <2>7. SendFlow'
    <3> SUFFICES ASSUME Live, NoClear PROVE SendFlow'
      BY Zenon, <2>5 DEF SendFlow
    <3>1. conn = "est"
      BY DEF Live
    <3>2. finOut' => finSent'
      BY Zenon, <2>1, <2>4, <3>1 DEF Flow, SendFlow
    <3>3. finSent' <=> requestShutdown' /\ sendBuf' = <<>>
      <4>1. sendBuf' = sendBuf
        BY <1>1
      <4>2. CASE sendBuf = <<>>
        BY Zenon, <2>1, <2>4, <3>1, <4>1, <4>2
      <4>3. CASE sendBuf # <<>>
        <5>1. ~finSent /\ finSent' = finSent /\ sendBuf' # <<>>
          BY Zenon, <2>1, <4>1, <4>3
        <5> QED BY <5>1
      <4> QED BY <4>2, <4>3
    <3> QED BY Zenon, <1>1, <3>2, <3>3 DEF Flow, SendFlow
  <2> QED BY <2>3, <2>6, <2>7 DEF Flow
<1> QED BY <1>2, <1>3

\* Closing the asio socket ends the connection; it queues the completion of a
\* connect only if that was outstanding.
LEMMA ClosedFlow ==
  ASSUME Inv, Flow, NEW queue \in Seq(Completions), CloseAsioSocket(queue),
         connects' = connects, connects # 0,
         ~connectOp, Queued(queue, "connect") = {}
  PROVE  Flow'
<1>1. /\ connected' = FALSE /\ connectOp' = FALSE /\ ready' = AbortAll(queue)
  BY Zenon DEF CloseAsioSocket
<1>2. Queued(ready', "connect") = {}
  <2>1. connectOp \in BOOLEAN /\ recvOp \in BOOLEAN
    BY Zenon DEF Inv, TypeOK, FlagsType
  <2>2. Queued(AbortAll(queue), "connect") = Queued(queue, "connect")
    BY <2>1, QueuedAbortAll
  <2> QED BY <1>1, <2>2
<1>3. ~ConnectPending'
  BY Zenon, <1>1, <1>2 DEF ConnectPending
<1>4. ~Readable'
  BY Zenon, <1>1 DEF Readable
<1> QED BY Zenon, <1>3, <1>4, NonePending, NothingFlows DEF Flow

\* Close() while the connect is pending leaves one completion for its handler.
LEMMA CloseFlow == ASSUME Inv, Flow, Close PROVE Flow'
<1>1. UNCHANGED <<requestShutdown, sending, sendBuf, receiving, recvBuf, taken,
                  incoming, finIn, consumed, peerConsumed, history>>
  BY Zenon DEF Close
<1>2. ready \in Seq(Completions) /\ connects \in Nat /\ connects' = connects
      /\ connectOp \in BOOLEAN /\ recvOp \in BOOLEAN
  BY <1>1 DEF Inv, TypeOK, ReadyType, HistoryType, FlagsType
<1>3. CASE conn = "closed"
  <2>1. /\ connected' = FALSE
        /\ UNCHANGED <<finSent, finReceived, conn, connectOp, sendOp, recvOp, finOut, ready>>
    BY Zenon, <1>3 DEF Close
  <2>2. connects = 0 => UNCHANGED <<connected, requestShutdown, finSent>>
    BY ZenonT(20), <1>1, <2>1 DEF Flow, Unconnected, Inv, TypeOK, FlagsType
  <2>3. Unconnected' /\ Connecting'
    BY Zenon, <1>1, <2>1, <2>2, SamePhase
  <2>4. ~Readable'
    BY Zenon, <2>1 DEF Readable
  <2> QED BY <2>3, <2>4, NothingFlows DEF Flow
<1>4. CASE conn # "closed"
  <2>1. CloseAsioSocket(ready)
    BY Zenon, <1>4 DEF Close
  <2>2. /\ connected' = FALSE /\ conn' = "closed" /\ connectOp' = FALSE
        /\ ready' = AbortAll(ready)
    BY Zenon, <2>1 DEF CloseAsioSocket
  <2>3. connects # 0
    BY Zenon, <1>4 DEF Flow, Unconnected
  <2>4. CASE ~ConnectPending
    BY Zenon, <1>2, <2>1, <2>3, <2>4, ClosedFlow DEF ConnectPending
  <2>5. CASE ConnectPending
    <3>1. ~Readable'
      BY Zenon, <2>2 DEF Readable
    <3>2. ASSUME connects = 1 PROVE Len(ready') = 1
      <4>1. /\ ~sending /\ ~receiving
            /\ IF connectOp THEN ready = <<>> ELSE Len(ready) = 1
        BY Zenon, <2>5, <3>2 DEF Flow, Connecting
      <4>2. sendOp = <<>> /\ ~recvOp
        BY Zenon, <4>1 DEF Inv, OneSendInFlight, OneReceiveInFlight, Owned
      <4>3. CASE connectOp
        <5>1. Len(ready) = 0
          BY <4>1, <4>3
        <5>2. Len(AbortAll(ready)) = Len(ready) + 1
          BY <1>2, <4>2, <4>3, QueuedAbortAll
        <5> QED BY <2>2, <5>1, <5>2
      <4>4. CASE ~connectOp
        <5>1. AbortAll(ready) = ready
          BY <1>2, <4>2, <4>4, QueuedAbortAll
        <5> QED BY <2>2, <4>1, <4>4, <5>1
      <4> QED BY <4>3, <4>4
    <3>3. Connecting'
      <4>1. connects = 1 =>
              /\ ~requestShutdown /\ ~sending /\ ~receiving
              /\ recvBuf = <<>> /\ delivered = <<>> /\ taken = <<>> /\ consumed = 0
              /\ NoClear => sendBuf = Numbers(accepted)
        BY Zenon, <2>5 DEF Flow, Connecting
      <4>2. conn' # "est"
        BY <2>2
      <4> QED BY Zenon, <1>1, <2>2, <3>2, <4>1, <4>2 DEF Connecting
    <3>4. Unconnected'
      BY Zenon, <1>2, <2>3 DEF Unconnected
    <3> QED BY <3>1, <3>3, <3>4, NothingFlows DEF Flow
  <2> QED BY <2>4, <2>5
<1> QED BY <1>3, <1>4

\* The first Connect() finds nothing pending; a later one is not spoken of.
LEMMA ConnectFlow == ASSUME Inv, Flow, Connect PROVE Flow'
<1>1. connects \in Nat /\ connects' = connects + 1
  BY DEF Connect, Inv, TypeOK, HistoryType
<1>2. CASE connects # 0
  BY <1>1, <1>2, ConnectedAgain
<1>3. CASE connects = 0
  <2>1. /\ ~connected /\ ~requestShutdown /\ ~sending /\ ~receiving
        /\ conn = "closed" /\ ready = <<>>
        /\ taken = <<>> /\ consumed = 0
    BY Zenon, <1>3 DEF Flow, Unconnected
  <2>2. /\ UNCHANGED <<flags, sending, sendOp, receiving, recvOp, wire>>
        /\ sendBuf' = <<>> /\ recvBuf' = <<>> /\ accepted' = 0 /\ delivered' = <<>>
    BY Zenon DEF Connect
  <2>3. conn' = "connecting" /\ connectOp' = TRUE /\ UNCHANGED ready
    BY Zenon, <2>1 DEF Connect
  <2>4. ~Readable'
    BY <2>1, <2>2 DEF Readable
  <2>5. <<>> = Numbers(0)
    BY DEF Numbers
  <2>6. Connecting'
    <3>1. conn' # "est"
      BY <2>3
    <3> QED BY Zenon, <2>1, <2>2, <2>3, <2>5, <3>1 DEF Connecting
  <2>7. Unconnected'
    BY <1>1, <1>3 DEF Unconnected
  <2> QED BY <2>4, <2>6, <2>7, NothingFlows DEF Flow
<1> QED BY <1>2, <1>3

\* An accepted connection starts with nothing sent and nothing received.
LEMMA SetInternalSocketFlow == ASSUME Inv, Flow, SetInternalSocket PROVE Flow'
<1>1. connects = 0 /\ connects' = 1 /\ accepted = 0
  BY DEF SetInternalSocket
<1>2. /\ ~requestShutdown /\ ~sending /\ sendOp = <<>> /\ ~connectOp /\ ready = <<>>
      /\ recvBuf = <<>> /\ delivered = <<>> /\ taken = <<>>
      /\ consumed = 0 /\ ~finOut /\ ~finSent /\ sendBuf = <<>>
  BY Zenon, <1>1 DEF Flow, Unconnected
<1>3. /\ finSent' = FALSE /\ finReceived' = FALSE /\ receiving' = TRUE
      /\ UNCHANGED <<recvBuf, sendSide, connectOp, ready, wire, accepted, delivered>>
      /\ requestShutdown' = FALSE
  BY DEF SetInternalSocket
<1>4. \A op : Queued(ready', op) = {}
  BY <1>2, <1>3 DEF Queued, Range
<1>5. Unconnected' /\ Connecting'
  <2>1. ~ConnectPending'
    BY <1>2, <1>3, <1>4 DEF ConnectPending
  <2> QED BY <1>1, <2>1 DEF Unconnected, Connecting
<1>6. ReceiveFlow'
  <2>1. <<>> \o <<>> = SubSeq(incoming, 1, 0)
    BY DEF Inv, TypeOK, WireType
  <2> QED BY <1>2, <1>3, <1>4, <2>1 DEF ReceiveFlow
<1>7. ReceiveGoesOn'
  BY Zenon, <1>3, <1>4 DEF ReceiveGoesOn
<1>8. SendFlow'
  <2>1. <<>> \o <<>> = Numbers(0)
    BY DEF Numbers
  <2>2. taken' \o sendBuf' = Numbers(accepted')
    BY Zenon, <1>1, <1>2, <1>3, <2>1
  <2> QED BY Zenon, <1>2, <1>3, <1>4, <2>2 DEF SendFlow
<1> QED BY <1>5, <1>6, <1>7, <1>8 DEF Flow

\* Where BeginSend puts the head of the buffer while the connection lives.
LEMMA BeginSendHead ==
  ASSUME NEW buf \in Seq(Nat), NEW go \in BOOLEAN, BeginSend(buf, go)
  PROVE  /\ sendBuf' = buf /\ sending' = go
         /\ sendOp' # <<>> => /\ go /\ Len(sendOp') <= Len(buf)
                             /\ sendOp' = SubSeq(buf, 1, Len(sendOp'))
<1>1. sendBuf' = buf /\ sending' = go
  BY DEF BeginSend
<1>2. sendOp' # <<>> => go /\ sendOp' = Prefix(buf, ChunkSize)
  BY DEF BeginSend
<1> DEFINE k == Smaller(ChunkSize, Len(buf))
<1>3. k \in 0..Len(buf)
  BY SizesAssumption DEF Smaller
<1>4. Prefix(buf, ChunkSize) = SubSeq(buf, 1, k)
  BY DEF Prefix
<1> HIDE DEF k
<1>5. Len(SubSeq(buf, 1, k)) = k
  BY <1>3, SplitBuffer
<1> QED BY <1>1, <1>2, <1>3, <1>4, <1>5

\* Send() appends the next numbers; while it lives, a connection that had
\* nothing queued starts to send them, and one that had goes on.
LEMMA SendFlows == ASSUME Inv, Flow, NEW n \in 1..MaxBytes, Send(n) PROVE Flow'
<1> DEFINE more == [i \in 1..n |-> accepted + i]
           buf  == sendBuf \o more
           go   == Flushed /\ SendIdle /\ CanSend(buf, connected, finSent)
<1>1. /\ n \in Nat /\ n > 0 /\ sendBuf \in Seq(Nat) /\ taken \in Seq(Nat)
      /\ accepted \in Nat /\ connects \in Nat /\ ready \in Seq(Completions)
      /\ sendOp \in Seq(Nat)
  BY SizesAssumption, ChunkFacts
     DEF Inv, TypeOK, BuffersType, HistoryType, WireType, ReadyType
<1>2. /\ more \in Seq(Nat) /\ Len(more) = n
      /\ Numbers(accepted) \in Seq(Nat)
      /\ Numbers(accepted) \o more = Numbers(accepted + n)
  BY <1>1, NumbersExtend
<1>3. accepted' = accepted + n /\ ~requestShutdown
  BY DEF Send
<1>4. IF go THEN BeginSend(buf, go) /\ ready' = Started("send", go, ready)
            ELSE sendBuf' = buf /\ UNCHANGED <<sending, sendOp, ready>>
  BY Zenon DEF Send
<1>5. UNCHANGED <<flags, recvSide, conn, connectOp, wire, cleared, delivered, connects>>
  BY DEF Send
<1>6. go <=> sendBuf = <<>> /\ ~sending /\ buf # <<>> /\ connected /\ ~finSent
  BY DEF CanSend, SendIdle, Flushed
<1>7. go \in BOOLEAN
  BY DEF Flushed, SendIdle, CanSend
<1> HIDE DEF more
<1>8. buf \in Seq(Nat) /\ Len(buf) = Len(sendBuf) + n /\ buf # <<>>
  <2>1. buf \in Seq(Nat) /\ Len(buf) = Len(sendBuf) + n
    BY <1>1, <1>2, JoinBuffers
  <2> QED BY <1>1, <2>1
<1> HIDE DEF buf, go
<1>9. /\ sendBuf' = buf
      /\ go => /\ sending' = TRUE
               /\ sendOp' # <<>> => /\ Len(sendOp') <= Len(buf)
                                   /\ sendOp' = SubSeq(buf, 1, Len(sendOp'))
      /\ ~go => UNCHANGED <<sending, sendOp, ready>>
      /\ conn # "closed" => ready' = ready
  <2>1. CASE go
    <3>1. BeginSend(buf, go) /\ ready' = Started("send", go, ready)
      BY <1>4, <2>1
    <3> QED BY <1>1, <1>7, <1>8, <2>1, <3>1, BeginSendHead, QueuedStarted
  <2>2. CASE ~go
    BY <1>4, <2>2
  <2> QED BY <2>1, <2>2
<1>10. Unconnected' /\ Connecting'
  <2>1. Unconnected'
    <3>1. accepted' # 0
      BY <1>1, <1>3
    <3>2. connects = 0 => ~go
      BY Zenon, <1>6 DEF Flow, Unconnected
    <3> QED BY Zenon, <1>5, <1>9, <3>1, <3>2 DEF Flow, Unconnected
  <2>2. Connecting'
    <3>1. CASE ~connected
      <4>1. UNCHANGED <<sending, sendOp, ready>> /\ ConnectPending' = ConnectPending
        BY Zenon, <1>5, <1>6, <1>9, <3>1 DEF ConnectPending
      <4>2. sendBuf = Numbers(accepted) => sendBuf' = Numbers(accepted')
        BY <1>2, <1>3, <1>9 DEF buf
      <4> QED BY Zenon, <1>5, <4>1, <4>2 DEF Flow, Connecting
    <3>2. CASE connected
      <4>1. Queued(ready', "connect") = Queued(ready, "connect")
        <5>1. CASE go
          <6>1. ready' = Started("send", go, ready)
            BY <1>4, <5>1
          <6> QED BY <1>1, <1>7, <6>1, QueuedStarted
        <5>2. CASE ~go
          BY <1>9, <5>2
        <5> QED BY <5>1, <5>2
      <4>2. connects = 1 => ~ConnectPending'
        <5>1. connects = 1 => ~connectOp /\ Queued(ready, "connect") = {}
          BY <3>2, Phases DEF FirstConnection
        <5> QED BY Zenon, <1>5, <4>1, <5>1 DEF ConnectPending
      <4> QED BY Zenon, <1>5, <4>2 DEF Connecting
    <3> QED BY <3>1, <3>2
  <2> QED BY <2>1, <2>2
<1>11. Readable' = Readable /\ Live' = Live
  BY Zenon, <1>5 DEF Readable, Live, FirstConnection
<1>12. ReceiveFlow' /\ ReceiveGoesOn'
  <2>1. Queued(ready, "recv")' = Queued(ready, "recv")
    <3>1. CASE go
      <4>1. ready' = Started("send", go, ready)
        BY <1>4, <3>1
      <4> QED BY <1>1, <1>7, <4>1, QueuedStarted
    <3>2. CASE ~go
      BY <1>9, <3>2
    <3> QED BY <3>1, <3>2
  <2> QED BY Zenon, <1>5, <1>11, <2>1, SameReceive
<1>13. SendFlow'
  <2> SUFFICES ASSUME Live, NoClear PROVE SendFlow'
    BY Zenon, <1>11 DEF SendFlow
  <2>1. ready' = ready /\ connected
    BY <1>9 DEF Live
  <2>2. /\ Queued(ready, "send") = {} => taken \o sendBuf = Numbers(accepted)
        /\ \A c \in Queued(ready, "send") :
             /\ c.err = "ok" /\ Len(c.data) \in 1..Len(sendBuf)
             /\ taken \o SubSeq(sendBuf, Len(c.data) + 1, Len(sendBuf)) = Numbers(accepted)
        /\ sendOp # <<>> => /\ Len(sendOp) <= Len(sendBuf)
                            /\ sendOp = SubSeq(sendBuf, 1, Len(sendOp))
        /\ sending <=> sendBuf # <<>>
        /\ finOut => finSent
        /\ finSent <=> requestShutdown /\ sendBuf = <<>>
    BY Zenon DEF Flow, SendFlow
  <2>3. ASSUME Queued(ready, "send") = {} PROVE taken \o buf = Numbers(accepted')
    <3>1. (taken \o sendBuf) \o more = taken \o (sendBuf \o more)
      BY <1>1, <1>2, JoinBuffers
    <3> QED BY <1>2, <1>3, <2>2, <2>3, <3>1 DEF buf
  <2>4. ASSUME NEW c \in Queued(ready, "send")
        PROVE  /\ c.err = "ok" /\ Len(c.data) \in 1..Len(buf)
               /\ taken \o SubSeq(buf, Len(c.data) + 1, Len(buf)) = Numbers(accepted')
    <3> DEFINE k == Len(c.data)
    <3>1. /\ c.err = "ok" /\ k \in 1..Len(sendBuf)
          /\ taken \o SubSeq(sendBuf, k + 1, Len(sendBuf)) = Numbers(accepted)
      BY <2>2
    <3> HIDE DEF k
    <3>2. k \in 0..Len(sendBuf) /\ k \in 1..Len(buf)
      BY <1>1, <1>8, <3>1
    <3> DEFINE tail == SubSeq(sendBuf, k + 1, Len(sendBuf))
    <3>3. tail \in Seq(Nat)
      BY <1>1, <3>2, SplitBuffer
    <3>4. SubSeq(buf, k + 1, Len(buf)) = tail \o more
      BY <1>1, <1>2, <3>2, ExtendBuffer DEF buf
    <3>5. taken \o tail = Numbers(accepted)
      BY <3>1
    <3> HIDE DEF tail
    <3>a. taken \in Seq(Nat) /\ more \in Seq(Nat)
      BY <1>1, <1>2
    <3>6. (taken \o tail) \o more = taken \o (tail \o more)
      BY <3>3, <3>a, JoinBuffers
    <3> QED BY <1>2, <1>3, <3>1, <3>2, <3>4, <3>5, <3>6 DEF k
  <2>5. sendOp' # <<>> => /\ Len(sendOp') <= Len(buf)
                          /\ sendOp' = SubSeq(buf, 1, Len(sendOp'))
    <3>1. CASE go
      BY <1>9, <3>1
    <3>2. ASSUME ~go, sendOp' # <<>>
          PROVE  Len(sendOp') <= Len(buf) /\ sendOp' = SubSeq(buf, 1, Len(sendOp'))
      <4> DEFINE k == Len(sendOp)
      <4>1. sendOp' = sendOp /\ k <= Len(sendBuf) /\ sendOp = SubSeq(sendBuf, 1, k)
        BY <1>9, <2>2, <3>2
      <4>2. k \in 0..Len(sendBuf)
        BY <1>1, <4>1
      <4> HIDE DEF k
      <4>3. SubSeq(buf, 1, k) = SubSeq(sendBuf, 1, k)
        BY <1>1, <1>2, <4>2, ExtendBuffer DEF buf
      <4>4. k <= Len(buf)
        BY <1>1, <1>8, <4>2
      <4> QED BY <4>1, <4>3, <4>4 DEF k
    <3> QED BY <3>1, <3>2
  <2>6. sending' /\ sendBuf' # <<>> /\ ~finSent' /\ ~requestShutdown' /\ ~finOut'
    <3>1. ~finSent' /\ ~requestShutdown' /\ ~finOut'
      BY ZenonT(20), <1>3, <1>5, <2>2
    <3>2. ~go => sending
      BY Zenon, <1>3, <1>6, <1>8, <2>1, <2>2
    <3>3. sending'
      BY <1>9, <3>2
    <3> QED BY <1>8, <1>9, <3>1, <3>3
  <2>7. taken' = taken /\ sendBuf' = buf
    BY <1>5, <1>9
  <2> QED BY Zenon, <2>1, <2>3, <2>4, <2>5, <2>6, <2>7 DEF SendFlow
<1> QED BY <1>10, <1>12, <1>13 DEF Flow

\* Receive() moves the head of the buffer to the application; it resumes the
\* receiving that a full buffer had paused.
LEMMA ReceiveFlows == ASSUME Inv, Flow, NEW n \in 1..Len(recvBuf), Receive(n) PROVE Flow'
<1> DEFINE rest == Erase(recvBuf, n)
           go   == Resumes(rest) /\ ReceiveIdle /\ CanReceive(rest, connected, finReceived)
<1>1. /\ recvBuf \in Seq(Nat) /\ delivered \in Seq(Nat) /\ ready \in Seq(Completions)
      /\ connects \in Nat /\ incoming \in Seq(Nat) /\ consumed \in 0..Len(incoming)
  BY DEF Inv, TypeOK, BuffersType, HistoryType, WireType, ReadyType
<1>2. /\ Prefix(recvBuf, n) \in Seq(Nat) /\ rest \in Seq(Nat)
      /\ Len(rest) < Len(recvBuf)
      /\ Prefix(recvBuf, n) \o rest = recvBuf
  <2>1. Prefix(recvBuf, n) = SubSeq(recvBuf, 1, n)
    BY <1>1 DEF Prefix, Smaller
  <2>2. rest = SubSeq(recvBuf, n + 1, Len(recvBuf))
    BY DEF Erase
  <2> HIDE DEF rest
  <2>3. n \in 0..Len(recvBuf)
    OBVIOUS
  <2>4. /\ SubSeq(recvBuf, 1, n) \in Seq(Nat)
        /\ SubSeq(recvBuf, n + 1, Len(recvBuf)) \in Seq(Nat)
        /\ Len(SubSeq(recvBuf, n + 1, Len(recvBuf))) = Len(recvBuf) - n
        /\ SubSeq(recvBuf, 1, n) \o SubSeq(recvBuf, n + 1, Len(recvBuf)) = recvBuf
    BY <1>1, <2>3, SplitBuffer
  <2>5. Len(recvBuf) - n < Len(recvBuf)
    BY <1>1
  <2> QED BY Zenon, <2>1, <2>2, <2>4, <2>5
<1>3. /\ delivered' = delivered \o Prefix(recvBuf, n)
      /\ UNCHANGED <<flags, sendSide, conn, connectOp, wire, accepted, cleared, connects>>
  BY DEF Receive
<1>4. IF go THEN BeginReceive(rest, go) /\ ready' = Started("recv", go, ready)
            ELSE recvBuf' = rest /\ UNCHANGED <<receiving, recvOp, ready>>
  BY Zenon DEF Receive
<1>5. go <=> /\ Len(recvBuf) >= MaxBlockSize /\ Len(rest) < MaxBlockSize
             /\ ~receiving /\ connected /\ ~finReceived
  BY DEF Resumes, ReceiveIdle, CanReceive
<1>6. go \in BOOLEAN
  BY DEF Resumes, ReceiveIdle, CanReceive
<1> HIDE DEF rest, go
<1>7. /\ recvBuf' = rest
      /\ go => receiving' = TRUE
      /\ ~go => UNCHANGED <<receiving, ready>>
      /\ conn # "closed" => ready' = ready
      /\ \A op : op # "recv" => Queued(ready', op) = Queued(ready, op)
  <2>1. CASE go
    <3>1. BeginReceive(rest, go) /\ ready' = Started("recv", go, ready)
      BY <1>4, <2>1
    <3>2. recvBuf' = rest /\ receiving' = TRUE
      BY <1>2, <1>6, <2>1, <3>1, BeginReceiveFacts
    <3>3. /\ conn # "closed" => ready' = ready
          /\ \A op : op # "recv" => Queued(ready', op) = Queued(ready, op)
      BY <1>1, <1>6, <3>1, QueuedStarted
    <3> QED BY <2>1, <3>2, <3>3
  <2>2. CASE ~go
    BY <1>4, <2>2
  <2> QED BY <2>1, <2>2
<1>8. recvBuf # <<>>
  OBVIOUS
<1>9. Unconnected' /\ Connecting'
  <2>1. connects \in {0, 1} => connects = 1 /\ ~ConnectPending
    BY Zenon, <1>8 DEF Flow, Unconnected, Connecting
  <2>2. ConnectPending' = ConnectPending
    BY Zenon, <1>3, <1>7 DEF ConnectPending
  <2> QED BY <1>3, <2>1, <2>2 DEF Unconnected, Connecting
<1>10. Readable' = Readable /\ Live' = Live
  BY Zenon, <1>3 DEF Readable, Live, FirstConnection
<1>11. SendFlow'
  <2>1. Queued(ready, "send")' = Queued(ready, "send")
    BY <1>7
  <2> QED BY Zenon, <1>3, <1>10, <2>1, SameSend
<1>12. delivered' \o recvBuf' = delivered \o recvBuf
  <2>1. (delivered \o Prefix(recvBuf, n)) \o rest = delivered \o (Prefix(recvBuf, n) \o rest)
    BY <1>1, <1>2, JoinBuffers
  <2> QED BY <1>2, <1>3, <1>7, <2>1
<1>13. ReceiveFlow'
  <2> SUFFICES ASSUME Readable PROVE ReceiveFlow'
    BY Zenon, <1>10 DEF ReceiveFlow
  <2>1. ready' = ready
    BY <1>7 DEF Readable
  <2> QED BY Zenon, <1>3, <1>12, <2>1 DEF Flow, ReceiveFlow
<1>14. ReceiveGoesOn'
  <2> SUFFICES ASSUME Live PROVE ReceiveGoesOn'
    BY Zenon, <1>10 DEF ReceiveGoesOn
  <2>1. ready' = ready /\ connected
    BY <1>7 DEF Live
  <2>2. /\ ~finReceived /\ Len(recvBuf) < MaxBlockSize => receiving
        /\ NoReset /\ finReceived => finIn /\ consumed = Len(incoming) /\ ~receiving
    BY Zenon DEF Flow, ReceiveGoesOn
  <2>3. ASSUME ~finReceived, Len(rest) < MaxBlockSize PROVE receiving'
    <3>1. CASE go
      BY <1>7, <3>1
    <3>2. CASE ~go
      <4>1. receiving
        BY <1>1, <1>5, <2>1, <2>2, <2>3, <3>2, SizesAssumption
      <4> QED BY <1>7, <3>2, <4>1
    <3> QED BY <3>1, <3>2
  <2>4. ASSUME NoReset, finReceived
        PROVE  finIn' /\ consumed' = Len(incoming') /\ ~receiving'
    <3>1. ~go
      BY <1>5, <2>4
    <3> QED BY <1>3, <1>7, <2>2, <2>4, <3>1
  <2>5. UNCHANGED <<finIn, consumed, incoming, finReceived>>
    BY <1>3
  <2> QED BY Zenon, <1>7, <2>1, <2>3, <2>4, <2>5 DEF Flow, ReceiveGoesOn
<1> QED BY <1>9, <1>11, <1>13, <1>14 DEF Flow

\* ClearBuffers() counts what it drops as read and resumes receiving.
LEMMA ClearBuffersFlow == ASSUME Inv, Flow, ClearBuffers PROVE Flow'
<1> DEFINE go == ReceiveIdle /\ CanReceive(<<>>, connected, finReceived)
<1>1. /\ recvBuf \in Seq(Nat) /\ delivered \in Seq(Nat) /\ ready \in Seq(Completions)
      /\ <<>> \in Seq(Nat)
  BY DEF Inv, TypeOK, BuffersType, HistoryType, ReadyType
<1>2. /\ sendBuf' = <<>> /\ delivered' = delivered \o recvBuf /\ ~NoClear
      /\ UNCHANGED <<flags, sending, sendOp, conn, connectOp, wire, accepted, connects>>
  BY Zenon DEF ClearBuffers, NoClear
<1>3. IF go THEN BeginReceive(<<>>, go) /\ ready' = Started("recv", go, ready)
            ELSE recvBuf' = <<>> /\ UNCHANGED <<receiving, recvOp, ready>>
  BY Zenon DEF ClearBuffers
<1>4. go <=> ~receiving /\ connected /\ ~finReceived
  BY SizesAssumption DEF ReceiveIdle, CanReceive
<1>5. go \in BOOLEAN
  BY DEF ReceiveIdle, CanReceive
<1> HIDE DEF go
<1>6. /\ recvBuf' = <<>>
      /\ go => receiving' = TRUE
      /\ ~go => UNCHANGED <<receiving, recvOp, ready>>
      /\ conn # "closed" => ready' = ready
      /\ Queued(ready', "connect") = Queued(ready, "connect")
  <2>1. CASE go
    <3>1. BeginReceive(<<>>, go) /\ ready' = Started("recv", go, ready)
      BY <1>3, <2>1
    <3>2. recvBuf' = <<>> /\ receiving' = TRUE
      BY <1>1, <1>5, <2>1, <3>1, BeginReceiveFacts
    <3>3. /\ conn # "closed" => ready' = ready
          /\ Queued(ready', "connect") = Queued(ready, "connect")
      BY <1>1, <1>5, <3>1, QueuedStarted
    <3> QED BY <2>1, <3>2, <3>3
  <2>2. CASE ~go
    BY <1>3, <2>2
  <2> QED BY <2>1, <2>2
<1>7. delivered' \o recvBuf' = delivered \o recvBuf
  <2>1. (delivered \o recvBuf) \o <<>> = delivered \o recvBuf
    BY <1>1, JoinBuffers, ConcatEmptySeq
  <2> QED BY <1>2, <1>6, <2>1
<1>8. ConnectPending' = ConnectPending
  BY Zenon, <1>2, <1>6 DEF ConnectPending
<1>9. recvBuf = <<>> /\ delivered = <<>> => delivered' = <<>>
  BY <1>1, <1>2, ConcatEmptySeq
<1>10. Unconnected'
  <2>1. connects = 0 => ~go
    BY Zenon, <1>4 DEF Flow, Unconnected
  <2> QED BY Zenon, <1>2, <1>6, <1>9, <2>1 DEF Flow, Unconnected
<1>11. Connecting'
  <2>1. connects = 1 /\ ConnectPending => ~go
    BY Zenon, <1>4 DEF Flow, Connecting
  <2> QED BY Zenon, <1>2, <1>6, <1>8, <1>9, <2>1 DEF Flow, Connecting
<1>12. Readable' = Readable /\ Live' = Live
  BY Zenon, <1>2 DEF Readable, Live, FirstConnection
<1>13. ReceiveFlow'
  <2> SUFFICES ASSUME Readable PROVE ReceiveFlow'
    BY Zenon, <1>12 DEF ReceiveFlow
  <2>1. ready' = ready
    BY <1>6 DEF Readable
  <2> QED BY Zenon, <1>2, <1>7, <2>1 DEF Flow, ReceiveFlow
<1>14. ReceiveGoesOn'
  <2> SUFFICES ASSUME Live PROVE ReceiveGoesOn'
    BY Zenon, <1>12 DEF ReceiveGoesOn
  <2>1. ready' = ready /\ connected
    BY <1>6 DEF Live
  <2>2. NoReset /\ finReceived => finIn /\ consumed = Len(incoming) /\ ~receiving
    BY Zenon DEF Flow, ReceiveGoesOn
  <2>3. ~finReceived => receiving'
    BY <1>4, <1>6, <2>1
  <2>4. NoReset /\ finReceived => ~receiving'
    BY <1>4, <1>6, <2>2
  <2>5. UNCHANGED <<finIn, consumed, incoming, finReceived>>
    BY <1>2
  <2> QED BY Zenon, <2>1, <2>2, <2>3, <2>4, <2>5 DEF Flow, ReceiveGoesOn
<1>15. SendFlow'
  BY <1>2 DEF SendFlow
<1> QED BY <1>10, <1>11, <1>13, <1>14, <1>15 DEF Flow

-----------------------------------------------------------------------------
(* The handlers.                                                           *)

\* The connect handler runs with nothing else queued: what Send() accepted is
\* all there is to send, and nothing has been received.
LEMMA ConnectHandlerFlow ==
  ASSUME Inv, Flow, NEW i \in 1..Len(ready), ready[i].op = "connect",
         ConnectHandler(ready[i], RemoveAt(ready, i))
  PROVE  Flow'
<1> DEFINE c == ready[i]
           queue == RemoveAt(ready, i)
<1>1. /\ ready \in Seq(Completions) /\ connects \in Nat /\ sendBuf \in Seq(Nat)
      /\ <<>> \in Seq(Nat) /\ incoming \in Seq(Nat) /\ accepted \in Nat
  BY DEF Inv, TypeOK, ReadyType, HistoryType, BuffersType, WireType
<1>2. UNCHANGED <<conn, connectOp, wire, history>>
  BY Zenon DEF ConnectHandler
<1>3. connects # 0
  <2>1. ready # <<>>
    BY <1>1
  <2> QED BY Zenon, <2>1 DEF Flow, Unconnected
<1>4. CASE connects > 1
  BY <1>1, <1>2, <1>4, ConnectedAgain
<1>5. CASE connects = 1
  <2>1. ConnectPending
    <3>1. ready[i] \in Queued(ready, "connect")
      BY <1>1 DEF Queued, Range
    <3> QED BY <3>1 DEF ConnectPending
  <2>2. /\ ~requestShutdown /\ ~sending /\ ~receiving
        /\ recvBuf = <<>> /\ delivered = <<>> /\ taken = <<>> /\ consumed = 0
        /\ conn = "est" => ~finOut
        /\ NoClear => sendBuf = Numbers(accepted)
        /\ IF connectOp THEN ready = <<>> ELSE Len(ready) = 1
    BY Zenon, <1>5, <2>1 DEF Flow, Connecting
  <2>3. ~connectOp /\ Len(ready) = 1
    BY <1>1, <2>2
  <2>4. queue = <<>>
    <3>1. queue \in Seq(Completions) /\ Len(queue) = Len(ready) - 1
      BY <1>1, RemoveAtFacts
    <3> HIDE DEF queue
    <3>2. Len(queue) = 0
      BY <2>3, <3>1
    <3> QED BY <3>1, <3>2
  <2>5. \A op : Queued(queue, op) = {}
    BY <2>4 DEF Queued, Range
  <2>6. CASE c.err # "ok"
    <3>1. connected' = FALSE /\ ready' = queue
      BY Zenon, <2>6 DEF ConnectHandler
    <3>2. ~ConnectPending'
      BY Zenon, <1>2, <2>3, <2>5, <3>1 DEF ConnectPending
    <3>3. ~Readable'
      BY Zenon, <3>1 DEF Readable
    <3>4. connects' = connects
      BY <1>2
    <3> QED BY Zenon, <1>3, <3>2, <3>3, <3>4, NonePending, NothingFlows DEF Flow
  <2>7. CASE c.err = "ok"
    <3> DEFINE goRecv == CanReceive(recvBuf, TRUE, FALSE)
               goSend == CanSend(sendBuf, TRUE, FALSE)
               queueR == Started("recv", ReceiveIdle /\ goRecv, queue)
    <3>1. /\ requestShutdown' = FALSE /\ finSent' = FALSE /\ finReceived' = FALSE
          /\ BeginReceive(recvBuf, goRecv) /\ BeginSend(sendBuf, goSend)
          /\ ready' = Started("send", SendIdle /\ goSend, queueR)
      BY Zenon, <2>2, <2>7 DEF ConnectHandler, ReceiveIdle, SendIdle
    <3>2. /\ goRecv \in BOOLEAN /\ goSend \in BOOLEAN
          /\ (ReceiveIdle /\ goRecv) \in BOOLEAN /\ (SendIdle /\ goSend) \in BOOLEAN
          /\ goRecv = TRUE /\ (goSend <=> sendBuf # <<>>)
      BY <2>2, SizesAssumption DEF CanReceive, CanSend, ReceiveIdle, SendIdle
    <3> HIDE DEF goRecv, goSend
    <3>3. recvBuf' = recvBuf /\ receiving' = TRUE
      BY <3>1, <3>2 DEF BeginReceive
    <3>4. /\ sendBuf' = sendBuf /\ sending' = goSend
          /\ sendOp' # <<>> => /\ Len(sendOp') <= Len(sendBuf)
                              /\ sendOp' = SubSeq(sendBuf, 1, Len(sendOp'))
      BY <1>1, <3>1, <3>2, BeginSendHead
    <3>5. /\ conn # "closed" => ready' = <<>>
          /\ Queued(ready', "connect") = {}
      <4>1. queue \in Seq(Completions)
        BY <2>4
      <4>2. queueR \in Seq(Completions)
        BY <3>2, <4>1, StartedFacts
      <4>3. /\ conn # "closed" => queueR = queue
            /\ Queued(queueR, "connect") = Queued(queue, "connect")
        BY <3>2, <4>1, QueuedStarted
      <4> HIDE DEF queueR, queue
      <4>4. /\ conn # "closed" => ready' = queueR
            /\ Queued(ready', "connect") = Queued(queueR, "connect")
        BY <3>1, <3>2, <4>2, QueuedStarted
      <4> QED BY <2>4, <2>5, <4>3, <4>4
    <3>6. Unconnected' /\ Connecting'
      <4>1. ~ConnectPending' /\ connects' = connects
        BY <1>2, <2>3, <3>5 DEF ConnectPending
      <4> QED BY <1>3, <4>1, NonePending
    <3>7. conn # "closed" => \A op : Queued(ready', op) = {}
      BY Zenon, <2>4, <2>5, <3>5
    <3>8. ReceiveFlow'
      <4>1. <<>> \o <<>> = SubSeq(incoming, 1, 0)
        BY <1>1
      <4>2. delivered' \o recvBuf' = SubSeq(incoming', 1, consumed')
        BY Zenon, <1>2, <2>2, <3>3, <4>1
      <4>3. Readable' => Queued(ready', "recv") = {}
        BY <1>2, <3>7 DEF Readable
      <4> QED BY Zenon, <4>2, <4>3 DEF ReceiveFlow
    <3>9. ReceiveGoesOn'
      <4>1. Live' => Queued(ready', "recv") = {}
        BY <1>2, <3>7 DEF Live
      <4> QED BY Zenon, <3>1, <3>3, <4>1 DEF ReceiveGoesOn
    <3>10. SendFlow'
      <4> SUFFICES ASSUME Live', NoClear PROVE SendFlow'
        BY DEF SendFlow
      <4>1. conn = "est" /\ Queued(ready', "send") = {}
        BY <1>2, <3>7 DEF Live
      <4>2. <<>> \o Numbers(accepted) = Numbers(accepted)
        BY <1>1, NumbersExtend, ConcatEmptySeq
      <4>3. taken' \o sendBuf' = Numbers(accepted')
        BY <1>2, <2>2, <3>4, <4>2
      <4>4. ~finOut'
        BY <1>2, <2>2, <4>1
      <4>5. sending' <=> sendBuf' # <<>>
        BY <3>2, <3>4
      <4>6. ~finSent' /\ ~requestShutdown'
        BY <3>1
      <4> QED BY Zenon, <3>4, <4>1, <4>3, <4>4, <4>5, <4>6 DEF SendFlow
    <3> QED BY <3>6, <3>8, <3>9, <3>10 DEF Flow
  <2> QED BY <2>6, <2>7
<1> QED BY <1>1, <1>3, <1>4, <1>5

\* The handler of an operation finds its flag up, nothing outstanding in the
\* kernel, and no other completion of that operation.
LEMMA RunFacts ==
  ASSUME Inv, NEW i \in 1..Len(ready), ready[i].op \in {"send", "recv"}
  PROVE  /\ RemoveAt(ready, i) \in Seq(Completions) /\ ready[i] \in Completions
         /\ Queued(ready, ready[i].op) = {ready[i]}
         /\ Queued(RemoveAt(ready, i), ready[i].op) = {}
         /\ \A op : op # ready[i].op => Queued(RemoveAt(ready, i), op) = Queued(ready, op)
         /\ ready[i].op = "send" => sending /\ sendOp = <<>>
         /\ ready[i].op = "recv" => receiving /\ ~recvOp
<1>1. ready \in Seq(Completions)
  BY DEF Inv, TypeOK, ReadyType
<1>2. ready[i] \in Completions /\ RemoveAt(ready, i) \in Seq(Completions)
  BY <1>1, RunOwned
<1>3. /\ ready[i].op = "send" => sending /\ ~(sendOp # <<>>)
      /\ ready[i].op = "recv" => receiving /\ ~recvOp
  <2> DEFINE outstanding == sendOp # <<>>
  <2>1. /\ Owned(sending, outstanding, ready, "send")
        /\ Owned(receiving, recvOp, ready, "recv")
    BY Zenon DEF Inv, OneSendInFlight, OneReceiveInFlight
  <2>2. \A busy, out : Owned(busy, out, ready, ready[i].op)
          => busy /\ ~out /\ NoneQueued(RemoveAt(ready, i), ready[i].op)
    BY <1>1, RunOwned
  <2>3. ASSUME ready[i].op = "send" PROVE sending /\ ~outstanding
    <3> HIDE DEF outstanding
    <3>1. Owned(sending, outstanding, ready, ready[i].op)
      BY Zenon, <2>1, <2>3
    <3> QED BY Zenon, <2>2, <3>1
  <2>4. ASSUME ready[i].op = "recv" PROVE receiving /\ ~recvOp
    <3>1. Owned(receiving, recvOp, ready, ready[i].op)
      BY Zenon, <2>1, <2>4
    <3> QED BY Zenon, <2>2, <3>1
  <2> QED BY <2>3, <2>4
<1>4. OneQueued(ready, ready[i].op)
  BY Zenon, <1>3 DEF Inv, OneSendInFlight, OneReceiveInFlight, Owned
<1>5. /\ Queued(ready, ready[i].op) = {ready[i]}
      /\ Queued(RemoveAt(ready, i), ready[i].op) = {}
  BY <1>1, <1>4, QueuedRun
<1>6. \A op : op # ready[i].op => Queued(RemoveAt(ready, i), op) = Queued(ready, op)
  BY <1>1, QueuedRemove
<1> QED BY <1>2, <1>3, <1>5, <1>6

\* SendHandler erases what its operation sent, sends what is left, and only
\* when nothing is left the FIN that Shutdown() put off.
LEMMA SendHandlerFlow ==
  ASSUME Inv, Flow, NEW i \in 1..Len(ready), ready[i].op = "send",
         SendHandler(ready[i], RemoveAt(ready, i))
  PROVE  Flow'
<1> DEFINE c == ready[i]
           queue == RemoveAt(ready, i)
           rest == Erase(sendBuf, Len(c.data))
           go == CanSend(rest, connected, finSent)
<1>1. /\ connects \in Nat /\ sendBuf \in Seq(Nat) /\ taken \in Seq(Nat)
  BY DEF Inv, TypeOK, HistoryType, BuffersType, WireType
<1>2. UNCHANGED <<requestShutdown, receiving, recvBuf, taken, incoming, finIn,
                  consumed, peerConsumed, history>>
  BY Zenon DEF SendHandler
<1>3. /\ queue \in Seq(Completions) /\ c \in Completions
      /\ Queued(ready, "send") = {c} /\ Queued(queue, "send") = {}
      /\ \A op : op # "send" => Queued(queue, op) = Queued(ready, op)
      /\ sending /\ sendOp = <<>>
  BY RunFacts
<1>4. /\ BeginSend(rest, go) \/ sendBuf = <<>> \/ c.err # "ok"
      /\ IF sendBuf = <<>> \/ c.err # "ok"
           THEN /\ sending' = FALSE /\ ready' = queue
                /\ UNCHANGED <<sendBuf, sendOp, connected, finSent, finReceived,
                               conn, connectOp, recvOp, finOut>>
           ELSE IF rest = <<>>
                  THEN FinishShutdown(queue)
                  ELSE /\ ready' = Started("send", go, queue)
                       /\ UNCHANGED <<connected, finSent, finReceived, conn,
                                      connectOp, recvOp, finOut>>
  BY Zenon DEF SendHandler
<1>5. Len(c.data) \in Nat /\ rest \in Seq(Nat) /\ rest = SubSeq(sendBuf, Len(c.data) + 1, Len(sendBuf))
  <2>1. c.data \in Seq(Nat)
    BY <1>3, ChunkFacts DEF Completions
  <2> QED BY <1>1, <2>1, EraseType DEF Erase
<1>6. go \in BOOLEAN /\ (go <=> rest # <<>> /\ connected /\ ~finSent)
  BY DEF CanSend
<1> HIDE DEF c, queue, rest, go
<1>7. CASE connects > 1
  BY <1>1, <1>2, <1>7, ConnectedAgain
<1>8. CASE FirstConnection
  <2>1. connects = 1 /\ ~connectOp /\ Queued(ready, "connect") = {}
    BY Zenon, <1>3, <1>8, Phases
  <2>2. connects # 0 /\ connects' = connects
    BY <1>2, <2>1
  <2>3. Live /\ NoClear =>
          /\ c.err = "ok" /\ Len(c.data) \in 1..Len(sendBuf)
          /\ taken \o rest = Numbers(accepted)
          /\ finOut => finSent
          /\ finSent <=> requestShutdown /\ sendBuf = <<>>
    BY <1>3, <1>5 DEF Flow, SendFlow
  <2>4. ASSUME ready' = queue, connectOp' = connectOp
        PROVE  Unconnected' /\ Connecting'
    <3>1. ~ConnectPending'
      BY <1>3, <2>1, <2>4 DEF ConnectPending
    <3> QED BY <2>2, <3>1, NonePending
  <2>5. ASSUME Queued(ready', "recv") = Queued(ready, "recv"),
               UNCHANGED <<connected, conn>>,
               conn = "est" => finReceived' = finReceived
        PROVE  ReceiveFlow' /\ ReceiveGoesOn'
    <3>1. Readable' = Readable /\ Live' = Live
      BY Zenon, <1>2, <2>5 DEF Readable, Live, FirstConnection
    <3>2. Live => finReceived' = finReceived
      BY <2>5 DEF Live
    <3> QED BY Zenon, <1>2, <2>5, <3>1, <3>2, SameReceive
  <2>6. CASE sendBuf = <<>> \/ c.err # "ok"
    <3>1. /\ sending' = FALSE /\ ready' = queue
          /\ UNCHANGED <<connected, finReceived, conn, connectOp>>
      BY <1>4, <2>6
    <3>2. ~(Live /\ NoClear)
      BY <1>1, <2>3, <2>6
    <3>3. SendFlow'
      <4>1. ~(Live' /\ NoClear)
        BY <1>2, <3>1, <3>2 DEF Live, FirstConnection
      <4> QED BY <4>1 DEF SendFlow
    <3>4. Queued(ready', "recv") = Queued(ready, "recv")
      BY <1>3, <3>1
    <3> QED BY <2>4, <2>5, <3>1, <3>3, <3>4 DEF Flow
  <2>7. CASE ~(sendBuf = <<>> \/ c.err # "ok") /\ rest = <<>>
    <3>1. FinishShutdown(queue) /\ BeginSend(rest, go)
      BY <1>4, <2>7
    <3>2. /\ sendBuf' = <<>> /\ sending' = FALSE
          /\ sendOp' = <<>>
      BY <1>5, <1>6, <2>7, <3>1, BeginSendHead
    <3>3. CASE CloseAsioSocket(queue)
      BY <1>3, <2>1, <2>2, <3>3, ClosedFlow
    <3>4. CASE ~CloseAsioSocket(queue)
      <4>1. /\ ready' = queue /\ UNCHANGED <<connected, conn, connectOp>>
            /\ conn = "est" =>
                 /\ finReceived' = finReceived
                 /\ IF requestShutdown /\ ~finSent
                      THEN finSent' = TRUE
                      ELSE finSent' = finSent /\ finOut' = finOut
        <5>1. CASE requestShutdown /\ ~finSent /\ conn # "closed"
          <6>1. PICK result \in ShutdownResults :
                  /\ finSent' = (result \in {"ok", "reset"})
                  /\ finReceived' = (finReceived \/ result = "reset")
                  /\ ready' = queue /\ UNCHANGED <<connected, conn, connectOp>>
            BY Zenon, <3>1, <3>4, <5>1 DEF FinishShutdown
          <6>2. ASSUME conn = "est"
                PROVE  finSent' = TRUE /\ finReceived' = finReceived
            <7>1. result = "ok"
              BY <6>2 DEF ShutdownResults
            <7>2. (result \in {"ok", "reset"}) = TRUE /\ ~(result = "reset")
              BY <7>1
            <7>3. finReceived \in BOOLEAN
              BY Zenon DEF Inv, TypeOK, FlagsType
            <7> QED BY Zenon, <6>1, <7>2, <7>3
          <6> QED BY <5>1, <6>1, <6>2
        <5>2. CASE ~(requestShutdown /\ ~finSent /\ conn # "closed")
          <6>1. /\ ready' = queue
                /\ UNCHANGED <<connected, finSent, finReceived, conn, connectOp, finOut>>
            BY Zenon, <3>1, <5>2 DEF FinishShutdown
          <6> QED BY <5>2, <6>1
        <5> QED BY <5>1, <5>2
      <4>2. Unconnected' /\ Connecting'
        BY <2>4, <4>1
      <4>3. ReceiveFlow' /\ ReceiveGoesOn'
        BY <1>3, <2>5, <4>1
      <4>4. SendFlow'
        <5> SUFFICES ASSUME Live', NoClear PROVE SendFlow'
          BY DEF SendFlow
        <5>1. Live /\ conn = "est"
          BY <1>2, <4>1 DEF Live, FirstConnection
        <5>2. Queued(ready', "send") = {}
          BY <1>3, <4>1
        <5>3. taken' \o sendBuf' = Numbers(accepted')
          BY <1>2, <2>3, <2>7, <3>2, <5>1
        <5>4. ~finSent
          BY <2>3, <2>7, <5>1
        <5>5. finOut' => finSent'
          BY Zenon, <2>3, <4>1, <5>1, <5>4
        <5>6. finSent' <=> requestShutdown'
          BY Zenon, <1>2, <4>1, <5>1, <5>4
        <5> QED BY Zenon, <3>2, <5>2, <5>3, <5>5, <5>6 DEF SendFlow
      <4> QED BY <4>2, <4>3, <4>4 DEF Flow
    <3> QED BY <3>3, <3>4
  <2>8. CASE ~(sendBuf = <<>> \/ c.err # "ok") /\ rest # <<>>
    <3>1. /\ BeginSend(rest, go) /\ ready' = Started("send", go, queue)
          /\ UNCHANGED <<connected, finSent, finReceived, conn, connectOp, finOut>>
      BY <1>4, <2>8
    <3>2. /\ sendBuf' = rest /\ sending' = go
          /\ sendOp' # <<>> => /\ Len(sendOp') <= Len(rest)
                              /\ sendOp' = SubSeq(rest, 1, Len(sendOp'))
      BY <1>5, <1>6, <3>1, BeginSendHead
    <3>3. /\ conn # "closed" => ready' = queue
          /\ \A op : op # "send" => Queued(ready', op) = Queued(ready, op)
      BY <1>3, <1>6, <3>1, QueuedStarted
    <3>4. Unconnected' /\ Connecting'
      <4>1. ~ConnectPending'
        BY <2>1, <3>1, <3>3 DEF ConnectPending
      <4> QED BY <2>2, <4>1, NonePending
    <3>5. ReceiveFlow' /\ ReceiveGoesOn'
      BY <2>5, <3>1, <3>3
    <3>6. SendFlow'
      <4> SUFFICES ASSUME Live', NoClear PROVE SendFlow'
        BY DEF SendFlow
      <4>1. Live /\ connected /\ conn # "closed"
        BY <1>2, <3>1 DEF Live, FirstConnection
      <4>2. Queued(ready', "send") = {}
        BY <1>3, <3>3, <4>1
      <4>3. taken' \o sendBuf' = Numbers(accepted')
        BY <1>2, <2>3, <3>2, <4>1
      <4>4. ~finSent /\ ~finOut
        BY <2>3, <2>8, <4>1
      <4>5. sending' /\ sendBuf' # <<>>
        BY Zenon, <1>6, <2>8, <3>2, <4>1, <4>4
      <4>6. ~finSent' /\ ~finOut'
        BY <3>1, <4>4
      <4> QED BY Zenon, <3>2, <4>2, <4>3, <4>5, <4>6 DEF SendFlow
    <3> QED BY <3>4, <3>5, <3>6 DEF Flow
  <2> QED BY <2>6, <2>7, <2>8
<1> QED BY <1>1, <1>7, <1>8 DEF FirstConnection

\* ReceiveHandler moves what its operation received to the buffer and receives
\* on, unless the buffer is full or the peer's FIN has come.
LEMMA ReceiveHandlerFlow ==
  ASSUME Inv, Flow, NEW i \in 1..Len(ready), ready[i].op = "recv",
         ReceiveHandler(ready[i], RemoveAt(ready, i))
  PROVE  Flow'
<1> DEFINE c == ready[i]
           queue == RemoveAt(ready, i)
           buf == recvBuf \o c.data
           go == CanReceive(buf, connected, finReceived')
<1>1. /\ connects \in Nat /\ recvBuf \in Seq(Nat) /\ delivered \in Seq(Nat)
  BY DEF Inv, TypeOK, HistoryType, BuffersType
<1>2. UNCHANGED <<requestShutdown, sending, taken, incoming, finIn, consumed,
                  peerConsumed, history>>
  BY Zenon DEF ReceiveHandler
<1>3. /\ queue \in Seq(Completions) /\ c \in Completions
      /\ Queued(ready, "recv") = {c} /\ Queued(queue, "recv") = {}
      /\ \A op : op # "recv" => Queued(queue, op) = Queued(ready, op)
      /\ receiving
  BY RunFacts
<1>4. \/ /\ c.err = "reset"
         /\ IF conn = "closed"
              THEN connected' = FALSE /\ ready' = queue /\ UNCHANGED connectOp
              ELSE CloseAsioSocket(queue)
      \/ /\ c.err \in {"aborted", "other"}
         /\ ready' = queue
         /\ UNCHANGED <<finReceived, finSent, sendBuf, recvBuf, connected, conn,
                        connectOp, sendOp, recvOp, finOut>>
      \/ /\ c.err \in {"ok", "eof"}
         /\ finReceived' = (finReceived \/ IsEof(c))
         /\ BeginReceive(buf, go) /\ ready' = Started("recv", go, queue)
         /\ UNCHANGED <<finSent, sendBuf, connected, conn, connectOp, sendOp, finOut>>
  BY Zenon DEF ReceiveHandler
<1>5. c.data \in Seq(Nat)
  BY <1>3, ChunkFacts DEF Completions
<1>6. /\ go \in BOOLEAN
      /\ go <=> connected /\ ~finReceived' /\ Len(buf) < MaxBlockSize
  BY DEF CanReceive
<1>7. /\ buf \in Seq(Nat) /\ delivered \o recvBuf \in Seq(Nat)
      /\ delivered \o buf = (delivered \o recvBuf) \o c.data
  BY <1>1, <1>5, JoinBuffers
<1> HIDE DEF c, queue, buf, go
<1>8. CASE connects > 1
  BY <1>1, <1>2, <1>8, ConnectedAgain
<1>9. CASE FirstConnection
  <2>1. connects = 1 /\ ~connectOp /\ Queued(ready, "connect") = {}
    BY Zenon, <1>3, <1>9, Phases
  <2>2. connects # 0 /\ connects' = connects
    BY <1>2, <2>1
  <2>3. Readable => /\ (delivered \o recvBuf) \o c.data = SubSeq(incoming, 1, consumed)
                    /\ c.err # "ok" => c.data = <<>>
    BY <1>3 DEF Flow, ReceiveFlow
  <2>4. Live => /\ c.err \in {"ok", "eof"}
                /\ c.err = "eof" => finIn /\ consumed = Len(incoming)
                /\ ~(NoReset /\ finReceived)
    BY <1>3 DEF Flow, ReceiveGoesOn
  <2>5. ASSUME Queued(ready', "connect") = {}, connectOp' = connectOp
        PROVE  Unconnected' /\ Connecting'
    <3>1. ~ConnectPending'
      BY <2>1, <2>5 DEF ConnectPending
    <3> QED BY <2>2, <3>1, NonePending
  <2>6. ASSUME UNCHANGED <<connected, conn, sendBuf, sendOp, finOut, finSent>>,
               Queued(ready', "send") = Queued(ready, "send")
        PROVE  Readable' = Readable /\ Live' = Live /\ SendFlow'
    <3>1. Readable' = Readable /\ Live' = Live
      BY Zenon, <1>2, <2>6 DEF Readable, Live, FirstConnection
    <3> QED BY Zenon, <1>2, <2>6, <3>1, SameSend
  <2>7. Queued(queue, "connect") = {} /\ Queued(queue, "send") = Queued(ready, "send")
    BY <1>3, <2>1
  <2>8. CASE c.err = "reset" /\ conn = "closed"
    <3>1. connected' = FALSE /\ ready' = queue /\ UNCHANGED connectOp
      BY <1>4, <2>8
    <3>2. ~Readable'
      BY <3>1 DEF Readable
    <3> QED BY <2>5, <2>7, <3>1, <3>2, NothingFlows DEF Flow
  <2>9. CASE c.err = "reset" /\ conn # "closed"
    <3>1. CloseAsioSocket(queue)
      BY <1>4, <2>9
    <3> QED BY <1>3, <2>1, <2>2, <2>7, <3>1, ClosedFlow
  <2>10. CASE c.err \in {"aborted", "other"}
    <3>1. /\ ready' = queue
          /\ UNCHANGED <<sendBuf, recvBuf, connected, conn, connectOp, sendOp, finOut, finSent>>
      BY <1>4, <2>10
    <3>2. Readable' = Readable /\ Live' = Live /\ SendFlow'
      BY <2>6, <2>7, <3>1
    <3>3. ReceiveFlow'
      <4> SUFFICES ASSUME Readable PROVE ReceiveFlow'
        BY Zenon, <3>2 DEF ReceiveFlow
      <4>1. c.data = <<>>
        BY <2>3, <2>10
      <4>2. (delivered \o recvBuf) \o <<>> = delivered \o recvBuf
        BY <1>7, ConcatEmptySeq
      <4>3. delivered' \o recvBuf' = SubSeq(incoming', 1, consumed')
        BY <1>2, <2>3, <3>1, <4>1, <4>2
      <4> QED BY <1>3, <3>1, <4>3 DEF ReceiveFlow
    <3>4. ReceiveGoesOn'
      <4>1. ~Live'
        BY <2>4, <2>10, <3>2
      <4> QED BY <4>1 DEF ReceiveGoesOn
    <3>5. Unconnected' /\ Connecting'
      BY <2>5, <2>7, <3>1
    <3> QED BY <3>2, <3>3, <3>4, <3>5 DEF Flow
  <2>11. CASE c.err \in {"ok", "eof"}
    <3>1. /\ finReceived' = (finReceived \/ IsEof(c))
          /\ BeginReceive(buf, go) /\ ready' = Started("recv", go, queue)
          /\ UNCHANGED <<finSent, sendBuf, connected, conn, connectOp, sendOp, finOut>>
      BY <1>4, <2>11
    <3>2. recvBuf' = buf /\ receiving' = go
      BY <3>1 DEF BeginReceive
    <3>3. /\ conn # "closed" => ready' = queue
          /\ \A op : op # "recv" => Queued(ready', op) = Queued(queue, op)
      BY <1>3, <1>6, <3>1, QueuedStarted
    <3>4. Readable' = Readable /\ Live' = Live /\ SendFlow'
      BY <2>6, <2>7, <3>1, <3>3
    <3>5. ReceiveFlow'
      <4> SUFFICES ASSUME Readable PROVE ReceiveFlow'
        BY Zenon, <3>4 DEF ReceiveFlow
      <4>1. Queued(ready', "recv") = {}
        BY <1>3, <3>3 DEF Readable
      <4>2. delivered' \o recvBuf' = SubSeq(incoming', 1, consumed')
        BY <1>2, <1>7, <2>3, <3>2
      <4> QED BY <4>1, <4>2 DEF ReceiveFlow
    <3>6. ReceiveGoesOn'
      <4> SUFFICES ASSUME Live PROVE ReceiveGoesOn'
        BY Zenon, <3>4 DEF ReceiveGoesOn
      <4>1. Queued(ready', "recv") = {} /\ connected
        BY <1>3, <3>3 DEF Live
      <4>2. ~finReceived' /\ Len(recvBuf') < MaxBlockSize => receiving'
        BY Zenon, <1>6, <3>2, <4>1
      <4>3. ASSUME NoReset, finReceived'
            PROVE  finIn' /\ consumed' = Len(incoming') /\ ~receiving'
        <5>1. ~finReceived
          BY Zenon, <2>4, <4>3
        <5>2. IsEof(c)
          BY Zenon, <3>1, <4>3, <5>1
        <5>3. finIn /\ consumed = Len(incoming)
          BY <2>4, <5>2 DEF IsEof
        <5>4. ~receiving'
          BY Zenon, <1>6, <3>2, <4>3
        <5> QED BY <1>2, <5>3, <5>4
      <4> QED BY Zenon, <4>1, <4>2, <4>3 DEF ReceiveGoesOn
    <3>7. Unconnected' /\ Connecting'
      BY <2>5, <2>7, <3>1, <3>3
    <3> QED BY <3>4, <3>5, <3>6, <3>7 DEF Flow
  <2> QED BY <1>4, <2>8, <2>9, <2>10, <2>11
<1> QED BY <1>1, <1>8, <1>9 DEF FirstConnection

\* Whichever completion an io thread runs.
LEMMA HandlerStepFlow == ASSUME Inv, Flow, HandlerStep PROVE Flow'
<1>1. PICK i \in 1..Smaller(IoThreads, Len(ready)) : RunHandler(i)
  BY DEF HandlerStep
<1>2. i \in 1..Len(ready)
  BY SizesAssumption DEF Inv, TypeOK, ReadyType, Smaller
<1>3. \/ ready[i].op = "connect" /\ ConnectHandler(ready[i], RemoveAt(ready, i))
      \/ ready[i].op = "send" /\ SendHandler(ready[i], RemoveAt(ready, i))
      \/ ready[i].op = "recv" /\ ReceiveHandler(ready[i], RemoveAt(ready, i))
  BY <1>1 DEF RunHandler
<1> QED BY Zenon, <1>2, <1>3, ConnectHandlerFlow, SendHandlerFlow, ReceiveHandlerFlow

-----------------------------------------------------------------------------
(* The kernel, the network and the peer.                                   *)

\* A connect that ends, well or not, leaves its completion as the only one.
LEMMA ConnectEnds ==
  ASSUME Inv, Flow, connectOp, NEW err \in Errors, connectOp' = FALSE,
         ready' = Append(ready, Completion("connect", err, <<>>)),
         UNCHANGED <<flags, sendSide, recvSide, history>>,
         UNCHANGED <<taken, consumed>> \/ (taken' = <<>> /\ consumed' = 0),
         conn' = "est" => finOut' = FALSE
  PROVE  Flow'
<1>1. ready \in Seq(Completions) /\ connects \in Nat /\ connects' = connects
  BY DEF Inv, TypeOK, ReadyType, HistoryType
<1>2. connects # 0
  BY Zenon DEF Flow, Unconnected
<1>3. CASE connects > 1
  BY <1>1, <1>3, ConnectedAgain
<1>4. CASE connects = 1
  <2>1. /\ ~connected /\ ~requestShutdown /\ ~sending /\ ~receiving
        /\ recvBuf = <<>> /\ delivered = <<>> /\ taken = <<>> /\ consumed = 0
        /\ NoClear => sendBuf = Numbers(accepted)
        /\ ready = <<>>
    BY Zenon, <1>4 DEF Flow, Connecting, ConnectPending
  <2>2. Len(ready') = 1
    BY <2>1
  <2>3. taken' = <<>> /\ consumed' = 0
    BY Zenon, <2>1
  <2>4. conn' = "est" => ~finOut'
    OBVIOUS
  <2>5. Connecting'
    BY Zenon, <2>1, <2>2, <2>3, <2>4 DEF Connecting
  <2>6. ~Readable'
    BY <2>1 DEF Readable
  <2>7. Unconnected'
    BY <1>1, <1>2 DEF Unconnected
  <2> QED BY <2>5, <2>6, <2>7, NothingFlows DEF Flow
<1> QED BY <1>1, <1>2, <1>3, <1>4

\* The connection is established with nothing sent and nothing received.
LEMMA KernelConnectsFlow == ASSUME Inv, Flow, KernelConnects PROVE Flow'
<1>1. "ok" \in Errors
  BY DEF Errors
<1> QED BY Zenon, <1>1, ConnectEnds DEF KernelConnects

\* The connect fails.
LEMMA KernelConnectFailsFlow == ASSUME Inv, Flow, KernelConnectFails PROVE Flow'
<1>1. PICK err \in LossErrors : ready' = Append(ready, Completion("connect", err, <<>>))
  BY DEF KernelConnectFails
<1>2. err \in Errors /\ conn' # "est"
  BY ErrorsAssumption DEF Errors, KernelConnectFails
<1>3. /\ connectOp /\ connectOp' = FALSE
      /\ UNCHANGED <<flags, sendSide, recvSide, wire, history>>
  BY DEF KernelConnectFails
<1> QED BY Zenon, <1>1, <1>2, <1>3, ConnectEnds

\* An operation that ends queues its only completion.
LEMMA OperationEnds ==
  ASSUME Inv, Flow, NEW op \in {"send", "recv"}, NEW err \in Errors, NEW data \in Chunks,
         IF op = "send" THEN sendOp # <<>> ELSE recvOp,
         ready' = Append(ready, Completion(op, err, data)),
         UNCHANGED <<connects, connectOp>>
  PROVE  /\ Queued(ready, op) = {}
         /\ Queued(ready', op) = {Completion(op, err, data)}
         /\ \A other : other # op => Queued(ready', other) = Queued(ready, other)
         /\ IF op = "send" THEN sending ELSE receiving
         /\ Unconnected' /\ Connecting'
<1>1. ready \in Seq(Completions) /\ connects \in Nat
  BY DEF Inv, TypeOK, ReadyType, HistoryType
<1>2. /\ Completion(op, err, data) \in Completions
      /\ Completion(op, err, data).op = op
  BY CompletionType
<1>3. /\ IF op = "send" THEN sending ELSE receiving
      /\ NoneQueued(ready, op)
  BY Zenon DEF Inv, OneSendInFlight, OneReceiveInFlight, Owned
<1>4. Queued(ready, op) = {}
  BY <1>3, QueuedNone
<1>5. /\ Queued(ready', op) = Queued(ready, op) \union {Completion(op, err, data)}
      /\ \A other : other # op => Queued(ready', other) = Queued(ready, other)
  BY <1>1, <1>2, QueuedAppend
<1>6. Unconnected' /\ Connecting'
  <2>1. sending \/ receiving
    BY <1>3
  <2>2. connects # 0
    BY Zenon, <2>1 DEF Flow, Unconnected
  <2>3. connects \in {0, 1} => ~ConnectPending'
    <3>1. FirstConnection => connects = 1 /\ ~connectOp /\ Queued(ready, "connect") = {}
      BY Zenon, <2>1, Phases
    <3> QED BY <1>5, <3>1 DEF FirstConnection, ConnectPending
  <2> QED BY Zenon, <2>2, <2>3 DEF Unconnected, Connecting
<1> QED BY <1>3, <1>4, <1>5, <1>6

\* The head of a head is the head.
LEMMA HeadOfHead ==
  ASSUME NEW s \in Seq(Nat), NEW k \in 0..Len(s), NEW n \in 0..k
  PROVE  SubSeq(SubSeq(s, 1, k), 1, n) = SubSeq(s, 1, n)
<1> DEFINE h == SubSeq(s, 1, k)
           a == SubSeq(h, 1, n)
           b == SubSeq(s, 1, n)
<1>1. h \in Seq(Nat) /\ Len(h) = k /\ \A i \in 1..k : h[i] = s[i]
  OBVIOUS
<1>2. b \in Seq(Nat) /\ Len(b) = n /\ \A i \in 1..n : b[i] = s[i]
  OBVIOUS
<1> HIDE DEF h, b
<1>3. a \in Seq(Nat) /\ Len(a) = n /\ \A i \in 1..n : a[i] = h[i]
  BY <1>1
<1> HIDE DEF a
<1>4. \A i \in 1..n : i \in 1..k
  OBVIOUS
<1>5. a = b
  BY <1>1, <1>2, <1>3, <1>4, SeqEqual
<1> QED BY <1>5 DEF a, b, h

\* The kernel takes the head of the operation's bytes, which is the head of the
\* buffer: the completion will erase just these.
LEMMA KernelSendsFlow == ASSUME Inv, Flow, KernelSends PROVE Flow'
<1>1. PICK n \in 1..Smaller(Len(sendOp), NetCapacity - (Len(taken) - peerConsumed)) :
        /\ taken' = taken \o Prefix(sendOp, n)
        /\ ready' = Append(ready, Completion("send", "ok", Prefix(sendOp, n)))
  BY DEF KernelSends
<1> DEFINE data == Prefix(sendOp, n)
           c == Completion("send", "ok", data)
<1>2. /\ sendOp # <<>> /\ sendOp' = <<>>
      /\ UNCHANGED <<flags, sending, sendBuf, recvSide, conn, connectOp, finOut,
                     incoming, finIn, consumed, peerConsumed, history>>
  BY DEF KernelSends
<1>3. /\ sendBuf \in Seq(Nat) /\ taken \in Seq(Nat) /\ sendOp \in Seq(Nat)
      /\ Len(sendOp) <= ChunkSize /\ peerConsumed \in Nat
  BY ChunkFacts DEF Inv, TypeOK, BuffersType, WireType
<1>4. n \in Nat /\ n > 0 /\ n <= Len(sendOp)
  BY <1>3, SizesAssumption DEF Smaller
<1>5. data = SubSeq(sendOp, 1, n) /\ data \in Chunks /\ data \in Seq(Nat) /\ Len(data) = n
  <2>1. data = SubSeq(sendOp, 1, n)
    BY <1>3, <1>4 DEF Prefix, Smaller
  <2> HIDE DEF data
  <2>2. SubSeq(sendOp, 1, n) \in Seq(Nat) /\ Len(SubSeq(sendOp, 1, n)) = n
    BY <1>3, <1>4
  <2> QED BY <1>3, <1>4, <2>1, <2>2, SizesAssumption DEF Chunks
<1> HIDE DEF data
<1>6. "ok" \in Errors
  BY DEF Errors
<1>7. /\ Queued(ready, "send") = {} /\ Queued(ready', "send") = {c}
      /\ Queued(ready', "recv") = Queued(ready, "recv")
      /\ sending /\ Unconnected' /\ Connecting'
  <2>1. ready' = Append(ready, c) /\ UNCHANGED <<connects, connectOp>>
    BY <1>1, <1>2 DEF data
  <2> QED BY <1>2, <1>5, <1>6, <2>1, OperationEnds
<1>8. Readable' = Readable /\ Live' = Live
  BY Zenon, <1>2 DEF Readable, Live, FirstConnection
<1>9. ReceiveFlow' /\ ReceiveGoesOn'
  BY Zenon, <1>2, <1>7, <1>8, SameReceive
<1>10. SendFlow'
  <2> SUFFICES ASSUME Live, NoClear PROVE SendFlow'
    BY Zenon, <1>8 DEF SendFlow
  <2>1. /\ taken \o sendBuf = Numbers(accepted)
        /\ Len(sendOp) <= Len(sendBuf) /\ sendOp = SubSeq(sendBuf, 1, Len(sendOp))
        /\ sending <=> sendBuf # <<>>
        /\ finOut => finSent
        /\ finSent <=> requestShutdown /\ sendBuf = <<>>
    BY Zenon, <1>2, <1>7 DEF Flow, SendFlow
  <2>2. c.err = "ok" /\ c.data = data
    BY DEF Completion
  <2>3. n \in 1..Len(sendBuf)
    BY <1>3, <1>4, <2>1
  <2> DEFINE tail == SubSeq(sendBuf, n + 1, Len(sendBuf))
             k == Len(sendOp)
  <2>4. data \o tail = sendBuf /\ tail \in Seq(Nat)
    <3>1. k \in 0..Len(sendBuf) /\ n \in 0..k /\ n \in 0..Len(sendBuf)
      <4>1. Len(sendOp) <= Len(sendBuf)
        BY <2>1
      <4> QED BY <1>3, <1>4, <4>1
    <3>2. sendOp = SubSeq(sendBuf, 1, k)
      BY <2>1
    <3> HIDE DEF k
    <3>3. data = SubSeq(sendBuf, 1, n)
      BY <1>3, <1>5, <3>1, <3>2, HeadOfHead
    <3> QED BY <1>3, <3>1, <3>3, SplitBuffer
  <2> HIDE DEF tail
  <2>5. (taken \o data) \o tail = Numbers(accepted)
    <3>1. taken \in Seq(Nat) /\ data \in Seq(Nat) /\ tail \in Seq(Nat)
      BY Zenon, <1>3, <1>5, <2>4
    <3>2. (taken \o data) \o tail = taken \o (data \o tail)
      BY Zenon, <3>1, JoinBuffers
    <3> QED BY Zenon, <2>1, <2>4, <3>2
  <2>6. \A d \in Queued(ready', "send") :
          /\ d.err = "ok" /\ Len(d.data) \in 1..Len(sendBuf')
          /\ taken' \o SubSeq(sendBuf', Len(d.data) + 1, Len(sendBuf')) = Numbers(accepted')
    <3>1. taken' = taken \o data
      BY <1>1 DEF data
    <3>2. sendBuf' = sendBuf /\ accepted' = accepted
      BY <1>2
    <3>3. /\ c.err = "ok" /\ Len(c.data) \in 1..Len(sendBuf')
          /\ taken' \o SubSeq(sendBuf', Len(c.data) + 1, Len(sendBuf')) = Numbers(accepted')
      BY <1>5, <2>2, <2>3, <2>5, <3>1, <3>2 DEF tail
    <3> HIDE DEF c
    <3> QED BY Zenon, <1>7, <3>3
  <2>7. Queued(ready', "send") # {}
    BY <1>7
  <2> QED BY Zenon, <1>2, <2>1, <2>6, <2>7 DEF SendFlow
<1> QED BY <1>7, <1>9, <1>10 DEF Flow

\* A send fails only when the connection is lost: after the FIN there is
\* nothing left to send.
LEMMA KernelSendFailsFlow == ASSUME Inv, Flow, KernelSendFails PROVE Flow'
<1>1. PICK err \in LossErrors : ready' = Append(ready, Completion("send", err, <<>>))
  BY DEF KernelSendFails
<1>2. /\ sendOp # <<>> /\ (conn = "lost" \/ finOut)
      /\ UNCHANGED <<flags, sending, sendBuf, recvSide, conn, connectOp, wire, history>>
  BY DEF KernelSendFails
<1>3. err \in Errors
  BY ErrorsAssumption DEF Errors
<1>4. /\ Queued(ready', "recv") = Queued(ready, "recv")
      /\ sending /\ Unconnected' /\ Connecting'
  <2>1. UNCHANGED <<connects, connectOp>>
    BY <1>2
  <2> QED BY <1>1, <1>2, <1>3, <2>1, OperationEnds, ChunkFacts
<1>5. Readable' = Readable /\ Live' = Live
  BY Zenon, <1>2 DEF Readable, Live, FirstConnection
<1>6. ReceiveFlow' /\ ReceiveGoesOn'
  BY Zenon, <1>2, <1>4, <1>5, SameReceive
<1>7. ~(Live /\ NoClear)
  <2> SUFFICES ASSUME Live, NoClear PROVE FALSE
    OBVIOUS
  <2>1. finOut
    BY <1>2 DEF Live
  <2> QED BY Zenon, <1>4, <2>1 DEF Flow, SendFlow
<1>8. SendFlow'
  BY Zenon, <1>5, <1>7 DEF SendFlow
<1> QED BY <1>4, <1>6, <1>8 DEF Flow

\* The bytes that the kernel hands over follow those handed over before.
LEMMA KernelReceivesFlow == ASSUME Inv, Flow, KernelReceives PROVE Flow'
<1>1. PICK n \in 1..Smaller(ChunkSize, Len(incoming) - consumed) :
        /\ consumed' = consumed + n
        /\ ready' = Append(ready, Completion("recv", "ok",
                             SubSeq(incoming, consumed + 1, consumed + n)))
  BY DEF KernelReceives
<1> DEFINE data == SubSeq(incoming, consumed + 1, consumed + n)
           c == Completion("recv", "ok", data)
<1>2. /\ recvOp
      /\ UNCHANGED <<flags, sendSide, receiving, recvBuf, conn, connectOp, taken,
                     finOut, incoming, finIn, peerConsumed, history>>
  BY DEF KernelReceives
<1>3. incoming \in Seq(Nat) /\ consumed \in 0..Len(incoming)
  BY DEF Inv, TypeOK, WireType
<1>4. n \in Nat /\ n <= ChunkSize /\ consumed + n <= Len(incoming)
  BY <1>3, SizesAssumption DEF Smaller
<1>5. /\ data \in Chunks
      /\ SubSeq(incoming, 1, consumed) \o data = SubSeq(incoming, 1, consumed + n)
  <2>1. /\ data \in Seq(Nat)
        /\ SubSeq(incoming, 1, consumed) \o data = SubSeq(incoming, 1, consumed + n)
    BY <1>3, <1>4, ContinueStream
  <2>2. Len(data) = n
    BY <1>3, <1>4
  <2> HIDE DEF data
  <2> QED BY <1>4, <2>1, <2>2 DEF Chunks
<1>6. /\ ready' = Append(ready, c) /\ consumed' = consumed + n /\ "ok" \in Errors
      /\ c.data = data /\ c.err = "ok"
  BY <1>1 DEF Errors, Completion
<1> HIDE DEF data
<1>7. /\ Queued(ready, "recv") = {} /\ Queued(ready', "recv") = {c}
      /\ Queued(ready', "send") = Queued(ready, "send")
      /\ receiving /\ Unconnected' /\ Connecting'
  <2>1. UNCHANGED <<connects, connectOp>>
    BY <1>2
  <2> QED BY <1>2, <1>5, <1>6, <2>1, OperationEnds
<1> HIDE DEF c
<1>8. Readable' = Readable /\ Live' = Live
  BY Zenon, <1>2 DEF Readable, Live, FirstConnection
<1>9. SendFlow'
  BY Zenon, <1>2, <1>7, <1>8, SameSend
<1>10. ReceiveFlow'
  <2> SUFFICES ASSUME Readable PROVE ReceiveFlow'
    BY Zenon, <1>8 DEF ReceiveFlow
  <2>1. delivered \o recvBuf = SubSeq(incoming, 1, consumed)
    BY Zenon, <1>7 DEF Flow, ReceiveFlow
  <2>2. delivered' \o recvBuf' \o c.data = SubSeq(incoming', 1, consumed')
    BY <1>2, <1>5, <1>6, <2>1
  <2> QED BY <1>6, <1>7, <2>2 DEF ReceiveFlow
<1>11. ReceiveGoesOn'
  BY <1>2, <1>6, <1>7, <1>8 DEF Flow, ReceiveGoesOn
<1> QED BY <1>7, <1>9, <1>10, <1>11 DEF Flow

\* A receive ends without bytes at the peer's FIN, or when the connection is
\* lost.
LEMMA ReceiveEnds ==
  ASSUME Inv, Flow, NEW err \in Errors \ {"ok"}, recvOp,
         ready' = Append(ready, Completion("recv", err, <<>>)), recvOp' = FALSE,
         UNCHANGED <<flags, sendSide, receiving, recvBuf, conn, connectOp, wire, history>>,
         conn = "est" => err = "eof" /\ finIn /\ consumed = Len(incoming)
  PROVE  Flow'
<1> DEFINE c == Completion("recv", err, <<>>)
<1>1. /\ Queued(ready, "recv") = {} /\ Queued(ready', "recv") = {c}
      /\ Queued(ready', "send") = Queued(ready, "send")
      /\ receiving /\ Unconnected' /\ Connecting'
  <2>1. UNCHANGED <<connects, connectOp>>
    OBVIOUS
  <2> QED BY <2>1, OperationEnds, ChunkFacts
<1>2. c.data = <<>> /\ c.err = err
  BY DEF Completion
<1> HIDE DEF c
<1>3. Readable' = Readable /\ Live' = Live
  BY Zenon DEF Readable, Live, FirstConnection
<1>4. SendFlow'
  BY Zenon, <1>1, <1>3, SameSend
<1>5. ReceiveFlow'
  <2> SUFFICES ASSUME Readable PROVE ReceiveFlow'
    BY Zenon, <1>3 DEF ReceiveFlow
  <2>1. delivered \o recvBuf = SubSeq(incoming, 1, consumed)
    BY Zenon, <1>1 DEF Flow, ReceiveFlow
  <2>2. (delivered \o recvBuf) \o <<>> = delivered \o recvBuf
    <3>1. delivered \in Seq(Nat) /\ recvBuf \in Seq(Nat)
      BY DEF Inv, TypeOK, HistoryType, BuffersType
    <3> QED BY <3>1, JoinBuffers, ConcatEmptySeq
  <2>3. delivered' \o recvBuf' \o c.data = SubSeq(incoming', 1, consumed')
    BY <1>2, <2>1, <2>2
  <2> QED BY <1>1, <1>2, <2>3 DEF ReceiveFlow
<1>6. ReceiveGoesOn'
  <2> SUFFICES ASSUME Live PROVE ReceiveGoesOn'
    BY Zenon, <1>3 DEF ReceiveGoesOn
  <2>1. err = "eof" /\ finIn /\ consumed = Len(incoming)
    BY DEF Live
  <2> QED BY <1>1, <1>2, <1>3, <2>1 DEF Flow, ReceiveGoesOn
<1> QED BY <1>1, <1>4, <1>5, <1>6 DEF Flow

\* The peer's FIN has been received.
LEMMA KernelReceivesFinFlow == ASSUME Inv, Flow, KernelReceivesFin PROVE Flow'
<1>1. "eof" \in Errors \ {"ok"}
  BY DEF Errors
<1> QED BY Zenon, <1>1, ReceiveEnds DEF KernelReceivesFin

\* The receive fails on a lost connection.
LEMMA KernelReceiveFailsFlow == ASSUME Inv, Flow, KernelReceiveFails PROVE Flow'
<1>1. PICK err \in LossErrors : ready' = Append(ready, Completion("recv", err, <<>>))
  BY DEF KernelReceiveFails
<1>2. err \in Errors \ {"ok"} /\ conn # "est"
  BY ErrorsAssumption DEF Errors, KernelReceiveFails
<1>3. /\ recvOp /\ recvOp' = FALSE
      /\ UNCHANGED <<flags, sendSide, receiving, recvBuf, conn, connectOp, wire, history>>
  BY DEF KernelReceiveFails
<1> QED BY Zenon, <1>1, <1>2, <1>3, ReceiveEnds

\* What has been received of a lost connection stays readable.
LEMMA ConnectionLostFlow == ASSUME Inv, Flow, ConnectionLost PROVE Flow'
<1>1. /\ conn = "est" /\ conn' = "lost"
      /\ UNCHANGED <<flags, sendSide, recvSide, connectOp, ready, wire, history>>
  BY DEF ConnectionLost
<1>2. connects # 0 /\ conn # "closed" /\ conn' # "est"
  BY <1>1 DEF Flow, Unconnected
<1>3. ConnectPending' = ConnectPending
  BY Zenon, <1>1 DEF ConnectPending
<1>4. Unconnected'
  BY <1>1, <1>2 DEF Unconnected
<1>5. Connecting'
  BY Zenon, <1>1, <1>2, <1>3 DEF Flow, Connecting
<1>6. Readable' => Readable
  BY <1>1 DEF Readable, FirstConnection
<1>7. ~Live'
  BY <1>2 DEF Live
<1>8. ReceiveFlow'
  BY Zenon, <1>1, <1>6 DEF Flow, ReceiveFlow
<1> QED BY <1>4, <1>5, <1>7, <1>8 DEF Flow, ReceiveGoesOn, SendFlow

\* What the peer sends arrives behind what has been received.
LEMMA PeerSendsFlow == ASSUME Inv, Flow, PeerSends PROVE Flow'
<1>1. /\ conn = "est" /\ ~finIn /\ incoming' = Append(incoming, Len(incoming) + 1)
      /\ UNCHANGED <<flags, sendSide, recvSide, conn, connectOp, ready, taken,
                     finOut, finIn, consumed, peerConsumed, history>>
  BY DEF PeerSends
<1>2. incoming \in Seq(Nat) /\ consumed \in 0..Len(incoming)
  BY DEF Inv, TypeOK, WireType
<1>3. SubSeq(incoming', 1, consumed') = SubSeq(incoming, 1, consumed)
  <2>1. <<Len(incoming) + 1>> \in Seq(Nat)
    BY <1>2
  <2>2. incoming' = incoming \o <<Len(incoming) + 1>>
    BY <1>1, <1>2, AppendIsConcat
  <2> DEFINE t == <<Len(incoming) + 1>>
  <2> HIDE DEF t
  <2>3. SubSeq(incoming \o t, 1, consumed) = SubSeq(incoming, 1, consumed)
    BY <1>2, <2>1, ExtendBuffer DEF t
  <2> QED BY <1>1, <2>2, <2>3 DEF t
<1>4. connects # 0
  <2>1. conn # "closed"
    BY <1>1
  <2> QED BY Zenon, <2>1 DEF Flow, Unconnected
<1>5. Unconnected' /\ Connecting'
  BY Zenon, <1>1, <1>4, SamePhase
<1>6. Readable' = Readable /\ Live' = Live
  BY Zenon, <1>1 DEF Readable, Live, FirstConnection
<1>7. ReceiveFlow'
  BY Zenon, <1>1, <1>3, <1>6 DEF Flow, ReceiveFlow
<1>8. ReceiveGoesOn'
  BY Zenon, <1>1, <1>6 DEF Flow, ReceiveGoesOn
<1>9. SendFlow'
  BY Zenon, <1>1, <1>6, SameSend
<1> QED BY <1>5, <1>7, <1>8, <1>9 DEF Flow

\* The peer's FIN follows what it sent.
LEMMA PeerShutsDownFlow == ASSUME Inv, Flow, PeerShutsDown PROVE Flow'
<1>1. /\ conn = "est" /\ finIn' = TRUE
      /\ UNCHANGED <<flags, sendSide, recvSide, conn, connectOp, ready, taken,
                     finOut, incoming, consumed, peerConsumed, history>>
  BY DEF PeerShutsDown
<1>2. connects # 0
  <2>1. conn # "closed"
    BY <1>1
  <2> QED BY Zenon, <2>1 DEF Flow, Unconnected
<1>3. Unconnected' /\ Connecting'
  BY Zenon, <1>1, <1>2, SamePhase
<1>4. Readable' = Readable /\ Live' = Live
  BY Zenon, <1>1 DEF Readable, Live, FirstConnection
<1>5. ReceiveFlow'
  BY Zenon, <1>1, <1>4 DEF Flow, ReceiveFlow
<1>6. ReceiveGoesOn'
  BY Zenon, <1>1, <1>4 DEF Flow, ReceiveGoesOn
<1>7. SendFlow'
  BY Zenon, <1>1, <1>4, SameSend
<1> QED BY <1>3, <1>5, <1>6, <1>7 DEF Flow

\* Nothing but what the peer has read changes.
LEMMA IdleFlow ==
  ASSUME Inv, Flow,
         UNCHANGED <<flags, sendSide, recvSide, conn, connectOp, ready, taken, finOut,
                     incoming, finIn, consumed, history>>
  PROVE  Flow'
<1>1. Unconnected' /\ Connecting'
  BY Zenon, SamePhase
<1>2. Readable' = Readable /\ Live' = Live
  BY Zenon DEF Readable, Live, FirstConnection
<1>3. ReceiveFlow' /\ ReceiveGoesOn'
  BY Zenon, <1>2, SameReceive
<1>4. SendFlow'
  BY Zenon, <1>2, SameSend
<1> QED BY <1>1, <1>3, <1>4 DEF Flow

-----------------------------------------------------------------------------
(* The specification.                                                      *)

\* What flows through the socket is inductive.
LEMMA NextFlow == Inv /\ Flow /\ [Next]_vars => Flow'
<1> SUFFICES ASSUME Inv, Flow, [Next]_vars PROVE Flow'
  OBVIOUS
<1>1. CASE ApplicationStep
  BY Zenon, <1>1, ConnectFlow, SetInternalSocketFlow, ShutdownFlow, CloseFlow,
     ResetFlow, ClearBuffersFlow, SendFlows, ReceiveFlows DEF ApplicationStep
<1>2. CASE HandlerStep
  BY <1>2, HandlerStepFlow
<1>3. CASE KernelStep
  BY Zenon, <1>3, KernelConnectsFlow, KernelConnectFailsFlow, KernelSendsFlow,
     KernelSendFailsFlow, KernelReceivesFlow, KernelReceivesFinFlow,
     KernelReceiveFailsFlow, ConnectionLostFlow DEF KernelStep
<1>4. CASE PeerStep
  BY Zenon, <1>4, PeerSendsFlow, PeerShutsDownFlow, IdleFlow DEF PeerStep, PeerReceives
<1>5. CASE UNCHANGED vars
  BY Zenon, <1>5, IdleFlow DEF vars
<1> QED BY Zenon, <1>1, <1>2, <1>3, <1>4, <1>5 DEF Next

\* What flows through the socket, from InitFlow and NextFlow.
THEOREM FlowInvariance == Spec => []Flow
<1>1. Init => Flow
  BY InitFlow
<1>2. Inv /\ Flow /\ [Next]_vars => Flow'
  BY NextFlow
<1> QED BY <1>1, <1>2, Invariance, PTL DEF Spec

\* The bytes that a queued completion carries, if there is at most one.
LEMMA UnprocessedIs ==
  /\ \A op : Queued(ready, op) = {} => Unprocessed(op) = <<>>
  /\ \A op, c : Queued(ready, op) = {c} => Unprocessed(op) = c.data
BY DEF Unprocessed

\* Without the completion that waits for its handler there are no bytes.
LEMMA AtMostOne ==
  ASSUME Inv, NEW op \in {"send", "recv"}
  PROVE  \/ Queued(ready, op) = {} /\ Unprocessed(op) = <<>>
         \/ \E c \in Queued(ready, op) : Unprocessed(op) = c.data
<1>1. CASE Queued(ready, op) = {}
  BY <1>1, UnprocessedIs
<1>2. CASE Queued(ready, op) # {}
  BY <1>2 DEF Unprocessed
<1> QED BY <1>1, <1>2

\* During the first connection of the object the application reads the bytes
\* of the peer, all of them and in order (lines 125-136, 410-420).
THEOREM ReceiveSafe == Spec => [](FirstConnection => ReceiveIntegrity)
<1>1. Inv /\ Flow => (FirstConnection => ReceiveIntegrity)
  <2> SUFFICES ASSUME Inv, Flow, FirstConnection, connected, conn \in {"est", "lost"}
               PROVE  delivered \o recvBuf \o Unprocessed("recv") = SubSeq(incoming, 1, consumed)
    BY DEF ReceiveIntegrity
  <2>1. /\ Queued(ready, "recv") = {} => delivered \o recvBuf = SubSeq(incoming, 1, consumed)
        /\ \A c \in Queued(ready, "recv") :
             delivered \o recvBuf \o c.data = SubSeq(incoming, 1, consumed)
    BY Zenon DEF Flow, ReceiveFlow, Readable
  <2>2. (delivered \o recvBuf) \o <<>> = delivered \o recvBuf
    <3>1. delivered \in Seq(Nat) /\ recvBuf \in Seq(Nat)
      BY DEF Inv, TypeOK, HistoryType, BuffersType
    <3> QED BY <3>1, JoinBuffers, ConcatEmptySeq
  <2>3. \/ Queued(ready, "recv") = {} /\ Unprocessed("recv") = <<>>
        \/ \E c \in Queued(ready, "recv") : Unprocessed("recv") = c.data
    BY AtMostOne
  <2>4. CASE Queued(ready, "recv") = {} /\ Unprocessed("recv") = <<>>
    BY <2>1, <2>2, <2>4
  <2>5. ASSUME NEW c \in Queued(ready, "recv"), Unprocessed("recv") = c.data
        PROVE  delivered \o recvBuf \o Unprocessed("recv") = SubSeq(incoming, 1, consumed)
    <3>1. delivered \o recvBuf \o c.data = SubSeq(incoming, 1, consumed)
      BY Zenon, <2>1, <2>5
    <3> QED BY <2>5, <3>1
  <2> QED BY Zenon, <2>3, <2>4, <2>5
<1> QED BY <1>1, Invariance, FlowInvariance, PTL

\* Nor does receiving stall: Receive() resumes it after every pause (line 410).
THEOREM ReceiveResumes == Spec => [](FirstConnection => ReceiveNeverStalls)
<1>1. Flow => (FirstConnection => ReceiveNeverStalls)
  BY Zenon DEF Flow, ReceiveGoesOn, Live, ReceiveNeverStalls
<1> QED BY <1>1, FlowInvariance, PTL

\* If the application never clears the buffers, the bytes that Send() accepts
\* on the first connection are the bytes that the kernel takes, all of them
\* and in order (lines 40-80, 380-390).
THEOREM SendSafe ==
  ASSUME NoClear
  PROVE  Spec => [](FirstConnection => SendIntegrity)
<1>1. Inv /\ Flow => (FirstConnection => SendIntegrity)
  <2> SUFFICES ASSUME Inv, Flow, FirstConnection, connected, conn = "est"
               PROVE  taken \o SubSeq(sendBuf, Len(Unprocessed("send")) + 1, Len(sendBuf))
                        = [i \in 1..accepted |-> i]
    BY DEF SendIntegrity
  <2>1. /\ Queued(ready, "send") = {} => taken \o sendBuf = Numbers(accepted)
        /\ \A c \in Queued(ready, "send") :
             taken \o SubSeq(sendBuf, Len(c.data) + 1, Len(sendBuf)) = Numbers(accepted)
    BY Zenon DEF Flow, SendFlow, Live
  <2>2. SubSeq(sendBuf, Len(<<>>) + 1, Len(sendBuf)) = sendBuf
    <3>1. sendBuf \in Seq(Nat)
      BY DEF Inv, TypeOK, BuffersType
    <3> QED BY <3>1
  <2> QED BY <2>1, <2>2, AtMostOne DEF Numbers
<1> QED BY <1>1, Invariance, FlowInvariance, PTL

\* Nor does sending stall, and a put-off FIN has a completion to wait for.
THEOREM SendGoesOn ==
  ASSUME NoClear
  PROVE  Spec => [](FirstConnection => SendNeverStalls)
<1>1. Flow => (FirstConnection => SendNeverStalls)
  BY Zenon DEF Flow, SendFlow, Live, SendNeverStalls
<1> QED BY <1>1, FlowInvariance, PTL

\* The FIN follows the last byte that Send() accepted.
THEOREM FinIsLast ==
  ASSUME NoClear
  PROVE  Spec => [](FirstConnection => FinAfterData)
<1>1. Inv /\ Flow => (FirstConnection => FinAfterData)
  <2> SUFFICES ASSUME Inv, Flow, FirstConnection, connected, conn = "est", finOut
               PROVE  taken = [i \in 1..accepted |-> i]
    BY DEF FinAfterData
  <2>1. /\ Queued(ready, "send") = {} => taken \o sendBuf = Numbers(accepted)
        /\ sendBuf = <<>> /\ ~sending
    BY Zenon DEF Flow, SendFlow, Live
  <2>2. Queued(ready, "send") = {}
    BY Zenon, <2>1, QueuedNone DEF Inv, OneSendInFlight, Owned
  <2>3. taken \o <<>> = taken
    BY ConcatEmptySeq DEF Inv, TypeOK, WireType
  <2> QED BY <2>1, <2>2, <2>3 DEF Numbers
<1> QED BY <1>1, Invariance, FlowInvariance, PTL

\* If the application never calls Reset(), RemoteHasShutdown() means that all
\* the peer has sent is readable.
THEOREM EofIsLast ==
  ASSUME NoReset
  PROVE  Spec => [](FirstConnection => EofAfterData)
<1>1. Inv /\ Flow => (FirstConnection => EofAfterData)
  <2> SUFFICES ASSUME Inv, Flow, FirstConnection, connected, conn = "est", finReceived
               PROVE  finIn /\ delivered \o recvBuf = incoming
    BY DEF EofAfterData
  <2>1. finIn /\ consumed = Len(incoming) /\ ~receiving
    BY Zenon DEF Flow, ReceiveGoesOn, Live
  <2>2. Queued(ready, "recv") = {}
    BY Zenon, <2>1, QueuedNone DEF Inv, OneReceiveInFlight, Owned
  <2>3. delivered \o recvBuf = SubSeq(incoming, 1, consumed)
    BY <2>2 DEF Flow, ReceiveFlow, Readable
  <2>4. SubSeq(incoming, 1, Len(incoming)) = incoming
    BY DEF Inv, TypeOK, WireType
  <2> QED BY <2>1, <2>3, <2>4
<1> QED BY <1>1, Invariance, FlowInvariance, PTL

-----------------------------------------------------------------------------
(* SendHandler erases from send_buffer as many bytes as its operation was  *)
(* started with (TcpSocket.cpp:50).  With one io thread, on the first      *)
(* connection of an object whose application does not clear its buffers,   *)
(* the buffer holds that many, whatever calls and handlers ran in between. *)
(* What could have emptied it is the handler of a receive that failed with *)
(* a reset; the proof is about the order of the two in the queue.          *)

-----------------------------------------------------------------------------
(* The queue of completions, and what a reset may find behind it.          *)

\* The handler of a receive that failed with a reset empties send_buffer.
IsReset(c) == c.op = "recv" /\ c.err = "reset"
ResetQueued(q) == \E i \in 1..Len(q) : IsReset(q[i])

\* A completion of a send erases at most n bytes.
ErasesAtMost(c, n) == c.op = "send" => Len(c.data) <= n
Fits(q, n) == \A i \in 1..Len(q) : ErasesAtMost(q[i], n)

\* No send that is handled after a reset erases anything.
Ordered(q) ==
  \A i, j \in 1..Len(q) : j < i /\ IsReset(q[j]) => ErasesAtMost(q[i], 0)

Calm(q, n, mayReset) == Fits(q, n) /\ Ordered(q) /\ (ResetQueued(q) => mayReset)

\* The inductive invariant: a connection that is established has no reset
\* queued, and the operation in the kernel transmits bytes of the buffer.
EraseInv ==
  FirstConnection =>
    /\ Len(sendOp) <= Len(sendBuf)
    /\ conn = "closed" => sendOp = <<>>
    /\ Calm(ready, Len(sendBuf), conn # "est")

\* An empty queue is calm, and so is a calm queue for a longer buffer.
LEMMA CalmEmpty == ASSUME NEW n, NEW may PROVE Calm(<<>>, n, may)
BY DEF Calm, Fits, Ordered, ResetQueued

LEMMA CalmGrows ==
  ASSUME NEW q \in Seq(Completions), NEW n \in Nat, NEW m \in Nat, n <= m,
         NEW may \in BOOLEAN, NEW might \in BOOLEAN, may => might, Calm(q, n, may)
  PROVE  Calm(q, m, might)
<1>1. ASSUME NEW i \in 1..Len(q) PROVE Len(q[i].data) \in Nat
  <2>1. q[i] \in Completions
    OBVIOUS
  <2>2. q[i].data \in Chunks
    BY <2>1 DEF Completions
  <2> QED BY <2>2, ChunkFacts
<1>2. Fits(q, m)
  <2>1. \A x \in Nat : x <= n => x <= m
    OBVIOUS
  <2> QED BY Zenon, <1>1, <2>1 DEF Calm, Fits, ErasesAtMost
<1> QED BY Zenon, <1>2 DEF Calm

\* Queueing a completion that erases no more than the buffer holds, and nothing
\* if it comes after a reset.
LEMMA CalmAppend ==
  ASSUME NEW q \in Seq(Completions), NEW c \in Completions, NEW n \in Nat,
         NEW may \in BOOLEAN, Calm(q, n, may), ErasesAtMost(c, n),
         may => ErasesAtMost(c, 0), IsReset(c) => may
  PROVE  Calm(Append(q, c), n, may)
<1> DEFINE r == Append(q, c)
<1>1. /\ Len(r) = Len(q) + 1 /\ Len(q) \in Nat
      /\ \A i \in 1..Len(q) : r[i] = q[i]
      /\ r[Len(q) + 1] = c
  OBVIOUS
<1>2. \A i \in 1..Len(r) : i \in 1..Len(q) \/ i = Len(q) + 1
  BY <1>1
<1> HIDE DEF r
<1>3. Fits(r, n)
  BY Zenon, <1>1, <1>2 DEF Fits, Calm
<1>4. ResetQueued(r) => may
  BY Zenon, <1>1, <1>2 DEF ResetQueued, Calm
<1>5. Ordered(r)
  <2> SUFFICES ASSUME NEW i \in 1..Len(r), NEW j \in 1..Len(r), j < i, IsReset(r[j])
               PROVE  ErasesAtMost(r[i], 0)
    BY Zenon DEF Ordered
  <2>1. j \in 1..Len(q)
    BY <1>1
  <2>2. r[j] = q[j] /\ IsReset(q[j])
    BY Zenon, <1>1, <2>1
  <2>3. CASE i \in 1..Len(q)
    BY Zenon, <1>1, <2>1, <2>2, <2>3 DEF Ordered, Calm
  <2>4. CASE i = Len(q) + 1
    <3>1. may
      BY Zenon, <2>1, <2>2 DEF Calm, ResetQueued
    <3> QED BY Zenon, <1>1, <2>4, <3>1
  <2> QED BY Zenon, <1>2, <2>3, <2>4
<1> QED BY Zenon, <1>3, <1>4, <1>5 DEF Calm, r

\* A completion without bytes disturbs nothing.
LEMMA CalmPost ==
  ASSUME NEW q \in Seq(Completions), NEW op \in {"connect", "send", "recv"},
         NEW err \in Errors, NEW cond, NEW n \in Nat, NEW may \in BOOLEAN,
         op = "recv" /\ err = "reset" => may, Calm(q, n, may)
  PROVE  /\ PostIf(cond, q, Completion(op, err, <<>>)) \in Seq(Completions)
         /\ Calm(PostIf(cond, q, Completion(op, err, <<>>)), n, may)
<1> DEFINE c == Completion(op, err, <<>>)
<1>1. c \in Completions
  BY ChunkFacts DEF Completions, Completion
<1>2. ErasesAtMost(c, n) /\ ErasesAtMost(c, 0) /\ (IsReset(c) => may)
  BY DEF ErasesAtMost, IsReset, Completion
<1> HIDE DEF c
<1>3. Calm(Append(q, c), n, may) /\ Append(q, c) \in Seq(Completions)
  <2>1. Calm(Append(q, c), n, may)
    BY <1>1, <1>2, CalmAppend
  <2> QED BY <1>1, <2>1
<1>4. PostIf(cond, q, c) \in {q, Append(q, c)}
  BY DEF PostIf
<1> QED BY Zenon, <1>3, <1>4 DEF c

\* So do operations that fail to start, and those that a Close() aborts.
LEMMA CalmStarted ==
  ASSUME NEW q \in Seq(Completions), NEW op \in {"send", "recv"}, NEW go,
         NEW n \in Nat, NEW may \in BOOLEAN, Calm(q, n, may)
  PROVE  Started(op, go, q) \in Seq(Completions) /\ Calm(Started(op, go, q), n, may)
<1>1. "other" \in Errors /\ op \in {"connect", "send", "recv"}
  BY DEF Errors
<1> DEFINE cond == go /\ conn = "closed"
<1>2. PICK x : x = cond
  OBVIOUS
<1>3. /\ PostIf(x, q, Completion(op, "other", <<>>)) \in Seq(Completions)
      /\ Calm(PostIf(x, q, Completion(op, "other", <<>>)), n, may)
  BY <1>1, CalmPost
<1> QED BY <1>2, <1>3 DEF Started

LEMMA CalmAborted ==
  ASSUME NEW q \in Seq(Completions), NEW n \in Nat, NEW may \in BOOLEAN, Calm(q, n, may)
  PROVE  AbortAll(q) \in Seq(Completions) /\ Calm(AbortAll(q), n, may)
<1>1. ASSUME NEW p \in Seq(Completions), NEW op \in {"connect", "send", "recv"},
             NEW out, Calm(p, n, may)
      PROVE  Abort(op, out, p) \in Seq(Completions) /\ Calm(Abort(op, out, p), n, may)
  <2>1. "aborted" \in Errors
    BY DEF Errors
  <2>2. /\ PostIf(out, p, Completion(op, "aborted", <<>>)) \in Seq(Completions)
        /\ Calm(PostIf(out, p, Completion(op, "aborted", <<>>)), n, may)
    BY <1>1, <2>1, CalmPost
  <2> QED BY <2>2 DEF Abort
<1> DEFINE q1 == Abort("recv", recvOp, q)
           q2 == Abort("connect", connectOp, q1)
<1>2. q1 \in Seq(Completions) /\ Calm(q1, n, may)
  BY <1>1
<1> HIDE DEF q1
<1>3. q2 \in Seq(Completions) /\ Calm(q2, n, may)
  BY <1>1, <1>2
<1> HIDE DEF q2
<1>4. Abort("send", sendOp # <<>>, q2) \in Seq(Completions)
      /\ Calm(Abort("send", sendOp # <<>>, q2), n, may)
  BY <1>1, <1>3
<1> QED BY <1>4 DEF AbortAll, q1, q2

\* Running the first completion keeps the rest calm; behind a reset nothing is
\* left to erase.
LEMMA CalmRun ==
  ASSUME NEW q \in Seq(Completions), Len(q) >= 1, NEW n \in Nat, NEW may \in BOOLEAN,
         Calm(q, n, may)
  PROVE  /\ RemoveAt(q, 1) \in Seq(Completions)
         /\ Calm(RemoveAt(q, 1), n, may)
         /\ IsReset(q[1]) => Calm(RemoveAt(q, 1), 0, may)
<1> DEFINE r == RemoveAt(q, 1)
<1>1. /\ r \in Seq(Completions) /\ Len(r) = Len(q) - 1
      /\ \A i \in 1..Len(q) - 1 : r[i] = q[IF i < 1 THEN i ELSE i + 1]
  <2>1. 1 \in 1..Len(q)
    OBVIOUS
  <2> QED BY <2>1, RemoveAtFacts
<1> HIDE DEF r
<1>2. /\ \A i \in 1..Len(r) : i + 1 \in 1..Len(q) /\ r[i] = q[i + 1] /\ 1 < i + 1
      /\ \A i, j \in 1..Len(r) : j < i => j + 1 < i + 1
      /\ 1 \in 1..Len(q)
  BY <1>1
<1>3. Fits(r, n) /\ (ResetQueued(r) => may)
  BY Zenon, <1>2 DEF Calm, Fits, ResetQueued
<1>4. Ordered(r)
  BY Zenon, <1>2 DEF Calm, Ordered
<1>5. IsReset(q[1]) => Fits(r, 0)
  BY Zenon, <1>2 DEF Calm, Ordered, Fits
<1> QED BY Zenon, <1>1, <1>3, <1>4, <1>5 DEF Calm, r

\* A queue without sends fits every buffer.
LEMMA CalmWithoutSends ==
  ASSUME NEW q \in Seq(Completions), NEW n \in Nat, NEW m \in Nat, NEW may \in BOOLEAN,
         Calm(q, n, may), Queued(q, "send") = {}
  PROVE  Calm(q, m, may)
<1>1. \A i \in 1..Len(q) : q[i].op # "send"
  BY DEF Queued, Range
<1> QED BY Zenon, <1>1 DEF Calm, Fits, ErasesAtMost

-----------------------------------------------------------------------------
(* The steps of the specification.                                         *)

\* The operation in the kernel, the buffer and the queue stay, or another
\* completion without bytes is queued.
LEMMA SameErase ==
  ASSUME Inv, EraseInv, FirstConnection' => FirstConnection,
         UNCHANGED <<sendOp, sendBuf>>, conn' = conn \/ (conn' # "closed" /\ conn' # "est"),
         FirstConnection => Calm(ready', Len(sendBuf), conn # "est")
  PROVE  EraseInv'
<1> SUFFICES ASSUME FirstConnection'
             PROVE  /\ Len(sendOp') <= Len(sendBuf')
                    /\ conn' = "closed" => sendOp' = <<>>
                    /\ Calm(ready', Len(sendBuf'), conn' # "est")
  BY Zenon DEF EraseInv
<1>1. /\ Len(sendOp) <= Len(sendBuf) /\ (conn = "closed" => sendOp = <<>>)
      /\ Calm(ready', Len(sendBuf), conn # "est")
  BY Zenon DEF EraseInv
<1>2. Calm(ready', Len(sendBuf), conn' # "est")
  <2>1. conn # "est" => conn' # "est"
    OBVIOUS
  <2> QED BY Zenon, <1>1, <2>1 DEF Calm
<1> QED BY Zenon, <1>1, <1>2

\* Nothing that concerns the send side happens.
LEMMA IdleErase ==
  ASSUME Inv, EraseInv, UNCHANGED <<connects, sendOp, sendBuf, ready>>,
         conn' = conn \/ (conn' # "closed" /\ conn' # "est")
  PROVE  EraseInv'
<1>1. (FirstConnection' => FirstConnection) /\ ready' = ready
  BY DEF FirstConnection
<1>2. FirstConnection => Calm(ready', Len(sendBuf), conn # "est")
  BY Zenon, <1>1 DEF EraseInv
<1> QED BY Zenon, <1>1, <1>2, SameErase

LEMMA InitErase == Init => EraseInv
<1> SUFFICES ASSUME Init PROVE EraseInv
  OBVIOUS
<1>1. sendOp = <<>> /\ sendBuf = <<>> /\ ready = <<>> /\ Len(<<>>) <= Len(<<>>)
  BY DEF Init
<1> QED BY <1>1, CalmEmpty DEF EraseInv

\* The first Connect() finds nothing queued; a later one is not the first
\* connection.
LEMMA ConnectErase == ASSUME Inv, Flow, EraseInv, Connect PROVE EraseInv'
<1>1. connects \in Nat /\ connects' = connects + 1 /\ sendBuf' = <<>> /\ sendOp' = sendOp
  BY DEF Connect, Inv, TypeOK, HistoryType
<1>2. CASE connects # 0
  <2>1. ~FirstConnection'
    BY <1>1, <1>2 DEF FirstConnection
  <2> QED BY <2>1 DEF EraseInv
<1>3. CASE connects = 0
  <2>1. sendOp = <<>> /\ conn = "closed" /\ ready = <<>>
    BY Zenon, <1>3 DEF Flow, Unconnected
  <2>2. ready' = <<>>
    BY <2>1 DEF Connect
  <2>3. Calm(ready', Len(sendBuf'), conn' # "est")
    BY <2>2, CalmEmpty
  <2> QED BY <1>1, <2>1, <2>3 DEF EraseInv
<1> QED BY <1>2, <1>3

LEMMA SetInternalSocketErase ==
  ASSUME Inv, Flow, EraseInv, SetInternalSocket PROVE EraseInv'
<1>1. connects = 0 /\ ready' = ready /\ sendOp' = sendOp /\ sendBuf' = sendBuf
      /\ conn' = "est"
  BY DEF SetInternalSocket
<1>2. sendOp = <<>> /\ ready = <<>>
  BY Zenon, <1>1 DEF Flow, Unconnected
<1>3. Calm(ready', Len(sendBuf'), conn' # "est")
  BY <1>1, <1>2, CalmEmpty
<1>4. Len(sendOp') <= Len(sendBuf')
  BY <1>1, <1>2 DEF Inv, TypeOK, BuffersType
<1> QED BY <1>1, <1>2, <1>3, <1>4 DEF EraseInv

\* Send() appends to the buffer, and starts what it has appended.
LEMMA SendErase ==
  ASSUME Inv, EraseInv, NEW n \in 1..MaxBytes, Send(n) PROVE EraseInv'
<1> DEFINE buf == sendBuf \o [i \in 1..n |-> accepted + i]
           go  == Flushed /\ SendIdle /\ CanSend(buf, connected, finSent)
<1>1. /\ buf \in Seq(Nat) /\ Len(sendBuf) <= Len(buf)
      /\ Len(sendBuf) \in Nat /\ Len(buf) \in Nat /\ ready \in Seq(Completions)
  BY SizesAssumption DEF Inv, TypeOK, BuffersType, HistoryType, ReadyType
<1>2. /\ connects' = connects /\ conn' = conn
      /\ IF go THEN BeginSend(buf, go) /\ ready' = Started("send", go, ready)
               ELSE sendBuf' = buf /\ UNCHANGED <<sending, sendOp, ready>>
  BY DEF Send
<1>3. PICK b : b = buf
  OBVIOUS
<1>4. PICK g \in BOOLEAN : g = go
  BY DEF Flushed, SendIdle, CanSend
<1> HIDE DEF buf, go
<1> SUFFICES ASSUME FirstConnection
             PROVE  /\ Len(sendOp') <= Len(sendBuf')
                    /\ conn' = "closed" => sendOp' = <<>>
                    /\ Calm(ready', Len(sendBuf'), conn' # "est")
  BY <1>2 DEF EraseInv, FirstConnection
<1>5. /\ Len(sendOp) <= Len(sendBuf) /\ (conn = "closed" => sendOp = <<>>)
      /\ Calm(ready, Len(sendBuf), conn # "est")
  BY Zenon DEF EraseInv
<1>6. Calm(ready, Len(b), conn # "est")
  BY <1>1, <1>3, <1>5, CalmGrows
<1>7. CASE g
  <2>1. BeginSend(b, g) /\ ready' = Started("send", g, ready)
    BY Zenon, <1>2, <1>3, <1>4, <1>7
  <2>2. b \in Seq(Nat)
    BY <1>1, <1>3
  <2>3. sendBuf' = b /\ Len(sendOp') <= Len(b) /\ (conn = "closed" => sendOp' = <<>>)
    <3>1. sendOp' = IF g /\ conn # "closed" THEN Prefix(b, ChunkSize) ELSE <<>>
      BY Zenon, <2>1 DEF BeginSend
    <3>2. Len(Prefix(b, ChunkSize)) <= Len(b) /\ Len(<<>>) <= Len(b)
      BY <2>2, PrefixType, SizesAssumption
    <3>3. sendBuf' = b
      BY Zenon, <2>1 DEF BeginSend
    <3> QED BY Zenon, <3>1, <3>2, <3>3
  <2>4. Calm(Started("send", g, ready), Len(b), conn # "est")
    BY <1>1, <1>3, <1>6, CalmStarted
  <2> QED BY Zenon, <1>2, <2>1, <2>3, <2>4
<1>8. CASE ~g
  <2>1. sendBuf' = b /\ sendOp' = sendOp /\ ready' = ready
    BY Zenon, <1>2, <1>3, <1>4, <1>8
  <2>2. Len(sendOp) \in Nat
    BY ChunkFacts DEF Inv, TypeOK, BuffersType
  <2>3. Len(sendOp) <= Len(b)
    BY <1>1, <1>3, <1>5, <2>2
  <2> QED BY Zenon, <1>2, <1>5, <1>6, <2>1, <2>3
<1> QED BY <1>7, <1>8

\* Receive() may resume receiving.
LEMMA ReceiveErase ==
  ASSUME Inv, EraseInv, NEW n \in 1..Len(recvBuf), Receive(n) PROVE EraseInv'
<1> DEFINE rest == Erase(recvBuf, n)
           go   == Resumes(rest) /\ ReceiveIdle /\ CanReceive(rest, connected, finReceived)
<1>1. /\ UNCHANGED <<connects, sendOp, sendBuf, conn>>
      /\ ready' \in {ready, Started("recv", go, ready)}
  BY DEF Receive
<1>2. PICK g : g = go
  OBVIOUS
<1> HIDE DEF go, rest
<1>3. ready \in Seq(Completions) /\ Len(sendBuf) \in Nat
  BY DEF Inv, TypeOK, BuffersType, ReadyType
<1>4. ASSUME FirstConnection PROVE Calm(ready', Len(sendBuf), conn # "est")
  <2>1. Calm(ready, Len(sendBuf), conn # "est")
    BY Zenon, <1>4 DEF EraseInv
  <2>2. Calm(Started("recv", g, ready), Len(sendBuf), conn # "est")
    BY <1>3, <2>1, CalmStarted
  <2> QED BY <1>1, <1>2, <2>1, <2>2
<1>5. FirstConnection' => FirstConnection
  BY Zenon, <1>1 DEF FirstConnection
<1> QED BY Zenon, <1>1, <1>4, <1>5, SameErase

\* Closing aborts what is outstanding, with completions without bytes.
LEMMA ClosedErase ==
  ASSUME NEW queue \in Seq(Completions), NEW n \in Nat, NEW may \in BOOLEAN,
         FirstConnection' => Calm(queue, n, may), sendBuf' \in Seq(Nat), Len(sendBuf') = n,
         CloseAsioSocket(queue)
  PROVE  EraseInv'
<1>1. conn' = "closed" /\ sendOp' = <<>> /\ ready' = AbortAll(queue)
  BY Zenon DEF CloseAsioSocket
<1>2. ASSUME FirstConnection' PROVE Calm(ready', Len(sendBuf'), conn' # "est")
  <2>1. /\ AbortAll(queue) \in Seq(Completions)
        /\ Calm(AbortAll(queue), n, may)
    BY <1>2, CalmAborted
  <2>2. may => TRUE
    OBVIOUS
  <2>3. Calm(AbortAll(queue), n, TRUE)
    BY Zenon, <2>1 DEF Calm
  <2> QED BY <1>1, <2>3
<1>3. Len(sendOp') <= Len(sendBuf')
  BY <1>1
<1> QED BY Zenon, <1>1, <1>2, <1>3 DEF EraseInv

LEMMA CloseErase == ASSUME Inv, EraseInv, Close PROVE EraseInv'
<1>1. /\ UNCHANGED <<sendBuf, connects>>
      /\ \/ UNCHANGED <<sendOp, conn, ready>>
         \/ CloseAsioSocket(ready)
  BY Zenon DEF Close
<1>2. ready \in Seq(Completions) /\ Len(sendBuf) \in Nat /\ sendBuf \in Seq(Nat)
  BY DEF Inv, TypeOK, BuffersType, ReadyType
<1>3. CASE UNCHANGED <<sendOp, conn, ready>>
  BY Zenon, <1>1, <1>3, IdleErase
<1>4. CASE CloseAsioSocket(ready)
  <2>1. PICK q : q = ready
    OBVIOUS
  <2>2. PICK n : n = Len(sendBuf)
    OBVIOUS
  <2>3. PICK may \in BOOLEAN : may = (conn # "est")
    OBVIOUS
  <2>4. FirstConnection' => Calm(q, n, may)
    BY Zenon, <1>1, <2>1, <2>2, <2>3 DEF EraseInv, FirstConnection
  <2> QED BY <1>1, <1>2, <1>4, <2>1, <2>2, <2>4, ClosedErase
<1> QED BY <1>1, <1>3, <1>4

\* A connect handler starts receiving and sending what Send() has queued.
LEMMA ConnectHandlerErase ==
  ASSUME Inv, EraseInv, NEW queue \in Seq(Completions), NEW c,
         FirstConnection => Calm(queue, Len(sendBuf), conn # "est"),
         ConnectHandler(c, queue)
  PROVE  EraseInv'
<1> DEFINE goRecv == CanReceive(recvBuf, TRUE, FALSE)
           goSend == CanSend(sendBuf, TRUE, FALSE)
<1>1. /\ UNCHANGED <<connects, conn>>
      /\ \/ /\ BeginSend(sendBuf, goSend) \/ UNCHANGED sendSide
            /\ ready' = Started("send", SendIdle /\ goSend,
                          Started("recv", ReceiveIdle /\ goRecv, queue))
         \/ UNCHANGED sendSide /\ ready' = queue
  BY DEF ConnectHandler
<1>2. PICK r : r = (ReceiveIdle /\ goRecv)
  OBVIOUS
<1>3. PICK s : s = (SendIdle /\ goSend)
  OBVIOUS
<1>4. PICK g \in BOOLEAN : g = goSend
  BY DEF CanSend
<1> HIDE DEF goRecv, goSend
<1>5. /\ sendBuf \in Seq(Nat) /\ Len(sendBuf) \in Nat
  BY DEF Inv, TypeOK, BuffersType
<1> SUFFICES ASSUME FirstConnection
             PROVE  /\ Len(sendOp') <= Len(sendBuf')
                    /\ conn' = "closed" => sendOp' = <<>>
                    /\ Calm(ready', Len(sendBuf'), conn' # "est")
  BY <1>1 DEF EraseInv, FirstConnection
<1>6. /\ Len(sendOp) <= Len(sendBuf) /\ (conn = "closed" => sendOp = <<>>)
  BY Zenon DEF EraseInv
<1>7. /\ Started("recv", r, queue) \in Seq(Completions)
      /\ Calm(Started("recv", r, queue), Len(sendBuf), conn # "est")
  BY <1>5, CalmStarted
<1>8. PICK q : q = Started("recv", r, queue)
  OBVIOUS
<1>9. Calm(Started("send", s, q), Len(sendBuf), conn # "est")
  BY <1>5, <1>7, <1>8, CalmStarted
<1>10. Calm(ready', Len(sendBuf), conn # "est")
  BY Zenon, <1>1, <1>2, <1>3, <1>8, <1>9
<1>11. /\ sendBuf' = sendBuf /\ Len(sendOp') <= Len(sendBuf)
       /\ conn = "closed" => sendOp' = <<>>
  <2>1. CASE BeginSend(sendBuf, g)
    <3>1. sendOp' = IF g /\ conn # "closed" THEN Prefix(sendBuf, ChunkSize) ELSE <<>>
      BY Zenon, <2>1 DEF BeginSend
    <3>2. Len(Prefix(sendBuf, ChunkSize)) <= Len(sendBuf) /\ Len(<<>>) <= Len(sendBuf)
      BY <1>5, PrefixType, SizesAssumption
    <3>3. sendBuf' = sendBuf
      BY Zenon, <2>1 DEF BeginSend
    <3> QED BY Zenon, <3>1, <3>2, <3>3
  <2>2. CASE UNCHANGED sendSide
    BY <1>6, <2>2
  <2> QED BY Zenon, <1>1, <1>4, <2>1, <2>2
<1> QED BY Zenon, <1>1, <1>10, <1>11

\* The handler of a send starts what is left of the buffer; no other send is
\* queued.
LEMMA SendHandlerErase ==
  ASSUME Inv, EraseInv, NEW queue \in Seq(Completions), NEW c \in Completions,
         FirstConnection => Calm(queue, Len(sendBuf), conn # "est"),
         Queued(queue, "send") = {}, sendOp = <<>>, SendHandler(c, queue)
  PROVE  EraseInv'
<1> DEFINE rest == Erase(sendBuf, Len(c.data))
           go   == CanSend(rest, connected, finSent)
<1>1. /\ connects' = connects
      /\ \/ UNCHANGED <<sendBuf, sendOp, conn>> /\ ready' = queue
         \/ /\ BeginSend(rest, go)
            /\ \/ rest = <<>> /\ FinishShutdown(queue)
               \/ ready' = Started("send", go, queue) /\ conn' = conn
  BY DEF SendHandler
<1>2. rest \in Seq(Nat) /\ sendBuf \in Seq(Nat) /\ Len(sendBuf) \in Nat
  <2>1. Len(c.data) \in Nat
    BY ChunkFacts DEF Completions
  <2> QED BY <2>1, EraseType DEF Inv, TypeOK, BuffersType
<1>3. PICK b \in Seq(Nat) : b = rest
  BY <1>2
<1>4. PICK g \in BOOLEAN : g = go /\ (rest = <<>> => ~g)
  BY DEF CanSend
<1> HIDE DEF rest, go
<1>5. FirstConnection => Calm(queue, Len(b), conn # "est")
  <2> SUFFICES ASSUME FirstConnection PROVE Calm(queue, Len(b), conn # "est")
    OBVIOUS
  <2>1. Len(b) \in Nat
    BY <1>3
  <2> QED BY <1>2, <2>1, CalmWithoutSends
<1>6. CASE UNCHANGED <<sendBuf, sendOp, conn>> /\ ready' = queue
  <2>1. FirstConnection' => FirstConnection
    BY <1>1 DEF FirstConnection
  <2> QED BY Zenon, <1>6, <2>1, SameErase
<1>7. CASE BeginSend(b, g) /\ b = <<>> /\ FinishShutdown(queue)
  <2>1. sendBuf' = b /\ sendOp' = <<>>
    BY Zenon, <1>3, <1>4, <1>7 DEF BeginSend
  <2>2. CASE CloseAsioSocket(queue)
    <3>1. PICK n \in Nat : n = Len(b)
      BY <1>3
    <3>2. PICK may \in BOOLEAN : may = (conn # "est")
      OBVIOUS
    <3>3. FirstConnection' => Calm(queue, n, may)
      BY Zenon, <1>1, <1>5, <3>1, <3>2 DEF FirstConnection
    <3> QED BY <1>3, <2>1, <2>2, <3>1, <3>3, ClosedErase
  <2>3. CASE ready' = queue /\ conn' = conn
    <3>1. FirstConnection' => Calm(ready', Len(sendBuf'), conn' # "est")
      BY Zenon, <1>1, <1>5, <2>1, <2>3 DEF FirstConnection
    <3>2. Len(sendOp') <= Len(sendBuf')
      BY <2>1, <1>7
    <3> QED BY Zenon, <2>1, <3>1, <3>2 DEF EraseInv
  <2>4. CloseAsioSocket(queue) \/ (ready' = queue /\ conn' = conn)
    BY <1>7 DEF FinishShutdown
  <2> QED BY Zenon, <2>2, <2>3, <2>4
<1>8. CASE BeginSend(b, g) /\ ready' = Started("send", g, queue) /\ conn' = conn
  <2>1. sendOp' = IF g /\ conn # "closed" THEN Prefix(b, ChunkSize) ELSE <<>>
    BY Zenon, <1>8 DEF BeginSend
  <2>2. Len(Prefix(b, ChunkSize)) <= Len(b) /\ Len(<<>>) <= Len(b)
    BY PrefixType, SizesAssumption
  <2>3. sendBuf' = b
    BY Zenon, <1>8 DEF BeginSend
  <2>4. Len(sendOp') <= Len(sendBuf') /\ (conn' = "closed" => sendOp' = <<>>)
    BY Zenon, <1>8, <2>1, <2>2, <2>3
  <2>5. FirstConnection => Calm(Started("send", g, queue), Len(b), conn # "est")
    <3> SUFFICES ASSUME FirstConnection
                 PROVE  Calm(Started("send", g, queue), Len(b), conn # "est")
      OBVIOUS
    <3>1. Len(b) \in Nat
      OBVIOUS
    <3> QED BY <1>5, <3>1, CalmStarted
  <2>6. FirstConnection' => Calm(ready', Len(sendBuf'), conn' # "est")
    BY Zenon, <1>1, <1>8, <2>3, <2>5 DEF FirstConnection
  <2> QED BY Zenon, <2>4, <2>6 DEF EraseInv
<1> QED BY Zenon, <1>1, <1>3, <1>4, <1>6, <1>7, <1>8

\* The handler of a receive that failed with a reset empties the buffer, and
\* nothing behind it erases any byte; the others leave the send side alone.
LEMMA ReceiveHandlerErase ==
  ASSUME Inv, EraseInv, NEW queue \in Seq(Completions), NEW c \in Completions,
         c.op = "recv",
         FirstConnection => /\ Calm(queue, Len(sendBuf), conn # "est")
                            /\ IsReset(c) => Calm(queue, 0, conn # "est"),
         ReceiveHandler(c, queue)
  PROVE  EraseInv'
<1>1. /\ connects' = connects
      /\ \/ /\ c.err = "reset" /\ sendBuf' = <<>>
            /\ \/ conn = "closed" /\ ready' = queue /\ UNCHANGED <<conn, sendOp>>
               \/ CloseAsioSocket(queue)
         \/ UNCHANGED <<sendBuf, sendOp, conn>> /\ ready' = queue
         \/ /\ UNCHANGED <<sendBuf, sendOp, conn>>
            /\ \E go \in BOOLEAN : ready' = Started("recv", go, queue)
  <2>1. \A buf, fin : CanReceive(buf, connected, fin) \in BOOLEAN
    BY DEF CanReceive
  <2> QED BY Zenon, <2>1 DEF ReceiveHandler
<1>2. (FirstConnection' <=> FirstConnection) /\ sendBuf \in Seq(Nat) /\ Len(sendBuf) \in Nat
  BY <1>1 DEF FirstConnection, Inv, TypeOK, BuffersType
<1>3. CASE c.err = "reset" /\ sendBuf' = <<>>
           /\ conn = "closed" /\ ready' = queue /\ UNCHANGED <<conn, sendOp>>
  <2>1. FirstConnection => Calm(queue, 0, conn # "est") /\ sendOp = <<>>
    BY Zenon, <1>3 DEF IsReset, EraseInv
  <2>2. Len(<<>>) <= Len(<<>>) /\ Len(<<>>) = 0
    OBVIOUS
  <2> QED BY Zenon, <1>2, <1>3, <2>1, <2>2 DEF EraseInv
<1>4. CASE c.err = "reset" /\ sendBuf' = <<>> /\ CloseAsioSocket(queue)
  <2>1. PICK may \in BOOLEAN : may = (conn # "est")
    OBVIOUS
  <2>2. PICK n \in Nat : n = 0
    OBVIOUS
  <2>3. FirstConnection' => Calm(queue, n, may)
    BY Zenon, <1>2, <1>4, <2>1, <2>2 DEF IsReset
  <2>4. sendBuf' \in Seq(Nat) /\ Len(sendBuf') = n
    BY <1>4, <2>2
  <2> QED BY <1>4, <2>3, <2>4, ClosedErase
<1>5. CASE UNCHANGED <<sendBuf, sendOp, conn>> /\ ready' = queue
  BY Zenon, <1>2, <1>5, SameErase
<1>6. ASSUME UNCHANGED <<sendBuf, sendOp, conn>>,
             NEW go \in BOOLEAN, ready' = Started("recv", go, queue)
      PROVE  EraseInv'
  <2>1. ASSUME FirstConnection PROVE Calm(ready', Len(sendBuf), conn # "est")
    <3>1. Calm(Started("recv", go, queue), Len(sendBuf), conn # "est")
      BY <1>2, <2>1, CalmStarted
    <3> QED BY <1>6, <3>1
  <2> QED BY Zenon, <1>2, <1>6, <2>1, SameErase
<1> QED BY Zenon, <1>1, <1>3, <1>4, <1>5, <1>6

\* One io thread runs the completions in order.
LEMMA HandlerStepErase ==
  ASSUME Inv, EraseInv, IoThreads = 1, HandlerStep PROVE EraseInv'
<1>1. PICK i \in 1..Smaller(IoThreads, Len(ready)) : RunHandler(i)
  BY DEF HandlerStep
<1>2. i = 1 /\ Len(ready) >= 1
  BY DEF Inv, TypeOK, ReadyType, Smaller
<1> DEFINE c == ready[1]
           queue == RemoveAt(ready, 1)
<1>3. ready \in Seq(Completions) /\ Len(sendBuf) \in Nat /\ 1 \in 1..Len(ready)
  BY <1>2 DEF Inv, TypeOK, ReadyType, BuffersType
<1>4. queue \in Seq(Completions) /\ c \in Completions
  BY <1>3, RemoveAtFacts
<1>5. ASSUME FirstConnection
      PROVE  /\ Calm(queue, Len(sendBuf), conn # "est")
             /\ IsReset(c) => Calm(queue, 0, conn # "est")
  <2>1. Calm(ready, Len(sendBuf), conn # "est")
    BY Zenon, <1>5 DEF EraseInv
  <2> QED BY <1>2, <1>3, <2>1, CalmRun
<1>6. \/ c.op = "connect" /\ ConnectHandler(c, queue)
      \/ c.op = "send" /\ SendHandler(c, queue)
      \/ c.op = "recv" /\ ReceiveHandler(c, queue)
  BY Zenon, <1>1, <1>2 DEF RunHandler
<1>7. ASSUME c.op = "send" PROVE Queued(queue, "send") = {} /\ sendOp = <<>>
  <2>1. Queued(RemoveAt(ready, 1), ready[1].op) = {}
    BY <1>3, <1>7, RunFacts
  <2>2. ~NoneQueued(ready, "send")
    <3>1. 1 \in DOMAIN ready
      BY <1>3
    <3> QED BY Zenon, <1>7, <3>1 DEF NoneQueued
  <2>3. sendOp = <<>>
    BY Zenon, <2>2 DEF Inv, OneSendInFlight, Owned
  <2> QED BY <1>7, <2>1, <2>3
<1> HIDE DEF c, queue
<1>8. PICK q \in Seq(Completions), d \in Completions : q = queue /\ d = c
  BY <1>4
<1>9. CASE c.op = "connect" /\ ConnectHandler(c, queue)
  <2>1. ConnectHandler(d, q) /\ (FirstConnection => Calm(q, Len(sendBuf), conn # "est"))
    BY Zenon, <1>5, <1>8, <1>9
  <2> QED BY <2>1, ConnectHandlerErase
<1>10. CASE c.op = "send" /\ SendHandler(c, queue)
  <2>1. /\ SendHandler(d, q) /\ (FirstConnection => Calm(q, Len(sendBuf), conn # "est"))
        /\ Queued(q, "send") = {} /\ sendOp = <<>>
    BY Zenon, <1>5, <1>7, <1>8, <1>10
  <2> QED BY <2>1, SendHandlerErase
<1>11. CASE c.op = "recv" /\ ReceiveHandler(c, queue)
  <2>1. /\ ReceiveHandler(d, q) /\ d.op = "recv"
        /\ FirstConnection => /\ Calm(q, Len(sendBuf), conn # "est")
                              /\ IsReset(d) => Calm(q, 0, conn # "est")
    BY Zenon, <1>5, <1>8, <1>11
  <2> QED BY <2>1, ReceiveHandlerErase
<1> QED BY Zenon, <1>6, <1>9, <1>10, <1>11

\* An operation that ends queues its completion.
LEMMA CompletedErase ==
  ASSUME Inv, EraseInv, NEW op \in {"connect", "send", "recv"}, NEW err \in Errors,
         NEW data \in Chunks, connects' = connects, sendBuf' = sendBuf,
         sendOp' = sendOp \/ sendOp' = <<>>,
         conn' = conn \/ (conn' # "closed" /\ (conn' = "est" => ready = <<>> /\ op # "recv")),
         ready' = Append(ready, Completion(op, err, data)),
         op = "recv" /\ err = "reset" => conn # "est",
         op = "send" => data = <<>> \/ (Len(data) <= Len(sendOp) /\ conn = "est")
  PROVE  EraseInv'
<1> SUFFICES ASSUME FirstConnection
             PROVE  /\ Len(sendOp') <= Len(sendBuf')
                    /\ conn' = "closed" => sendOp' = <<>>
                    /\ Calm(ready', Len(sendBuf'), conn' # "est")
  BY DEF EraseInv, FirstConnection
<1> DEFINE c == Completion(op, err, data)
<1>1. /\ Len(sendOp) <= Len(sendBuf) /\ (conn = "closed" => sendOp = <<>>)
      /\ Calm(ready, Len(sendBuf), conn # "est")
  BY Zenon DEF EraseInv
<1>2. /\ sendBuf \in Seq(Nat) /\ Len(sendBuf) \in Nat /\ ready \in Seq(Completions)
      /\ Len(sendOp) \in Nat /\ Len(data) \in Nat
  <2>1. sendBuf \in Seq(Nat) /\ sendOp \in Chunks /\ ready \in Seq(Completions)
    BY DEF Inv, TypeOK, BuffersType, ReadyType
  <2>2. sendOp \in Seq(Nat) /\ data \in Seq(Nat)
    BY Zenon, <2>1, ChunkFacts
  <2> QED BY <2>1, <2>2
<1>3. c \in Completions /\ c.op = op /\ c.err = err /\ c.data = data
  BY CompletionType DEF Completion
<1>4. Len(sendOp') <= Len(sendBuf') /\ (conn' = "closed" => sendOp' = <<>>)
  BY <1>1, <1>2
<1>5. op = "send" => Len(data) <= Len(sendBuf) /\ (conn # "est" => Len(data) <= 0)
  BY <1>1, <1>2
<1> HIDE DEF c
<1>6. ErasesAtMost(c, Len(sendBuf)) /\ (conn # "est" => ErasesAtMost(c, 0))
      /\ (IsReset(c) => conn # "est")
  BY Zenon, <1>3, <1>5 DEF ErasesAtMost, IsReset
<1>7. Calm(Append(ready, c), Len(sendBuf), conn # "est")
  BY <1>1, <1>2, <1>3, <1>6, CalmAppend
<1>8. CASE conn' = "est" => conn = "est"
  BY Zenon, <1>4, <1>7, <1>8 DEF Calm, c
<1>9. CASE ready = <<>> /\ op # "recv"
  <2>1. Calm(ready, Len(sendBuf), FALSE)
    BY <1>9, CalmEmpty
  <2>2. ~IsReset(c)
    BY Zenon, <1>3, <1>9 DEF IsReset
  <2>3. Calm(Append(ready, c), Len(sendBuf), FALSE)
    BY <1>2, <1>3, <1>6, <2>1, <2>2, CalmAppend
  <2> QED BY Zenon, <1>4, <2>3 DEF Calm, c
<1> QED BY Zenon, <1>8, <1>9

\* A connect ends with an empty queue before it.
LEMMA KernelConnectsErase == ASSUME Inv, Flow, EraseInv, KernelConnects PROVE EraseInv'
<1>1. /\ connectOp /\ conn' = "est" /\ UNCHANGED <<connects, sendBuf, sendOp>>
      /\ ready' = Append(ready, Completion("connect", "ok", <<>>))
  BY DEF KernelConnects
<1>2. FirstConnection => ready = <<>>
  <2>1. FirstConnection => connects \in {0, 1}
    BY DEF FirstConnection, Inv, TypeOK, HistoryType
  <2> QED BY Zenon, <1>1, <2>1 DEF Flow, Unconnected, Connecting, ConnectPending
<1>3. CASE FirstConnection
  <2>1. <<>> \in Chunks /\ "ok" \in Errors /\ ready = <<>>
    BY <1>2, <1>3, ChunkFacts DEF Errors
  <2> QED BY <1>1, <2>1, CompletedErase
<1>4. CASE ~FirstConnection
  BY <1>1, <1>4 DEF EraseInv, FirstConnection
<1> QED BY <1>3, <1>4

LEMMA KernelConnectFailsErase ==
  ASSUME Inv, EraseInv, KernelConnectFails PROVE EraseInv'
<1>1. PICK err \in LossErrors : ready' = Append(ready, Completion("connect", err, <<>>))
  BY DEF KernelConnectFails
<1>2. conn' = "lost" /\ UNCHANGED <<connects, sendBuf, sendOp>>
  BY DEF KernelConnectFails
<1>3. <<>> \in Chunks /\ err \in Errors
  BY ChunkFacts, ErrorsAssumption DEF Errors
<1> QED BY <1>1, <1>2, <1>3, CompletedErase

\* The kernel takes a head of what the operation holds.
LEMMA KernelSendsErase == ASSUME Inv, EraseInv, KernelSends PROVE EraseInv'
<1>1. PICK n \in 1..Smaller(Len(sendOp), NetCapacity - (Len(taken) - peerConsumed)) :
        ready' = Append(ready, Completion("send", "ok", Prefix(sendOp, n)))
  BY DEF KernelSends
<1>2. conn = "est" /\ conn' = conn /\ sendOp' = <<>> /\ UNCHANGED <<connects, sendBuf>>
  BY DEF KernelSends
<1>3. /\ sendOp \in Seq(Nat) /\ Len(sendOp) <= ChunkSize /\ Len(sendOp) \in Nat
      /\ ChunkSize \in Nat
  BY ChunkFacts, SizesAssumption DEF Inv, TypeOK, BuffersType
<1>4. n \in Nat
  OBVIOUS
<1>5. PICK data : data = Prefix(sendOp, n)
  OBVIOUS
<1>6. data \in Seq(Nat) /\ Len(data) <= Len(sendOp)
  BY <1>3, <1>4, <1>5, PrefixType
<1>7. data \in Chunks /\ "ok" \in Errors
  BY <1>3, <1>6 DEF Chunks, Errors
<1> QED BY <1>1, <1>2, <1>5, <1>6, <1>7, CompletedErase

LEMMA KernelSendFailsErase == ASSUME Inv, EraseInv, KernelSendFails PROVE EraseInv'
<1>1. PICK err \in LossErrors : ready' = Append(ready, Completion("send", err, <<>>))
  BY DEF KernelSendFails
<1>2. conn' = conn /\ sendOp' = <<>> /\ UNCHANGED <<connects, sendBuf>>
  BY DEF KernelSendFails
<1>3. <<>> \in Chunks /\ err \in Errors
  BY ChunkFacts, ErrorsAssumption DEF Errors
<1> QED BY <1>1, <1>2, <1>3, CompletedErase

LEMMA KernelReceivesErase == ASSUME Inv, EraseInv, KernelReceives PROVE EraseInv'
<1>1. PICK n \in 1..Smaller(ChunkSize, Len(incoming) - consumed) :
        ready' = Append(ready, Completion("recv", "ok",
                             SubSeq(incoming, consumed + 1, consumed + n)))
  BY DEF KernelReceives
<1>2. conn' = conn /\ UNCHANGED <<connects, sendBuf, sendOp>>
  BY DEF KernelReceives
<1>3. PICK data : data = SubSeq(incoming, consumed + 1, consumed + n)
  OBVIOUS
<1>4. data \in Chunks /\ "ok" \in Errors
  <2>1. incoming \in Seq(Nat) /\ consumed \in 0..Len(incoming) /\ ChunkSize \in Nat
    BY SizesAssumption DEF Inv, TypeOK, WireType
  <2>2. n \in Nat /\ n <= ChunkSize /\ consumed + n <= Len(incoming)
    BY <2>1 DEF Smaller
  <2>3. data \in Seq(Nat) /\ Len(data) = n
    BY <1>3, <2>1, <2>2
  <2> QED BY <2>2, <2>3 DEF Chunks, Errors
<1> QED BY <1>1, <1>2, <1>3, <1>4, CompletedErase

LEMMA KernelReceivesFinErase ==
  ASSUME Inv, EraseInv, KernelReceivesFin PROVE EraseInv'
<1>1. /\ conn' = conn /\ UNCHANGED <<connects, sendBuf, sendOp>>
      /\ ready' = Append(ready, Completion("recv", "eof", <<>>))
  BY DEF KernelReceivesFin
<1>2. <<>> \in Chunks /\ "eof" \in Errors
  BY ChunkFacts DEF Errors
<1> QED BY <1>1, <1>2, CompletedErase

\* Only a lost connection reports a reset.
LEMMA KernelReceiveFailsErase ==
  ASSUME Inv, EraseInv, KernelReceiveFails PROVE EraseInv'
<1>1. PICK err \in LossErrors : ready' = Append(ready, Completion("recv", err, <<>>))
  BY DEF KernelReceiveFails
<1>2. conn = "lost" /\ conn' = conn /\ UNCHANGED <<connects, sendBuf, sendOp>>
  BY DEF KernelReceiveFails
<1>3. <<>> \in Chunks /\ err \in Errors
  BY ChunkFacts, ErrorsAssumption DEF Errors
<1> QED BY <1>1, <1>2, <1>3, CompletedErase

-----------------------------------------------------------------------------
(* The specification.                                                      *)

LEMMA NextErase ==
  ASSUME NoClear, IoThreads = 1
  PROVE  Inv /\ Flow /\ EraseInv /\ [Next]_vars => EraseInv'
<1> SUFFICES ASSUME Inv, Flow, EraseInv, [Next]_vars PROVE EraseInv'
  OBVIOUS
<1>1. CASE ApplicationStep
  <2>1. ASSUME Shutdown \/ Reset PROVE EraseInv'
    <3>1. UNCHANGED <<connects, sendOp, sendBuf, ready, conn>>
      BY <2>1 DEF Shutdown, Reset
    <3> QED BY Zenon, <3>1, IdleErase
  <2>2. ~ClearBuffers
    BY DEF ClearBuffers, NoClear
  <2> QED BY Zenon, <1>1, <2>1, <2>2, ConnectErase, SetInternalSocketErase, CloseErase,
          SendErase, ReceiveErase DEF ApplicationStep
<1>2. CASE HandlerStep
  BY <1>2, HandlerStepErase
<1>3. CASE KernelStep
  <2>1. ASSUME ConnectionLost PROVE EraseInv'
    <3>1. UNCHANGED <<connects, sendOp, sendBuf, ready>> /\ conn' = "lost"
      BY <2>1 DEF ConnectionLost
    <3>2. conn' # "closed" /\ conn' # "est"
      BY <3>1
    <3> QED BY Zenon, <3>1, <3>2, IdleErase
  <2> QED BY Zenon, <1>3, <2>1, KernelConnectsErase, KernelConnectFailsErase,
          KernelSendsErase, KernelSendFailsErase, KernelReceivesErase,
          KernelReceivesFinErase, KernelReceiveFailsErase DEF KernelStep
<1>4. CASE PeerStep \/ UNCHANGED vars
  <2>1. UNCHANGED <<connects, sendOp, sendBuf, ready, conn>>
    BY <1>4 DEF PeerStep, PeerSends, PeerShutsDown, PeerReceives, vars
  <2> QED BY Zenon, <2>1, IdleErase
<1> QED BY Zenon, <1>1, <1>2, <1>3, <1>4 DEF Next

\* With one io thread, on the first connection of a socket whose application
\* does not call ClearBuffers(), SendHandler finds in send_buffer the bytes that
\* it erases (line 50), even if calls, a Close() or a reset came in between.
THEOREM EraseSafe ==
  ASSUME NoClear, IoThreads = 1
  PROVE  Spec => [](FirstConnection => EraseWithinBuffer)
<1>1. Init => EraseInv
  BY InitErase
<1>2. Inv /\ Flow /\ EraseInv /\ [Next]_vars => EraseInv'
  BY NextErase
<1>3. Inv /\ EraseInv => (FirstConnection => EraseWithinBuffer)
  <2> SUFFICES ASSUME Inv, EraseInv, FirstConnection, NEW i \in DOMAIN ready, ready[i].op = "send"
               PROVE  Len(ready[i].data) <= Len(sendBuf)
    BY DEF EraseWithinBuffer
  <2>1. i \in 1..Len(ready)
    BY DEF Inv, TypeOK, ReadyType
  <2>2. Fits(ready, Len(sendBuf))
    BY Zenon DEF EraseInv, Calm
  <2> QED BY Zenon, <2>1, <2>2 DEF Fits, ErasesAtMost
<1> QED BY <1>1, <1>2, <1>3, Invariance, FlowInvariance, PTL DEF Spec

-----------------------------------------------------------------------------
(* One connection, ended as TcpSocket.hpp:37 asks: Shutdown() once, Close() *)
(* when both sides have shut down.                                         *)

Graceful == NoClear /\ NoReset /\ MaxConnects = 1

GracefulStep ==
  \/ HandlerStep \/ KernelSends \/ KernelReceives \/ KernelReceivesFin
  \/ Connect \/ KernelConnects \/ SetInternalSocket
  \/ connects > 0 /\ \E n \in 1..MaxBytes : Send(n)
  \/ \E n \in 1..Len(recvBuf) : Receive(n)
  \/ ~requestShutdown /\ Shutdown
  \/ finSent /\ finReceived /\ Close

\* The course of the connection.  An open one loses nothing by Flow; a closed
\* one has sent and received everything.
Fresh == connects = 0 /\ accepted = 0 /\ ~finReceived

Opening ==
  /\ connects = 1 /\ ConnectPending
  /\ conn = (IF connectOp THEN "connecting" ELSE "est")
  /\ ~finReceived /\ ~finOut
  /\ \A c \in Queued(ready, "connect") : c.err = "ok"

Open == connects = 1 /\ ~ConnectPending /\ conn = "est" /\ connected

Done ==
  /\ connects = 1 /\ ~ConnectPending /\ conn = "closed" /\ ~connected
  /\ finSent /\ finReceived /\ requestShutdown
  /\ ~sending /\ sendBuf = <<>> /\ taken = Numbers(accepted) /\ finOut
  /\ ~receiving /\ finIn /\ consumed = Len(incoming)
  /\ delivered \o recvBuf = incoming

Course == Fresh \/ Opening \/ Open \/ Done

\* What a step does to what the two applications see of the two streams.
Unseen == UNCHANGED <<accepted, requestShutdown, delivered, recvBuf, finReceived>>
Writes ==
  /\ ~requestShutdown /\ accepted' > accepted
  /\ UNCHANGED <<requestShutdown, delivered, recvBuf, finReceived>>
Ends ==
  /\ ~requestShutdown /\ requestShutdown' = TRUE
  /\ UNCHANGED <<accepted, delivered, recvBuf, finReceived>>
Arrives ==
  /\ ~finReceived
  /\ \E data \in Seq(Nat) \ {<<>>} : recvBuf' = recvBuf \o data
  /\ UNCHANGED <<accepted, requestShutdown, delivered, finReceived>>
Reads ==
  /\ \E n \in 1..Len(recvBuf) :
       /\ delivered' = delivered \o SubSeq(recvBuf, 1, n)
       /\ recvBuf' = SubSeq(recvBuf, n + 1, Len(recvBuf))
  /\ UNCHANGED <<accepted, requestShutdown, finReceived>>
SeesEnd ==
  /\ ~finReceived /\ finReceived' = TRUE
  /\ UNCHANGED <<accepted, requestShutdown, delivered, recvBuf>>

Seen == Unseen \/ Writes \/ Ends \/ Arrives \/ Reads \/ SeesEnd

\* What a step does to the bytes that the other kernel will receive.
Sends ==
  /\ \E data \in Seq(Nat) : taken' = taken \o data /\ (finOut => data = <<>>)
  /\ finOut => finOut'

\* An operation is under way on an open connection only.
LEMMA BusyOpen == ASSUME Inv, Flow, Course, sending \/ receiving PROVE Open
<1>1. ~Fresh
  BY Zenon DEF Flow, Unconnected, Fresh
<1>2. ~Done
  BY DEF Done
<1>3. ~Opening
  BY Zenon DEF Flow, Connecting, Opening
<1> QED BY <1>1, <1>2, <1>3 DEF Course

LEMMA OpenFacts ==
  ASSUME Inv, Flow, Open
  PROVE  /\ Live /\ Readable /\ FirstConnection
         /\ ~connectOp /\ Queued(ready, "connect") = {} /\ conn # "closed"
BY DEF Open, Live, Readable, FirstConnection, ConnectPending

\* A step that keeps what was sent.
LEMMA SendsNothing ==
  ASSUME Inv, taken' = taken, finOut => finOut'
  PROVE  Sends
<1>1. taken \in Seq(Nat)
  BY DEF Inv, TypeOK, WireType
<1>2. taken \o <<>> = taken /\ <<>> \in Seq(Nat)
  BY <1>1, ConcatEmptySeq
<1> QED BY <1>2 DEF Sends

\* A step that keeps the connection open.
LEMMA StaysOpen ==
  ASSUME Inv, Flow, Open, UNCHANGED <<connects, connectOp, conn, connected>>,
         Queued(ready', "connect") = {}
  PROVE  Course'
<1>1. ~ConnectPending'
  BY OpenFacts DEF ConnectPending
<1> QED BY <1>1 DEF Course, Open

LEMMA ConnectCourse ==
  ASSUME Inv, Flow, Course, Graceful, Connect PROVE Course' /\ Seen /\ Sends
<1>1. Fresh
  BY DEF Connect, Graceful, Course, Opening, Open, Done
<1>2. /\ connects = 0 /\ conn = "closed" /\ ready = <<>> /\ ~requestShutdown
      /\ delivered = <<>> /\ recvBuf = <<>> /\ ~finOut /\ accepted = 0 /\ ~finReceived
  BY Zenon, <1>1 DEF Fresh, Flow, Unconnected
<1>3. /\ connects' = 1 /\ conn' = "connecting" /\ connectOp' = TRUE /\ ready' = ready
      /\ accepted' = 0 /\ delivered' = <<>> /\ recvBuf' = <<>>
      /\ UNCHANGED <<flags, wire>>
  BY <1>2 DEF Connect
<1>4. Queued(ready', "connect") = {}
  BY <1>2, <1>3 DEF Queued, Range
<1>5. Opening'
  BY <1>2, <1>3, <1>4 DEF Opening, ConnectPending
<1>6. Unseen
  BY <1>2, <1>3 DEF Unseen
<1> QED BY <1>3, <1>5, <1>6, SendsNothing DEF Course, Seen

LEMMA SetInternalSocketCourse ==
  ASSUME Inv, Flow, Course, Graceful, SetInternalSocket PROVE Course' /\ Seen /\ Sends
<1>1. Fresh
  BY DEF SetInternalSocket, Course, Opening, Open, Done
<1>2. ready = <<>> /\ ~requestShutdown /\ ~finReceived /\ ~connectOp
  BY Zenon, <1>1 DEF Fresh, Flow, Unconnected
<1>3. /\ connects' = 1 /\ conn' = "est" /\ connected' = TRUE
      /\ requestShutdown' = FALSE /\ finReceived' = FALSE
      /\ UNCHANGED <<recvBuf, connectOp, ready, wire, accepted, delivered>>
  BY DEF SetInternalSocket
<1>4. Queued(ready', "connect") = {}
  BY <1>2, <1>3 DEF Queued, Range
<1>5. Open'
  BY <1>2, <1>3, <1>4 DEF Open, ConnectPending
<1>6. Unseen
  <2>1. requestShutdown \in BOOLEAN /\ finReceived \in BOOLEAN
    BY DEF Inv, TypeOK, FlagsType
  <2> QED BY <1>2, <1>3, <2>1 DEF Unseen
<1> QED BY <1>3, <1>5, <1>6, SendsNothing DEF Course, Seen

LEMMA SendCourse ==
  ASSUME Inv, Flow, Course, Graceful, connects > 0, NEW n \in 1..MaxBytes, Send(n)
  PROVE  Course' /\ Seen /\ Sends
<1>1. Opening \/ Open
  <2>1. ~Fresh /\ ~Done
    BY DEF Fresh, Done, Send
  <2> QED BY <2>1 DEF Course
<1>2. conn # "closed"
  BY <1>1 DEF Opening, Open
<1>3. /\ ~requestShutdown /\ accepted' = accepted + n
      /\ UNCHANGED <<flags, recvSide, conn, connectOp, wire, delivered, connects>>
      /\ ready' = ready
  BY <1>2 DEF Send, Started, PostIf
<1>4. Course'
  BY <1>1, <1>3 DEF Course, Opening, Open, ConnectPending
<1>5. Writes
  BY <1>3 DEF Writes, Inv, TypeOK, HistoryType
<1> QED BY <1>3, <1>4, <1>5, SendsNothing DEF Seen

LEMMA ReceiveCourse ==
  ASSUME Inv, Flow, Course, Graceful, NEW n \in 1..Len(recvBuf), Receive(n)
  PROVE  Course' /\ Seen /\ Sends
<1>1. recvBuf \in Seq(Nat) /\ delivered \in Seq(Nat) /\ n \in Nat /\ n <= Len(recvBuf)
  BY DEF Inv, TypeOK, BuffersType, HistoryType
<1>2. recvBuf # <<>>
  BY <1>1
<1>3. Open \/ Done
  <2>1. ~Fresh
    BY Zenon, <1>2 DEF Fresh, Flow, Unconnected
  <2>2. ~Opening
    BY Zenon, <1>2 DEF Opening, Flow, Connecting
  <2> QED BY <2>1, <2>2 DEF Course
<1>4. /\ delivered' = delivered \o SubSeq(recvBuf, 1, n)
      /\ recvBuf' = SubSeq(recvBuf, n + 1, Len(recvBuf))
      /\ UNCHANGED <<flags, sendSide, conn, connectOp, wire, accepted, connects>>
  <2>1. Prefix(recvBuf, n) = SubSeq(recvBuf, 1, n)
    BY <1>1 DEF Prefix, Smaller
  <2> QED BY <2>1 DEF Receive, Erase, BeginReceive
<1>5. ready' = ready /\ (~connected => receiving' = receiving)
  <2>1. conn = "closed" => ~connected
    BY <1>3 DEF Open, Done
  <2> QED BY <2>1 DEF Receive, CanReceive, Started, PostIf
<1>6. Reads
  BY <1>1, <1>4 DEF Reads
<1>7. Course'
  <2>1. CASE Open
    <3>1. Open'
      BY <1>4, <1>5, <2>1 DEF Open, ConnectPending
    <3> QED BY <3>1 DEF Course
  <2>2. CASE Done
    <3>1. delivered' \o recvBuf' = delivered \o recvBuf
      <4> DEFINE a == SubSeq(recvBuf, 1, n)
                 b == SubSeq(recvBuf, n + 1, Len(recvBuf))
      <4>1. a \in Seq(Nat) /\ b \in Seq(Nat) /\ a \o b = recvBuf
        BY <1>1, SplitBuffer
      <4>2. delivered' = delivered \o a /\ recvBuf' = b
        BY <1>4
      <4> HIDE DEF a, b
      <4>3. (delivered \o a) \o b = delivered \o (a \o b)
        BY <1>1, <4>1, JoinBuffers
      <4> QED BY <4>1, <4>2, <4>3
    <3>2. delivered' \o recvBuf' = incoming'
      BY <1>4, <2>2, <3>1 DEF Done
    <3>3. ~ConnectPending' /\ ~receiving'
      BY <1>4, <1>5, <2>2 DEF Done, ConnectPending
    <3>4. /\ connects' = 1 /\ conn' = "closed" /\ ~connected'
          /\ finSent' /\ finReceived' /\ requestShutdown'
          /\ ~sending' /\ sendBuf' = <<>> /\ taken' = Numbers(accepted') /\ finOut'
          /\ finIn' /\ consumed' = Len(incoming')
      BY Zenon, <1>4, <2>2 DEF Done
    <3> QED BY Zenon, <3>2, <3>3, <3>4 DEF Course, Done
  <2> QED BY <1>3, <2>1, <2>2
<1> QED BY <1>4, <1>6, <1>7, SendsNothing DEF Seen


LEMMA ShutdownCourse ==
  ASSUME Inv, Flow, Course, Graceful, ~requestShutdown, Shutdown
  PROVE  Course' /\ Seen /\ Sends
<1>1. /\ UNCHANGED <<sendSide, recvSide, conn, connectOp, ready, taken, incoming,
                     finIn, consumed, peerConsumed, history>>
  BY DEF Shutdown
<1>2. CASE conn = "closed"
  <2>1. Fresh
    BY <1>2 DEF Course, Opening, Open, Done
  <2>2. UNCHANGED <<requestShutdown, finReceived, finOut>>
    BY <1>2 DEF Shutdown
  <2>3. Fresh' /\ Unseen
    BY <1>1, <2>1, <2>2 DEF Fresh, Unseen
  <2> QED BY <1>1, <2>2, <2>3, SendsNothing DEF Course, Seen
<1>3. CASE conn # "closed"
  <2>1. connected /\ requestShutdown' = TRUE /\ connected' = connected
    BY <1>3 DEF Shutdown
  <2>2. Open
    <3>1. ~Fresh
      BY Zenon, <2>1 DEF Fresh, Flow, Unconnected
    <3>2. ~Opening
      BY Zenon, <2>1 DEF Opening, Flow, Connecting
    <3> QED BY <1>3, <3>1, <3>2 DEF Course, Done
  <2>3. finReceived' = finReceived /\ (finOut => finOut')
    <3>1. ShutdownResults = {"ok"}
      BY <2>2 DEF Open, ShutdownResults
    <3>2. finReceived \in BOOLEAN
      BY DEF Inv, TypeOK, FlagsType
    <3> QED BY <1>3, <3>1, <3>2 DEF Shutdown
  <2>4. Open' /\ Ends
    BY <1>1, <2>1, <2>2, <2>3 DEF Open, Ends, ConnectPending
  <2> QED BY <1>1, <2>3, <2>4, SendsNothing DEF Course, Seen
<1> QED BY <1>2, <1>3

\* The socket is closed with nothing under way.
LEMMA CloseCourse ==
  ASSUME Inv, Flow, Course, Graceful, finSent, finReceived, Close
  PROVE  Course' /\ Seen /\ Sends
<1>1. /\ UNCHANGED <<requestShutdown, sending, sendBuf, receiving, recvBuf, taken,
                     incoming, finIn, consumed, peerConsumed, history>>
  BY DEF Close
<1>2. CASE conn = "closed"
  <2>1. Done
    BY <1>2 DEF Course, Fresh, Opening, Open
  <2>2. connected' = FALSE
        /\ UNCHANGED <<finSent, finReceived, conn, connectOp, finOut, ready>>
    BY <1>2 DEF Close
  <2>3. ConnectPending' = ConnectPending
    BY <2>2 DEF ConnectPending
  <2>4. Done'
    BY Zenon, <1>1, <2>1, <2>2, <2>3 DEF Done
  <2>5. Unseen
    BY <1>1, <2>2 DEF Unseen
  <2> QED BY <1>1, <2>2, <2>4, <2>5, SendsNothing DEF Course, Seen
<1>3. CASE conn # "closed"
  <2>1. Open
    BY <1>3 DEF Course, Fresh, Opening, Done
  <2>2. CloseAsioSocket(ready) /\ UNCHANGED <<finSent, finReceived>>
    BY <1>3 DEF Close
  <2>3. /\ connected' = FALSE /\ conn' = "closed" /\ connectOp' = FALSE
        /\ finOut' = TRUE /\ ready' = AbortAll(ready)
    BY <2>1, <2>2 DEF CloseAsioSocket, Open
  <2>4. Live /\ Readable /\ ~connectOp /\ Queued(ready, "connect") = {}
    BY <2>1, OpenFacts
  <2>5. ~ConnectPending'
    <3>1. connectOp \in BOOLEAN /\ recvOp \in BOOLEAN /\ ready \in Seq(Completions)
      BY DEF Inv, TypeOK, FlagsType, ReadyType
    <3>2. Queued(AbortAll(ready), "connect") = {}
      BY <2>4, <3>1, QueuedAbortAll
    <3> QED BY <2>3, <3>2 DEF ConnectPending
  <2>6. /\ finIn /\ consumed = Len(incoming) /\ ~receiving
        /\ requestShutdown /\ sendBuf = <<>> /\ ~sending
    BY Zenon, <2>4 DEF Flow, ReceiveGoesOn, SendFlow, Graceful
  <2>7. taken = Numbers(accepted)
    <3>1. Queued(ready, "send") = {}
      BY Zenon, <2>6, QueuedNone DEF Inv, OneSendInFlight, Owned
    <3>2. taken \o sendBuf = Numbers(accepted)
      BY Zenon, <2>4, <3>1 DEF Flow, SendFlow, Graceful
    <3>3. taken \o <<>> = taken
      BY ConcatEmptySeq DEF Inv, TypeOK, WireType
    <3> QED BY <2>6, <3>2, <3>3
  <2>8. delivered \o recvBuf = incoming
    <3>1. Queued(ready, "recv") = {}
      BY Zenon, <2>6, QueuedNone DEF Inv, OneReceiveInFlight, Owned
    <3>2. delivered \o recvBuf = SubSeq(incoming, 1, consumed)
      BY Zenon, <2>4, <3>1 DEF Flow, ReceiveFlow
    <3>3. SubSeq(incoming, 1, Len(incoming)) = incoming
      BY DEF Inv, TypeOK, WireType
    <3> QED BY <2>6, <3>2, <3>3
  <2>9. connects' = 1
    BY <1>1, <2>1 DEF Open
  <2>10. Done'
    BY Zenon, <1>1, <2>2, <2>3, <2>5, <2>6, <2>7, <2>8, <2>9 DEF Done
  <2>11. Unseen
    BY <1>1, <2>2 DEF Unseen
  <2> QED BY <1>1, <2>3, <2>10, <2>11, SendsNothing DEF Course, Seen
<1> QED BY <1>2, <1>3

LEMMA KernelConnectsCourse ==
  ASSUME Inv, Flow, Course, Graceful, KernelConnects PROVE Course' /\ Seen /\ Sends
<1>1. /\ connectOp /\ conn' = "est" /\ connectOp' = FALSE
      /\ ready' = Append(ready, Completion("connect", "ok", <<>>))
      /\ taken' = <<>> /\ finOut' = FALSE
      /\ UNCHANGED <<flags, sendSide, recvSide, history>>
  BY DEF KernelConnects
<1>2. Opening
  <2>1. ~Fresh
    BY Zenon, <1>1 DEF Fresh, Flow, Unconnected
  <2> QED BY <1>1, <2>1 DEF Course, Open, Done, ConnectPending
<1>3. ready = <<>> /\ taken = <<>> /\ ~finOut
  BY Zenon, <1>1, <1>2 DEF Opening, Flow, Connecting
<1> DEFINE c == Completion("connect", "ok", <<>>)
<1>4. c \in Completions /\ c.op = "connect" /\ c.err = "ok"
  BY ChunkFacts, CompletionType DEF Errors
<1>5. Queued(ready', "connect") = {c}
  <2>1. ready \in Seq(Completions) /\ Queued(ready, "connect") = {}
    BY <1>3 DEF Queued, Range
  <2>2. ready' = Append(ready, c)
    BY <1>1
  <2> HIDE DEF c
  <2>3. Queued(Append(ready, c), "connect") = Queued(ready, "connect") \union {c}
    BY <1>4, <2>1, QueuedAppend
  <2>4. Queued(ready', "connect") = Queued(Append(ready, c), "connect")
    BY <2>2
  <2> QED BY <2>1, <2>3, <2>4
<1> HIDE DEF c
<1>6. Opening'
  BY <1>1, <1>2, <1>4, <1>5 DEF Opening, ConnectPending
<1>7. Unseen
  BY <1>1 DEF Unseen
<1>8. Sends
  BY <1>1, <1>3, SendsNothing
<1> QED BY <1>6, <1>7, <1>8 DEF Course, Seen

\* An operation ends on an open connection.
LEMMA EndsOpen ==
  ASSUME Inv, Flow, Open, NEW c \in Completions, c.op # "connect",
         ready' = Append(ready, c), UNCHANGED <<connects, connectOp, conn, connected>>
  PROVE  Course'
<1>1. ready \in Seq(Completions) /\ Queued(ready, "connect") = {}
  BY OpenFacts DEF Inv, TypeOK, ReadyType
<1>2. Queued(Append(ready, c), "connect") = {}
  BY <1>1, QueuedAppend
<1> QED BY <1>2, StaysOpen

LEMMA KernelSendsCourse ==
  ASSUME Inv, Flow, Course, Graceful, KernelSends PROVE Course' /\ Seen /\ Sends
<1>1. PICK n \in 1..Smaller(Len(sendOp), NetCapacity - (Len(taken) - peerConsumed)) :
        /\ taken' = taken \o Prefix(sendOp, n)
        /\ ready' = Append(ready, Completion("send", "ok", Prefix(sendOp, n)))
  BY DEF KernelSends
<1>2. /\ sendOp # <<>> /\ ~finOut
      /\ UNCHANGED <<flags, sending, sendBuf, recvSide, conn, connectOp, finOut,
                     incoming, finIn, consumed, peerConsumed, history>>
  BY DEF KernelSends
<1>3. Open
  <2>1. sending
    BY Zenon, <1>2 DEF Inv, OneSendInFlight, Owned
  <2> QED BY <2>1, BusyOpen
<1>4. PICK data : data = Prefix(sendOp, n)
  OBVIOUS
<1>5. /\ sendOp \in Seq(Nat) /\ Len(sendOp) <= ChunkSize /\ Len(sendOp) \in Nat
      /\ ChunkSize \in Nat /\ n \in Nat
  BY ChunkFacts, SizesAssumption DEF Inv, TypeOK, BuffersType
<1>6. data \in Seq(Nat) /\ Len(data) <= Len(sendOp) /\ Len(data) \in Nat
  BY <1>4, <1>5, PrefixType
<1>7. data \in Chunks /\ "ok" \in Errors
  BY <1>5, <1>6 DEF Chunks, Errors
<1>8. PICK c : c = Completion("send", "ok", data)
  OBVIOUS
<1>9. c \in Completions /\ c.op # "connect" /\ ready' = Append(ready, c)
  BY <1>1, <1>4, <1>7, <1>8, CompletionType
<1>10. Course'
  BY <1>2, <1>3, <1>9, EndsOpen
<1>11. Unseen
  BY <1>2 DEF Unseen
<1>12. Sends
  BY <1>1, <1>2, <1>4, <1>6 DEF Sends
<1> QED BY <1>10, <1>11, <1>12 DEF Seen

LEMMA KernelReceivesCourse ==
  ASSUME Inv, Flow, Course, Graceful, KernelReceives \/ KernelReceivesFin
  PROVE  Course' /\ Seen /\ Sends
<1>1. /\ recvOp
      /\ UNCHANGED <<flags, sendSide, receiving, recvBuf, conn, connectOp, taken,
                     finOut, incoming, finIn, peerConsumed, history>>
  BY DEF KernelReceives, KernelReceivesFin
<1>2. Open
  <2>1. receiving
    BY Zenon, <1>1 DEF Inv, OneReceiveInFlight, Owned
  <2> QED BY <2>1, BusyOpen
<1>3. \E c \in Completions : c.op # "connect" /\ ready' = Append(ready, c)
  <2>1. CASE KernelReceivesFin
    <3>1. ready' = Append(ready, Completion("recv", "eof", <<>>))
      BY <2>1 DEF KernelReceivesFin
    <3>2. <<>> \in Chunks /\ "eof" \in Errors
      BY ChunkFacts DEF Errors
    <3> QED BY <3>1, <3>2, CompletionType
  <2>2. CASE KernelReceives
    <3>1. PICK n \in 1..Smaller(ChunkSize, Len(incoming) - consumed) :
            ready' = Append(ready, Completion("recv", "ok",
                                 SubSeq(incoming, consumed + 1, consumed + n)))
      BY <2>2 DEF KernelReceives
    <3>2. PICK data : data = SubSeq(incoming, consumed + 1, consumed + n)
      OBVIOUS
    <3>3. data \in Chunks /\ "ok" \in Errors
      <4>1. incoming \in Seq(Nat) /\ consumed \in 0..Len(incoming) /\ ChunkSize \in Nat
        BY SizesAssumption DEF Inv, TypeOK, WireType
      <4>2. n \in Nat /\ n <= ChunkSize /\ consumed + n <= Len(incoming)
        BY <4>1 DEF Smaller
      <4>3. data \in Seq(Nat) /\ Len(data) = n
        BY <3>2, <4>1, <4>2
      <4> QED BY <4>2, <4>3 DEF Chunks, Errors
    <3> QED BY <3>1, <3>2, <3>3, CompletionType
  <2> QED BY <2>1, <2>2
<1>4. Course'
  BY <1>1, <1>2, <1>3, EndsOpen
<1>5. Unseen
  BY <1>1 DEF Unseen
<1> QED BY <1>1, <1>4, <1>5, SendsNothing DEF Seen


\* The connect completes on the connection that the kernel has established.
LEMMA ConnectHandlerCourse ==
  ASSUME Inv, Flow, Course, Graceful, NEW i \in 1..Len(ready),
         ready[i].op = "connect", ConnectHandler(ready[i], RemoveAt(ready, i))
  PROVE  Course' /\ Seen /\ Sends
<1>1. ready \in Seq(Completions)
  BY DEF Inv, TypeOK, ReadyType
<1>2. ready[i] \in Queued(ready, "connect") /\ ready # <<>>
  <2>1. i \in DOMAIN ready /\ ready # <<>>
    BY <1>1
  <2> QED BY <2>1 DEF Queued, Range
<1>3. Opening
  <2>1. ~Fresh
    BY Zenon, <1>2 DEF Fresh, Flow, Unconnected
  <2>2. ConnectPending
    BY <1>2 DEF ConnectPending
  <2> QED BY <2>1, <2>2 DEF Course, Open, Done
<1>4. ~connectOp /\ Len(ready) = 1 /\ ~requestShutdown /\ ready[i].err = "ok"
  <2>1. IF connectOp THEN ready = <<>> ELSE Len(ready) = 1
    BY Zenon, <1>3 DEF Opening, Flow, Connecting
  <2>2. ~requestShutdown
    BY Zenon, <1>3 DEF Opening, Flow, Connecting
  <2> QED BY <1>2, <1>3, <2>1, <2>2 DEF Opening
<1>5. conn = "est" /\ ~finReceived /\ ~finOut /\ connects = 1
  BY <1>3, <1>4 DEF Opening
<1>6. RemoveAt(ready, i) = <<>>
  <2>1. Len(RemoveAt(ready, i)) = 0 /\ RemoveAt(ready, i) \in Seq(Completions)
    <3>1. Len(RemoveAt(ready, i)) = Len(ready) - 1
          /\ RemoveAt(ready, i) \in Seq(Completions)
      BY <1>1, RemoveAtFacts
    <3> QED BY <1>4, <3>1
  <2> QED BY <2>1
<1>7. /\ connected' = TRUE /\ requestShutdown' = FALSE /\ finReceived' = FALSE
      /\ recvBuf' = recvBuf /\ ready' = <<>>
      /\ UNCHANGED <<conn, connectOp, wire, history>>
  <2>1. \A op, go, q : Started(op, go, q) = q
    BY <1>5 DEF Started, PostIf
  <2>2. ready' = <<>>
    <3>1. \E a, b : ready' = Started("send", a, Started("recv", b, RemoveAt(ready, i)))
      BY Zenon, <1>4 DEF ConnectHandler
    <3> QED BY <1>6, <2>1, <3>1
  <2>3. recvBuf' = recvBuf
    BY <1>4 DEF ConnectHandler, BeginReceive
  <2>4. /\ connected' = TRUE /\ requestShutdown' = FALSE /\ finReceived' = FALSE
        /\ UNCHANGED <<conn, connectOp, wire, history>>
    BY <1>4 DEF ConnectHandler
  <2> QED BY <2>2, <2>3, <2>4
<1>8. Queued(ready', "connect") = {}
  BY <1>7 DEF Queued, Range
<1>9. Open'
  BY <1>4, <1>5, <1>7, <1>8 DEF Open, ConnectPending
<1>10. Unseen
  <2>1. requestShutdown \in BOOLEAN /\ finReceived \in BOOLEAN
    BY DEF Inv, TypeOK, FlagsType
  <2> QED BY <1>4, <1>5, <1>7, <2>1 DEF Unseen
<1> QED BY <1>7, <1>9, <1>10, SendsNothing DEF Course, Seen

LEMMA SendHandlerCourse ==
  ASSUME Inv, Flow, Course, Graceful, NEW i \in 1..Len(ready),
         ready[i].op = "send", SendHandler(ready[i], RemoveAt(ready, i))
  PROVE  Course' /\ Seen /\ Sends
<1>1. sending /\ Queued(RemoveAt(ready, i), "connect") = Queued(ready, "connect")
  BY RunFacts
<1>2. Open
  BY <1>1, BusyOpen
<1>3. conn = "est" /\ Queued(RemoveAt(ready, i), "connect") = {}
  BY <1>1, <1>2, OpenFacts DEF Open
<1>4. UNCHANGED <<requestShutdown, recvBuf, taken, accepted, delivered, connects>>
  BY DEF SendHandler
<1>5. /\ ready' = RemoveAt(ready, i)
      /\ UNCHANGED <<finReceived, conn, connected, connectOp>>
      /\ finOut => finOut'
  <2>1. \A op, go, q : Started(op, go, q) = q
    BY <1>3 DEF Started, PostIf
  <2>2. ASSUME NEW q, FinishShutdown(q)
        PROVE  /\ ready' = q
               /\ UNCHANGED <<finReceived, conn, connected, connectOp>>
               /\ finOut => finOut'
    <3>1. ShutdownResults = {"ok"}
      BY <1>3 DEF ShutdownResults
    <3>2. finReceived \in BOOLEAN
      BY DEF Inv, TypeOK, FlagsType
    <3> QED BY <2>2, <3>1, <3>2 DEF FinishShutdown
  <2>3. \/ FinishShutdown(RemoveAt(ready, i))
        \/ /\ \/ ready' = RemoveAt(ready, i)
              \/ \E go : ready' = Started("send", go, RemoveAt(ready, i))
           /\ UNCHANGED <<finReceived, conn, connected, connectOp, finOut>>
    BY Zenon DEF SendHandler
  <2> QED BY <2>1, <2>2, <2>3
<1>6. Course'
  BY <1>2, <1>3, <1>4, <1>5, StaysOpen
<1>7. Unseen
  BY <1>4, <1>5 DEF Unseen
<1> QED BY <1>4, <1>5, <1>6, <1>7, SendsNothing DEF Seen

\* Bytes arrive, or the end of the stream once all of them are there.
LEMMA ReceiveHandlerCourse ==
  ASSUME Inv, Flow, Course, Graceful, NEW i \in 1..Len(ready),
         ready[i].op = "recv", ReceiveHandler(ready[i], RemoveAt(ready, i))
  PROVE  Course' /\ Seen /\ Sends
<1> DEFINE c == ready[i]
<1>1. /\ receiving /\ Queued(RemoveAt(ready, i), "connect") = Queued(ready, "connect")
      /\ c \in Queued(ready, "recv") /\ c \in Completions
  <2>1. Queued(ready, ready[i].op) = {ready[i]}
    BY RunFacts
  <2> QED BY <2>1, RunFacts
<1>2. Open
  BY <1>1, BusyOpen
<1>3. /\ Live /\ Readable /\ conn = "est"
      /\ Queued(RemoveAt(ready, i), "connect") = {}
  BY <1>1, <1>2, OpenFacts DEF Open
<1>4. /\ c.err \in {"ok", "eof"} /\ (c.err # "ok" => c.data = <<>>)
      /\ ~finReceived
  BY Zenon, <1>1, <1>3 DEF Flow, ReceiveFlow, ReceiveGoesOn, Graceful
<1>5. UNCHANGED <<requestShutdown, taken, accepted, delivered, connects>>
  BY DEF ReceiveHandler
<1>6. /\ finReceived' = (finReceived \/ c.err = "eof")
      /\ recvBuf' = recvBuf \o c.data
      /\ ready' = RemoveAt(ready, i)
      /\ UNCHANGED <<connected, conn, connectOp, finOut>>
  <2>1. \A op, go, q : Started(op, go, q) = q
    BY <1>3 DEF Started, PostIf
  <2> QED BY <1>4, <2>1 DEF ReceiveHandler, BeginReceive, IsEof
<1>7. Course'
  BY <1>2, <1>3, <1>5, <1>6, StaysOpen
<1>8. Seen
  <2>1. recvBuf \in Seq(Nat) /\ c.data \in Seq(Nat)
    BY <1>1, ChunkFacts DEF Inv, TypeOK, BuffersType, Completions
  <2>2. recvBuf \o <<>> = recvBuf
    BY <2>1, ConcatEmptySeq
  <2> HIDE DEF c
  <2>3. CASE c.err = "eof"
    <3>1. c.data = <<>>
      BY <1>4, <2>3
    <3>2. SeesEnd
      BY <1>4, <1>5, <1>6, <2>2, <2>3, <3>1 DEF SeesEnd
    <3> QED BY <3>2 DEF Seen
  <2>4. CASE c.err # "eof" /\ c.data = <<>>
    <3>1. finReceived' = finReceived
      <4>1. finReceived \in BOOLEAN
        BY DEF Inv, TypeOK, FlagsType
      <4> QED BY <1>6, <2>4, <4>1
    <3> QED BY <1>5, <1>6, <2>2, <2>4, <3>1 DEF Seen, Unseen
  <2>5. CASE c.err # "eof" /\ c.data # <<>>
    <3>1. finReceived' = finReceived
      <4>1. finReceived \in BOOLEAN
        BY DEF Inv, TypeOK, FlagsType
      <4> QED BY <1>6, <2>5, <4>1
    <3>2. Arrives
      BY <1>4, <1>5, <1>6, <2>1, <2>5, <3>1 DEF Arrives
    <3> QED BY <3>2 DEF Seen
  <2> QED BY <2>3, <2>4, <2>5
<1> QED BY <1>5, <1>6, <1>7, <1>8, SendsNothing

LEMMA HandlerStepCourse ==
  ASSUME Inv, Flow, Course, Graceful, HandlerStep PROVE Course' /\ Seen /\ Sends
<1>1. PICK i \in 1..Smaller(IoThreads, Len(ready)) : RunHandler(i)
  BY DEF HandlerStep
<1>2. i \in 1..Len(ready)
  BY SizesAssumption DEF Inv, TypeOK, ReadyType, Smaller
<1>3. \/ ready[i].op = "connect" /\ ConnectHandler(ready[i], RemoveAt(ready, i))
      \/ ready[i].op = "send" /\ SendHandler(ready[i], RemoveAt(ready, i))
      \/ ready[i].op = "recv" /\ ReceiveHandler(ready[i], RemoveAt(ready, i))
  BY <1>1 DEF RunHandler
<1> QED BY Zenon, <1>2, <1>3, ConnectHandlerCourse, SendHandlerCourse, ReceiveHandlerCourse

\* Every step of the graceful application, its kernel and its io threads.
LEMMA GracefulCourse ==
  Inv /\ Flow /\ Course /\ Graceful /\ GracefulStep
    => Inv' /\ Flow' /\ Course' /\ Seen /\ Sends
<1> SUFFICES ASSUME Inv, Flow, Course, Graceful, GracefulStep
             PROVE  Inv' /\ Flow' /\ Course' /\ Seen /\ Sends
  OBVIOUS
<1>1. Course' /\ Seen /\ Sends
  BY Zenon, ConnectCourse, SetInternalSocketCourse, SendCourse, ReceiveCourse,
     ShutdownCourse, CloseCourse, KernelConnectsCourse, KernelSendsCourse,
     KernelReceivesCourse, HandlerStepCourse DEF GracefulStep
<1>2. Next
  BY Zenon DEF GracefulStep, Next, ApplicationStep, KernelStep
<1>3. Inv' /\ Flow'
  BY Zenon, <1>2, NextInv, NextFlow
<1> QED BY <1>1, <1>3

\* A new socket.
LEMMA FreshSocket == Init => Inv /\ Flow /\ Course
<1>1. Init => Course
  BY DEF Init, Course, Fresh
<1> QED BY <1>1, InitInv, InitFlow

\* The other host: more bytes are on their way unless its FIN is, a FIN stays,
\* and bytes of ours are received.
OtherHost ==
  /\ UNCHANGED <<flags, sendSide, recvSide, conn, connectOp, ready, taken, finOut,
                 consumed, history>>
  /\ \E data \in Seq(Nat) : incoming' = incoming \o data /\ (finIn => data = <<>>)
  /\ finIn' \in BOOLEAN /\ (finIn => finIn') /\ peerConsumed' \in Nat

LEMMA OtherHostCourse ==
  Inv /\ Flow /\ Course /\ OtherHost => Inv' /\ Flow' /\ Course'
<1> SUFFICES ASSUME Inv, Flow, Course, OtherHost PROVE Inv' /\ Flow' /\ Course'
  OBVIOUS
<1>1. /\ UNCHANGED <<flags, sendSide, recvSide, conn, connectOp, ready, taken, finOut,
                     consumed, history>>
      /\ finIn' \in BOOLEAN /\ (finIn => finIn') /\ peerConsumed' \in Nat
  BY DEF OtherHost
<1>2. PICK data \in Seq(Nat) : incoming' = incoming \o data /\ (finIn => data = <<>>)
  BY DEF OtherHost
<1>3. incoming \in Seq(Nat) /\ consumed \in 0..Len(incoming)
  BY DEF Inv, TypeOK, WireType
<1>4. /\ incoming' \in Seq(Nat) /\ Len(incoming') = Len(incoming) + Len(data)
      /\ SubSeq(incoming', 1, consumed) = SubSeq(incoming, 1, consumed)
  BY <1>2, <1>3, JoinBuffers, ExtendBuffer
<1>5. finIn => incoming' = incoming
  BY <1>2, <1>3, ConcatEmptySeq
<1>6. Inv'
  <2>1. FlagsType' /\ ConnType' /\ HistoryType'
    BY Zenon, <1>1 DEF Inv, TypeOK, FlagsType, ConnType, HistoryType
  <2>2. WireType'
    <3>1. taken' \in Seq(Nat)
      BY <1>1 DEF Inv, TypeOK, WireType
    <3>2. consumed' \in 0..Len(incoming')
      BY <1>1, <1>3, <1>4
    <3> QED BY Zenon, <1>1, <1>4, <3>1, <3>2 DEF WireType
  <2>3. UNCHANGED <<sending, sendOp, sendBuf, receiving, recvOp, recvBuf, ready>>
    BY <1>1
  <2> QED BY Zenon, <2>1, <2>2, <2>3, SameBuffers DEF Inv, TypeOK
<1>7. Flow'
  <2>1. Unconnected' /\ Connecting'
    BY Zenon, <1>1, SamePhase
  <2>2. Readable' = Readable /\ Live' = Live
    BY Zenon, <1>1 DEF Readable, Live, FirstConnection
  <2>3. ReceiveFlow'
    <3>1. SubSeq(incoming', 1, consumed') = SubSeq(incoming, 1, consumed)
      BY <1>1, <1>4
    <3> QED BY Zenon, <1>1, <2>2, <3>1 DEF Flow, ReceiveFlow
  <2>4. ReceiveGoesOn'
    BY Zenon, <1>1, <1>5, <2>2 DEF Flow, ReceiveGoesOn
  <2>5. SendFlow'
    BY Zenon, <1>1, <2>2, SameSend
  <2> QED BY <2>1, <2>3, <2>4, <2>5 DEF Flow
<1>8. Course'
  <2>1. ConnectPending' = ConnectPending
    BY Zenon, <1>1 DEF ConnectPending
  <2>2. Done => Done'
    BY Zenon, <1>1, <1>5, <2>1 DEF Done
  <2>3. (Fresh => Fresh') /\ (Opening => Opening') /\ (Open => Open')
    BY Zenon, <1>1, <2>1 DEF Fresh, Opening, Open
  <2> QED BY <2>2, <2>3 DEF Course
<1> QED BY <1>6, <1>7, <1>8

\* What has been read and what can be is a head of what arrived, and all of it
\* once the end of the stream is seen.
LEMMA ReceivedSoFar ==
  Inv /\ Flow /\ Course /\ Graceful =>
    /\ \E k \in 0..Len(incoming) : delivered \o recvBuf = SubSeq(incoming, 1, k)
    /\ finReceived => finIn /\ delivered \o recvBuf = incoming
<1> SUFFICES ASSUME Inv, Flow, Course, Graceful
             PROVE  /\ \E k \in 0..Len(incoming) : delivered \o recvBuf = SubSeq(incoming, 1, k)
                    /\ finReceived => finIn /\ delivered \o recvBuf = incoming
  OBVIOUS
<1>1. /\ incoming \in Seq(Nat) /\ consumed \in 0..Len(incoming)
      /\ delivered \in Seq(Nat) /\ recvBuf \in Seq(Nat)
  BY DEF Inv, TypeOK, WireType, HistoryType, BuffersType
<1>2. SubSeq(incoming, 1, Len(incoming)) = incoming /\ Len(incoming) \in 0..Len(incoming)
      /\ SubSeq(incoming, 1, 0) = <<>> /\ 0 \in 0..Len(incoming) /\ <<>> \o <<>> = <<>>
  BY <1>1
<1>3. CASE Done
  BY <1>2, <1>3 DEF Done
<1>4. CASE Fresh \/ Opening
  <2>1. recvBuf = <<>> /\ delivered = <<>> /\ ~finReceived
    BY Zenon, <1>4 DEF Fresh, Opening, Flow, Unconnected, Connecting
  <2> QED BY <1>2, <2>1
<1>5. CASE Open
  <2>1. Live /\ Readable
    BY <1>5, OpenFacts
  <2>2. CASE Queued(ready, "recv") = {}
    <3>1. delivered \o recvBuf = SubSeq(incoming, 1, consumed)
      BY Zenon, <2>1, <2>2 DEF Flow, ReceiveFlow
    <3>2. finReceived => finIn /\ consumed = Len(incoming)
      BY Zenon, <2>1 DEF Flow, ReceiveGoesOn, Graceful
    <3> QED BY <1>1, <1>2, <3>1, <3>2
  <2>3. CASE Queued(ready, "recv") # {}
    <3>1. receiving
      BY Zenon, <2>3, QueuedNone DEF Inv, OneReceiveInFlight, Owned
    <3>2. ~finReceived
      BY Zenon, <2>1, <3>1 DEF Flow, ReceiveGoesOn, Graceful
    <3>3. PICK c \in Queued(ready, "recv") :
            delivered \o recvBuf \o c.data = SubSeq(incoming, 1, consumed)
      BY Zenon, <2>1, <2>3 DEF Flow, ReceiveFlow
    <3>4. c.data \in Seq(Nat)
      <4>1. c \in Completions
        BY DEF Queued, Range, Inv, TypeOK, ReadyType
      <4> QED BY <4>1, ChunkFacts DEF Completions
    <3>5. PICK s \in Seq(Nat) : s = delivered \o recvBuf
      BY <1>1, JoinBuffers
    <3>6. PICK d \in Seq(Nat) : d = c.data
      BY <3>4
    <3>7. PICK h \in Seq(Nat) : h = SubSeq(incoming, 1, consumed) /\ Len(h) = consumed
      BY <1>1, SplitBuffer
    <3>8. s \o d = h
      BY <3>3, <3>5, <3>6, <3>7
    <3>9. Len(s) \in 0..consumed /\ s = SubSeq(h, 1, Len(s))
      <4>1. Len(h) = Len(s) + Len(d) /\ Len(s) \in Nat /\ Len(d) \in Nat
        BY <3>8, JoinBuffers
      <4>2. SubSeq(s \o d, 1, Len(s)) = SubSeq(s, 1, Len(s))
        <5>1. Len(s) \in 0..Len(s)
          OBVIOUS
        <5> QED BY <5>1, ExtendBuffer
      <4>3. SubSeq(s, 1, Len(s)) = s
        OBVIOUS
      <4> QED BY <1>1, <3>7, <3>8, <4>1, <4>2, <4>3
    <3>10. SubSeq(h, 1, Len(s)) = SubSeq(incoming, 1, Len(s))
      <4>1. PICK r \in Seq(Nat) : incoming = h \o r
        BY <1>1, <3>7, SplitBuffer
      <4>2. Len(s) \in 0..Len(h)
        BY <3>7, <3>9
      <4> QED BY <4>1, <4>2, ExtendBuffer
    <3>11. delivered \o recvBuf = SubSeq(incoming, 1, Len(s))
      BY <3>5, <3>9, <3>10
    <3>12. Len(s) \in 0..Len(incoming)
      BY <1>1, <3>9
    <3> QED BY Zenon, <3>2, <3>11, <3>12
  <2> QED BY <2>2, <2>3
<1> QED BY <1>3, <1>4, <1>5 DEF Course

\* The kernel has taken a head of what the application sent, and all of it once
\* the FIN is out, which follows Shutdown().
LEMMA SentSoFar ==
  Inv /\ Flow /\ Course /\ Graceful =>
    /\ \E s \in Seq(Nat) : taken \o s = Numbers(accepted)
    /\ finOut => requestShutdown /\ taken = Numbers(accepted)
<1> SUFFICES ASSUME Inv, Flow, Course, Graceful
             PROVE  /\ \E s \in Seq(Nat) : taken \o s = Numbers(accepted)
                    /\ finOut => requestShutdown /\ taken = Numbers(accepted)
  OBVIOUS
<1>1. taken \in Seq(Nat) /\ sendBuf \in Seq(Nat) /\ accepted \in Nat
  BY DEF Inv, TypeOK, WireType, HistoryType, BuffersType
<1>2. /\ taken \o <<>> = taken /\ <<>> \in Seq(Nat)
      /\ Numbers(accepted) \in Seq(Nat) /\ <<>> \o Numbers(accepted) = Numbers(accepted)
  BY <1>1, ConcatEmptySeq, NumbersExtend
<1>3. CASE Done
  BY <1>2, <1>3 DEF Done
<1>4. CASE Fresh \/ Opening
  <2>1. taken = <<>> /\ ~finOut
    BY Zenon, <1>4 DEF Fresh, Opening, Flow, Unconnected, Connecting
  <2> QED BY <1>2, <2>1
<1>5. CASE Open
  <2>1. Live
    BY <1>5, OpenFacts
  <2>2. CASE Queued(ready, "send") = {}
    <3>1. taken \o sendBuf = Numbers(accepted)
      BY Zenon, <2>1, <2>2 DEF Flow, SendFlow, Graceful
    <3>2. finOut => requestShutdown /\ sendBuf = <<>>
      BY Zenon, <2>1 DEF Flow, SendFlow, Graceful
    <3> QED BY <1>1, <1>2, <3>1, <3>2
  <2>3. CASE Queued(ready, "send") # {}
    <3>1. PICK c \in Queued(ready, "send") :
            /\ Len(c.data) \in 1..Len(sendBuf)
            /\ taken \o SubSeq(sendBuf, Len(c.data) + 1, Len(sendBuf)) = Numbers(accepted)
      BY Zenon, <2>1, <2>3 DEF Flow, SendFlow, Graceful
    <3>2. sendBuf # <<>>
      BY <1>1, <3>1
    <3>3. ~finOut
      BY Zenon, <2>1, <3>2 DEF Flow, SendFlow, Graceful
    <3>4. SubSeq(sendBuf, Len(c.data) + 1, Len(sendBuf)) \in Seq(Nat)
      BY <1>1, <3>1
    <3> QED BY <3>1, <3>3, <3>4
  <2> QED BY <2>2, <2>3
<1> QED BY <1>3, <1>4, <1>5 DEF Course


\* What the sender's step is for the stream: as many bytes as a application has
\* numbered, and the end.
Sending ==
  \/ UNCHANGED <<accepted, requestShutdown>>
  \/ /\ ~requestShutdown /\ requestShutdown' = requestShutdown
     /\ IsStrictPrefix(Numbers(accepted), Numbers(accepted'))
  \/ ~requestShutdown /\ requestShutdown' = TRUE /\ accepted' = accepted

LEMMA NumbersGrow ==
  ASSUME NEW a \in Nat, NEW b \in Nat, a < b
  PROVE  IsStrictPrefix(Numbers(a), Numbers(b))
<1> DEFINE n == b - a
           t == [i \in 1..n |-> a + i]
<1>1. n \in Nat /\ a + n = b /\ n # 0
  OBVIOUS
<1>2. /\ Numbers(a) \in Seq(Nat) /\ Len(Numbers(a)) = a
      /\ t \in Seq(Nat)
      /\ Numbers(a) \o t = Numbers(a + n)
  BY <1>1, NumbersExtend
<1>3. Numbers(b) \in Seq(Nat) /\ Len(Numbers(b)) = b
  BY NumbersExtend
<1> HIDE DEF t, n
<1>4. SubSeq(Numbers(a) \o t, 1, a) = SubSeq(Numbers(a), 1, a)
  <2>1. PICK s \in Seq(Nat) : s = Numbers(a)
    BY <1>2
  <2>2. a \in 0..Len(s) /\ t \in Seq(Nat)
    BY <1>2, <2>1
  <2>3. SubSeq(s \o t, 1, a) = SubSeq(s, 1, a)
    BY ONLY <2>2, s \in Seq(Nat), ExtendBuffer
  <2> QED BY <2>1, <2>3
<1>5. SubSeq(Numbers(a), 1, a) = SubSeq(Numbers(b), 1, a)
  BY <1>1, <1>2, <1>4
<1>6. Len(Numbers(a)) <= Len(Numbers(b)) /\ Numbers(a) # Numbers(b)
  BY <1>2, <1>3
<1> QED BY Zenon, <1>2, <1>5, <1>6 DEF IsStrictPrefix, IsPrefix

LEMMA SenderStep == Inv /\ Inv' /\ Seen => Sending
<1> SUFFICES ASSUME Inv, Inv', Seen PROVE Sending
  OBVIOUS
<1>1. CASE Writes
  <2>1. accepted \in Nat /\ accepted' \in Nat
    BY Zenon DEF Inv, TypeOK, HistoryType
  <2>2. IsStrictPrefix(Numbers(accepted), Numbers(accepted'))
    BY <1>1, <2>1, NumbersGrow DEF Writes
  <2> QED BY <1>1, <2>2 DEF Sending, Writes
<1>2. CASE Unseen \/ Ends \/ Arrives \/ Reads \/ SeesEnd
  BY <1>2 DEF Unseen, Ends, Arrives, Reads, SeesEnd, Sending
<1> QED BY <1>1, <1>2 DEF Seen

\* What the receiver's step is for the stream of a sender that has written the
\* first "written" bytes and may have ended the stream.
Receiving(written, ended) ==
  LET arrived == Len(delivered) + Len(recvBuf)
  IN  \/ UNCHANGED <<arrived, delivered, finReceived>>
      \/ /\ arrived' \in arrived + 1 .. written /\ ~finReceived
         /\ UNCHANGED <<delivered, finReceived>>
      \/ /\ IsStrictPrefix(delivered, delivered')
         /\ Len(delivered') <= arrived /\ IsPrefix(delivered', Numbers(written))
         /\ UNCHANGED <<arrived, finReceived>>
      \/ /\ ended /\ arrived = written /\ ~finReceived /\ finReceived' = TRUE
         /\ UNCHANGED <<arrived, delivered>>

\* What arrives is a head of what was written, and the FIN follows its end.
Carried(written, ended) ==
  /\ \E s \in Seq(Nat) : incoming \o s = Numbers(written)
  /\ finIn => ended /\ incoming = Numbers(written)

\* Joining three buffers, packaged for the provers to instantiate.
JoinsEither(s, t, u) == (s \o t) \o u = s \o (t \o u)

LEMMA JoinedEither ==
  \A s \in Seq(Nat), t \in Seq(Nat), u \in Seq(Nat) : JoinsEither(s, t, u) /\ t \o u \in Seq(Nat)
<1> TAKE s \in Seq(Nat), t \in Seq(Nat), u \in Seq(Nat)
<1>1. (s \o t) \o u = s \o (t \o u)
  BY Zenon, JoinBuffers
<1>2. t \o u \in Seq(Nat)
  BY JoinBuffers
<1> QED BY <1>1, <1>2 DEF JoinsEither

\* What is extended is a head of the result.
LEMMA HeadOfJoined ==
  ASSUME NEW s \in Seq(Nat), NEW t \in Seq(Nat)
  PROVE  IsPrefix(s, s \o t)
<1>1. Len(s \o t) = Len(s) + Len(t) /\ Len(s) \in Nat /\ Len(t) \in Nat
  BY JoinBuffers
<1>2. SubSeq(s \o t, 1, Len(s)) = SubSeq(s, 1, Len(s))
  <2>1. Len(s) \in 0..Len(s)
    BY <1>1
  <2> QED BY <2>1, ExtendBuffer
<1>3. Len(s) <= Len(s \o t)
  BY <1>1
<1> QED BY Zenon, <1>2, <1>3 DEF IsPrefix

\* Of d read and r waiting, a head of t, Receive() takes n bytes: e is read and
\* q waits, and e is a head of all that t is a head of.
Takes(d, r, t, s, w, n, k, e, q) ==
  /\ n \in 1..Len(r) /\ k \in 0..Len(t)
  /\ d \o r = SubSeq(t, 1, k) /\ t \o s = w
  /\ e = d \o SubSeq(r, 1, n) /\ q = SubSeq(r, n + 1, Len(r))

Took(d, r, w, e, q) ==
  /\ IsStrictPrefix(d, e) /\ IsPrefix(e, w)
  /\ Len(e) <= Len(d) + Len(r) /\ Len(e) + Len(q) = Len(d) + Len(r)

LEMMA ReadsOn ==
  ASSUME NEW d \in Seq(Nat), NEW r \in Seq(Nat), NEW t \in Seq(Nat), NEW s \in Seq(Nat),
         NEW w \in Seq(Nat), NEW e \in Seq(Nat), NEW q \in Seq(Nat), NEW n, NEW k,
         Takes(d, r, t, s, w, n, k, e, q)
  PROVE  Took(d, r, w, e, q)
<1>a. /\ n \in 1..Len(r) /\ k \in 0..Len(t)
      /\ d \o r = SubSeq(t, 1, k) /\ t \o s = w
      /\ e = d \o SubSeq(r, 1, n) /\ q = SubSeq(r, n + 1, Len(r))
  BY Zenon DEF Takes
<1>b. n \in 1..Len(r)
  BY Zenon, <1>a
<1>0. n \in 0..Len(r) /\ n \in Nat \ {0} /\ Len(r) \in Nat /\ Len(d) \in Nat
  BY ONLY <1>b, r \in Seq(Nat), d \in Seq(Nat)
<1>1. PICK h \in Seq(Nat) : h = SubSeq(r, 1, n) /\ Len(h) = n
  BY Zenon, <1>0, SplitBuffer
<1>2. q \in Seq(Nat) /\ Len(q) = Len(r) - n /\ h \o q = r
  BY Zenon, <1>0, <1>1, <1>a, SplitBuffer
<1>3. PICK f \in Seq(Nat) : f = SubSeq(t, 1, k)
  BY <1>a, SplitBuffer
<1>4. PICK g \in Seq(Nat) : f \o g = t
  BY <1>3, <1>a, SplitBuffer
<1>5. e = d \o h /\ e \in Seq(Nat) /\ Len(e) = Len(d) + n
  BY <1>1, <1>a, JoinBuffers
<1>6. e \o q = f
  <2>1. JoinsEither(d, h, q)
    BY Zenon, JoinedEither
  <2> QED BY Zenon, <1>a, <1>2, <1>3, <1>5, <2>1 DEF JoinsEither
<1>7. PICK z \in Seq(Nat) : e \o z = w
  <2>1. JoinsEither(f, g, s) /\ g \o s \in Seq(Nat)
    BY Zenon, JoinedEither
  <2>2. PICK v \in Seq(Nat) : v = g \o s
    BY <2>1
  <2>3. JoinsEither(e, q, v) /\ q \o v \in Seq(Nat)
    BY Zenon, JoinedEither
  <2> QED BY Zenon, <1>a, <1>4, <1>6, <2>1, <2>2, <2>3 DEF JoinsEither
<1>8. IsPrefix(e, w)
  BY Zenon, <1>7, HeadOfJoined
<1>9. IsStrictPrefix(d, e)
  <2>1. d # e
    BY <1>0, <1>5
  <2> QED BY Zenon, <1>5, <2>1, HeadOfJoined DEF IsStrictPrefix
<1>10. Len(e) <= Len(d) + Len(r) /\ Len(e) + Len(q) = Len(d) + Len(r)
  BY ONLY <1>0, <1>2, <1>5
<1> QED BY Zenon, <1>8, <1>9, <1>10 DEF Took

LEMMA ReceiverStep ==
  /\ Inv /\ Flow /\ Course /\ Graceful
  /\ Inv' /\ Flow' /\ Course' /\ Seen
  => \A written \in Nat, ended \in BOOLEAN :
       Carried(written, ended) /\ Carried(written, ended)' => Receiving(written, ended)
<1> SUFFICES ASSUME Inv, Flow, Course, Graceful, Inv', Flow', Course', Seen,
                    NEW written \in Nat, NEW ended \in BOOLEAN,
                    Carried(written, ended), Carried(written, ended)'
             PROVE  Receiving(written, ended)
  OBVIOUS
<1>1. /\ delivered \in Seq(Nat) /\ recvBuf \in Seq(Nat) /\ incoming \in Seq(Nat)
      /\ delivered' \in Seq(Nat) /\ recvBuf' \in Seq(Nat) /\ incoming' \in Seq(Nat)
  BY Zenon DEF Inv, TypeOK, WireType, HistoryType, BuffersType
<1>2. Numbers(written) \in Seq(Nat) /\ Len(Numbers(written)) = written
  BY NumbersExtend
<1>3. /\ \E k \in 0..Len(incoming) : delivered \o recvBuf = SubSeq(incoming, 1, k)
      /\ (\E k \in 0..Len(incoming) : delivered \o recvBuf = SubSeq(incoming, 1, k))'
      /\ (finReceived => finIn /\ delivered \o recvBuf = incoming)'
  <2>1. Graceful'
    BY DEF Graceful, NoClear, NoReset
  <2>2. (/\ \E k \in 0..Len(incoming) : delivered \o recvBuf = SubSeq(incoming, 1, k)
         /\ finReceived => finIn /\ delivered \o recvBuf = incoming)'
    BY <2>1, ReceivedSoFar, PTL
  <2> QED BY <2>2, ReceivedSoFar
<1>4. CASE Unseen \/ Writes \/ Ends
  BY <1>4 DEF Unseen, Writes, Ends, Receiving
<1>5. CASE Arrives
  <2>1. PICK data \in Seq(Nat) \ {<<>>} : recvBuf' = recvBuf \o data
    BY <1>5 DEF Arrives
  <2>2. Len(recvBuf') = Len(recvBuf) + Len(data) /\ Len(data) \in Nat \ {0}
    BY <1>1, <2>1, JoinBuffers
  <2>3. Len(delivered') + Len(recvBuf') <= written
    <3>1. PICK k \in 0..Len(incoming') : delivered' \o recvBuf' = SubSeq(incoming', 1, k)
      BY <1>3
    <3>2. Len(delivered' \o recvBuf') = Len(delivered') + Len(recvBuf')
      BY <1>1, JoinBuffers
    <3>3. Len(SubSeq(incoming', 1, k)) = k
      BY <1>1, SplitBuffer
    <3>4. PICK s \in Seq(Nat) : incoming' \o s = Numbers(written)
      BY DEF Carried
    <3>5. Len(incoming' \o s) = Len(incoming') + Len(s)
      BY <1>1, JoinBuffers
    <3> QED BY <1>1, <1>2, <3>1, <3>2, <3>3, <3>4, <3>5
  <2>4. ~finReceived /\ UNCHANGED <<delivered, finReceived>>
    BY <1>5 DEF Arrives
  <2>5. Len(delivered') + Len(recvBuf') \in Len(delivered) + Len(recvBuf) + 1 .. written
    BY <1>1, <2>2, <2>3, <2>4
  <2> QED BY <2>4, <2>5 DEF Receiving
<1>6. CASE Reads
  <2>1. PICK n \in 1..Len(recvBuf) :
          /\ delivered' = delivered \o SubSeq(recvBuf, 1, n)
          /\ recvBuf' = SubSeq(recvBuf, n + 1, Len(recvBuf))
    BY <1>6 DEF Reads
  <2>2. PICK k \in 0..Len(incoming) : delivered \o recvBuf = SubSeq(incoming, 1, k)
    BY <1>3
  <2>3. PICK s \in Seq(Nat) : incoming \o s = Numbers(written)
    BY DEF Carried
  <2>4. /\ IsStrictPrefix(delivered, delivered') /\ IsPrefix(delivered', Numbers(written))
        /\ Len(delivered') <= Len(delivered) + Len(recvBuf)
        /\ Len(delivered') + Len(recvBuf') = Len(delivered) + Len(recvBuf)
    <3>1. PICK w \in Seq(Nat) : w = Numbers(written)
      BY <1>2
    <3>2. PICK d \in Seq(Nat), r \in Seq(Nat), t \in Seq(Nat) :
            d = delivered /\ r = recvBuf /\ t = incoming
      BY <1>1
    <3>3. PICK e \in Seq(Nat), q \in Seq(Nat) : e = delivered' /\ q = recvBuf'
      BY <1>1
    <3>4. Takes(d, r, t, s, w, n, k, e, q)
      BY Zenon, <2>1, <2>2, <2>3, <3>1, <3>2, <3>3 DEF Takes
    <3>5. Took(d, r, w, e, q)
      BY <3>4, ReadsOn
    <3> QED BY Zenon, <3>1, <3>2, <3>3, <3>5 DEF Took
  <2>5. finReceived' = finReceived
    BY <1>6 DEF Reads
  <2> QED BY <2>4, <2>5 DEF Receiving
<1>7. CASE SeesEnd
  <2>1. /\ ~finReceived /\ finReceived' = TRUE
        /\ delivered' = delivered /\ recvBuf' = recvBuf
    BY <1>7 DEF SeesEnd
  <2>2. finIn' /\ delivered' \o recvBuf' = incoming'
    BY <1>3, <2>1
  <2>3. ended /\ incoming' = Numbers(written)
    BY <2>2 DEF Carried
  <2>4. Len(delivered') + Len(recvBuf') = written
    <3>1. Len(delivered' \o recvBuf') = Len(delivered') + Len(recvBuf')
      BY <1>1, JoinBuffers
    <3> QED BY <1>2, <2>2, <2>3, <3>1
  <2> QED BY <2>1, <2>3, <2>4 DEF Receiving
<1> QED BY <1>4, <1>5, <1>6, <1>7 DEF Seen
=============================================================================

-------------------------- MODULE TcpSocketProofs --------------------------
(***************************************************************************)
(* TcpSocket keeps its types, hands each of its two arrays to at most one  *)
(* operation at a time and bounds its buffers, for every block size, chunk *)
(* size, number of io threads, set of calls and bound.  The four           *)
(* properties are inductive together: one lemma per action, NextInv.       *)
(***************************************************************************)
EXTENDS TcpSocket, TLAPS

-----------------------------------------------------------------------------
(* The queue of completions.                                               *)

\* Removing the i-th completion shifts the later ones down by one.
LEMMA RemoveAtFacts ==
  ASSUME NEW S, NEW s \in Seq(S), NEW i \in 1..Len(s)
  PROVE  /\ RemoveAt(s, i) \in Seq(S)
         /\ Len(RemoveAt(s, i)) = Len(s) - 1
         /\ \A j \in 1..Len(s) - 1 :
              RemoveAt(s, i)[j] = s[IF j < i THEN j ELSE j + 1]
<1> DEFINE front == SubSeq(s, 1, i - 1)
           back  == SubSeq(s, i + 1, Len(s))
<1>1. front \in Seq(S) /\ Len(front) = i - 1
      /\ \A j \in 1..(i - 1) : front[j] = s[j]
  OBVIOUS
<1>2. back \in Seq(S) /\ Len(back) = Len(s) - i
      /\ \A j \in 1..(Len(s) - i) : back[j] = s[i + j]
  OBVIOUS
<1> HIDE DEF front, back
<1>3. /\ front \o back \in Seq(S)
      /\ Len(front \o back) = Len(s) - 1
  <2>1. \A a, b \in Seq(S) : a \o b \in Seq(S) /\ Len(a \o b) = Len(a) + Len(b)
    OBVIOUS
  <2>2. front \in Seq(S) /\ back \in Seq(S)
    BY <1>1, <1>2
  <2>3. Len(front) + Len(back) = Len(s) - 1
    BY <1>1, <1>2
  <2> QED BY <2>1, <2>2, <2>3, Zenon
<1>a. ASSUME NEW j \in 1..Len(s) - 1
      PROVE  (front \o back)[j] = IF j < i THEN front[j] ELSE back[j - (i - 1)]
  BY <1>1, <1>2
<1>4. \A j \in 1..Len(s) - 1 :
        (front \o back)[j] = s[IF j < i THEN j ELSE j + 1]
  BY <1>1, <1>2, <1>a
<1> QED BY <1>3, <1>4 DEF RemoveAt, front, back

\* Queueing a completion of another operation changes nothing for this one;
\* the first completion of an operation is then its only one.
LEMMA PostFacts ==
  ASSUME NEW q \in Seq(Completions), NEW c \in Completions, NEW op,
         NEW cond \in BOOLEAN
  PROVE  /\ PostIf(cond, q, c) \in Seq(Completions)
         /\ c.op # op /\ NoneQueued(q, op) => NoneQueued(PostIf(cond, q, c), op)
         /\ c.op # op /\ OneQueued(q, op) => OneQueued(PostIf(cond, q, c), op)
         /\ ~cond /\ NoneQueued(q, op) => NoneQueued(PostIf(cond, q, c), op)
         /\ ~cond /\ OneQueued(q, op) => OneQueued(PostIf(cond, q, c), op)
         /\ cond /\ c.op = op /\ NoneQueued(q, op) => OneQueued(PostIf(cond, q, c), op)
<1>1. CASE ~cond
  BY <1>1 DEF PostIf
<1>2. CASE cond
  <2>1. PostIf(cond, q, c) = Append(q, c)
    BY <1>2 DEF PostIf
  <2>2. Append(q, c) \in Seq(Completions)
    OBVIOUS
  <2>3. NoneQueued(q, op) /\ c.op # op => NoneQueued(Append(q, c), op)
    BY DEF NoneQueued
  <2>4. ASSUME OneQueued(q, op), c.op # op PROVE OneQueued(Append(q, c), op)
    <3>1. PICK k \in 1..Len(q) :
            q[k].op = op /\ \A j \in 1..Len(q) : q[j].op = op => j = k
      BY <2>4 DEF OneQueued
    <3>2. /\ DOMAIN Append(q, c) = 1..Len(q) + 1
          /\ k \in 1..Len(q) + 1 /\ Append(q, c)[k].op = op
      BY <3>1
    <3>3. ASSUME NEW j \in 1..Len(q) + 1, Append(q, c)[j].op = op PROVE j = k
      BY <2>4, <3>1, <3>3
    <3> QED BY <3>2, <3>3 DEF OneQueued
  <2>5. ASSUME NoneQueued(q, op), c.op = op PROVE OneQueued(Append(q, c), op)
    <3> DEFINE k == Len(q) + 1
    <3>1. /\ DOMAIN Append(q, c) = 1..k /\ k \in 1..k
          /\ Append(q, c)[k] = c
      OBVIOUS
    <3>2. ASSUME NEW j \in 1..k, Append(q, c)[j].op = op PROVE j = k
      BY <2>5, <3>2 DEF NoneQueued
    <3> HIDE DEF k
    <3> QED BY <2>5, <3>1, <3>2 DEF OneQueued
  <2> QED BY <1>2, <2>1, <2>2, <2>3, <2>4, <2>5
<1> QED BY <1>1, <1>2

\* The same for removing.
LEMMA RemoveOther ==
  ASSUME NEW q \in Seq(Completions), NEW i \in 1..Len(q), NEW op, q[i].op # op
  PROVE  /\ NoneQueued(q, op) => NoneQueued(RemoveAt(q, i), op)
         /\ OneQueued(q, op) => OneQueued(RemoveAt(q, i), op)
<1> DEFINE r == RemoveAt(q, i)
<1>1. /\ r \in Seq(Completions) /\ Len(r) = Len(q) - 1
      /\ \A j \in 1..Len(q) - 1 : r[j] = q[IF j < i THEN j ELSE j + 1]
  BY RemoveAtFacts
<1> HIDE DEF r
<1>2. ASSUME NoneQueued(q, op) PROVE NoneQueued(r, op)
  <2>1. ASSUME NEW j \in 1..Len(r) PROVE r[j].op # op
    <3> DEFINE k == IF j < i THEN j ELSE j + 1
    <3>1. j \in 1..Len(q) - 1 /\ k \in 1..Len(q)
      BY <1>1
    <3>2. r[j] = q[k]
      BY <1>1, <3>1
    <3> HIDE DEF k
    <3> QED BY <1>2, <3>1, <3>2 DEF NoneQueued
  <2>2. DOMAIN r = 1..Len(r)
    BY <1>1
  <2> QED BY <2>1, <2>2 DEF NoneQueued
<1>3. ASSUME OneQueued(q, op) PROVE OneQueued(r, op)
  <2>1. PICK k \in 1..Len(q) :
          q[k].op = op /\ \A j \in 1..Len(q) : q[j].op = op => j = k
    BY <1>3 DEF OneQueued
  <2> DEFINE m == IF k < i THEN k ELSE k - 1
  <2>2. k # i
    BY <2>1
  <2>3. m \in 1..Len(r) /\ r[m] = q[k]
    <3>1. CASE k < i
      <4>1. m = k /\ m \in 1..Len(q) - 1 /\ m < i
        BY <3>1
      <4>2. r[m] = q[IF m < i THEN m ELSE m + 1]
        BY <1>1, <4>1
      <4> QED BY <1>1, <4>1, <4>2
    <3>2. CASE ~(k < i)
      <4>1. m = k - 1 /\ m \in 1..Len(q) - 1 /\ ~(m < i) /\ m + 1 = k
        BY <2>2, <3>2
      <4>2. r[m] = q[IF m < i THEN m ELSE m + 1]
        BY <1>1, <4>1
      <4> QED BY <1>1, <4>1, <4>2
    <3> QED BY <3>1, <3>2
  <2>4. ASSUME NEW j \in 1..Len(r), r[j].op = op PROVE j = m
    <3>1. j \in 1..Len(q) - 1 /\ r[j] = q[IF j < i THEN j ELSE j + 1]
      BY <1>1
    <3>2. (IF j < i THEN j ELSE j + 1) = k
      BY <2>1, <2>4, <3>1
    <3> QED BY <2>2, <3>1, <3>2
  <2> HIDE DEF m
  <2>5. r[m].op = op /\ m \in DOMAIN r /\ DOMAIN r = 1..Len(r)
    BY <1>1, <2>1, <2>3
  <2> QED BY <2>4, <2>5 DEF OneQueued
<1> QED BY <1>2, <1>3 DEF r

\* Running the only completion of an operation leaves none.
LEMMA RemoveOwn ==
  ASSUME NEW q \in Seq(Completions), NEW i \in 1..Len(q), OneQueued(q, q[i].op)
  PROVE  NoneQueued(RemoveAt(q, i), q[i].op)
<1> DEFINE r == RemoveAt(q, i)
<1>1. /\ r \in Seq(Completions) /\ Len(r) = Len(q) - 1
      /\ \A j \in 1..Len(q) - 1 : r[j] = q[IF j < i THEN j ELSE j + 1]
  BY RemoveAtFacts
<1> HIDE DEF r
<1>2. \A j \in 1..Len(q) : q[j].op = q[i].op => j = i
  BY DEF OneQueued
<1> QED BY <1>1, <1>2 DEF NoneQueued, r

-----------------------------------------------------------------------------
(* Type correctness.                                                       *)

\* A chunk is a bounded sequence of bytes, and the empty one is a chunk.
LEMMA ChunkFacts ==
  /\ <<>> \in Chunks
  /\ \A s \in Chunks : s \in Seq(Nat) /\ Len(s) <= ChunkSize
BY SizesAssumption DEF Chunks

\* What BeginSend copies into send_memory is no longer than asked for.
LEMMA PrefixType ==
  ASSUME NEW s \in Seq(Nat), NEW n \in Nat
  PROVE  /\ Prefix(s, n) \in Seq(Nat)
         /\ Len(Prefix(s, n)) <= n /\ Len(Prefix(s, n)) <= Len(s)
BY DEF Prefix, Smaller

\* Erasing never makes a buffer longer.
LEMMA EraseType ==
  ASSUME NEW s \in Seq(Nat), NEW n \in Nat
  PROVE  Erase(s, n) \in Seq(Nat) /\ Len(Erase(s, n)) <= Len(s)
BY DEF Erase

\* A completion record has the fields it was built from.
LEMMA CompletionType ==
  ASSUME NEW op \in {"connect", "send", "recv"}, NEW err \in Errors,
         NEW data \in Chunks
  PROVE  /\ Completion(op, err, data) \in Completions
         /\ Completion(op, err, data).op = op
         /\ Completion(op, err, data).err = err
         /\ Completion(op, err, data).data = data
BY DEF Completion, Completions

\* Started() adds at most the completion that reports a closed socket.
LEMMA StartedFacts ==
  ASSUME NEW q \in Seq(Completions), NEW op \in {"send", "recv"}, NEW go \in BOOLEAN
  PROVE  /\ Started(op, go, q) \in Seq(Completions)
         /\ \A other : other # op =>
              /\ NoneQueued(q, other) => NoneQueued(Started(op, go, q), other)
              /\ OneQueued(q, other) => OneQueued(Started(op, go, q), other)
         /\ go /\ conn = "closed" /\ NoneQueued(q, op)
              => OneQueued(Started(op, go, q), op)
         /\ ~go \/ conn # "closed" => Started(op, go, q) = q
<1> DEFINE cond == go /\ conn = "closed"
           c == Completion(op, "other", <<>>)
<1>1. c \in Completions /\ c.op = op
  BY ChunkFacts, CompletionType DEF Errors
<1>2. cond \in BOOLEAN /\ (cond <=> go /\ conn = "closed")
  OBVIOUS
<1>3. Started(op, go, q) = PostIf(cond, q, c)
  BY DEF Started
<1> HIDE DEF cond, c
<1>4. PostIf(cond, q, c) \in Seq(Completions)
  BY <1>1, <1>2, PostFacts
<1>5. ASSUME NEW other, other # op
      PROVE  /\ NoneQueued(q, other) => NoneQueued(PostIf(cond, q, c), other)
             /\ OneQueued(q, other) => OneQueued(PostIf(cond, q, c), other)
  <2>1. c.op # other
    BY <1>1, <1>5
  <2> QED BY <1>1, <1>2, <2>1, PostFacts
<1>6. cond /\ NoneQueued(q, op) => OneQueued(PostIf(cond, q, c), op)
  BY <1>1, <1>2, PostFacts
<1>7. ~cond => PostIf(cond, q, c) = q
  BY DEF PostIf
<1> QED BY Zenon, <1>2, <1>3, <1>4, <1>5, <1>6, <1>7

\* Abort() adds the completion of an operation that was outstanding.
LEMMA AbortFacts ==
  ASSUME NEW q \in Seq(Completions), NEW op \in {"connect", "send", "recv"},
         NEW cond \in BOOLEAN
  PROVE  /\ Abort(op, cond, q) \in Seq(Completions)
         /\ \A other : other # op =>
              /\ NoneQueued(q, other) => NoneQueued(Abort(op, cond, q), other)
              /\ OneQueued(q, other) => OneQueued(Abort(op, cond, q), other)
         /\ cond /\ NoneQueued(q, op) => OneQueued(Abort(op, cond, q), op)
         /\ ~cond => Abort(op, cond, q) = q
<1> DEFINE c == Completion(op, "aborted", <<>>)
<1>1. c \in Completions /\ c.op = op
  BY ChunkFacts, CompletionType DEF Errors
<1>2. Abort(op, cond, q) = PostIf(cond, q, c)
  BY DEF Abort
<1> HIDE DEF c
<1>3. PostIf(cond, q, c) \in Seq(Completions)
  BY <1>1, PostFacts
<1>4. ASSUME NEW other, other # op
      PROVE  /\ NoneQueued(q, other) => NoneQueued(PostIf(cond, q, c), other)
             /\ OneQueued(q, other) => OneQueued(PostIf(cond, q, c), other)
  <2>1. c.op # other
    BY <1>1, <1>4
  <2> QED BY <1>1, <2>1, PostFacts
<1>5. cond /\ NoneQueued(q, op) => OneQueued(PostIf(cond, q, c), op)
  BY <1>1, PostFacts
<1>6. ~cond => PostIf(cond, q, c) = q
  BY DEF PostIf
<1> QED BY Zenon, <1>2, <1>3, <1>4, <1>5, <1>6

-----------------------------------------------------------------------------
(* Ownership of an array along the life of its operation.                  *)

\* Starting an operation hands the idle array to the kernel, or to the
\* completion that reports the closed socket; other arrays are not concerned.
LEMMA StartedOwned ==
  ASSUME NEW q \in Seq(Completions), NEW op \in {"send", "recv"}, NEW go \in BOOLEAN
  PROVE  /\ NoneQueued(q, op)
              => Owned(go, go /\ conn # "closed", Started(op, go, q), op)
         /\ \A other, busy, out :
              other # op /\ Owned(busy, out, q, other)
                => Owned(busy, out, Started(op, go, q), other)
<1>1. NoneQueued(q, op) => Owned(go, go /\ conn # "closed", Started(op, go, q), op)
  BY Zenon, StartedFacts DEF Owned
<1>2. ASSUME NEW other, NEW busy, NEW out, other # op, Owned(busy, out, q, other)
      PROVE  Owned(busy, out, Started(op, go, q), other)
  BY Zenon, <1>2, StartedFacts DEF Owned
<1> QED BY <1>1, <1>2

\* Closing the socket moves every outstanding operation to its completion.
LEMMA AbortOwned ==
  ASSUME NEW q \in Seq(Completions), connectOp \in BOOLEAN, recvOp \in BOOLEAN
  PROVE  /\ AbortAll(q) \in Seq(Completions)
         /\ \A busy : Owned(busy, sendOp # <<>>, q, "send")
              => Owned(busy, FALSE, AbortAll(q), "send")
         /\ \A busy : Owned(busy, recvOp, q, "recv")
              => Owned(busy, FALSE, AbortAll(q), "recv")
<1> DEFINE q1 == Abort("recv", recvOp, q)
           q2 == Abort("connect", connectOp, q1)
           q3 == Abort("send", sendOp # <<>>, q2)
<1>0. AbortAll(q) = q3
  BY DEF AbortAll
<1>1. /\ q1 \in Seq(Completions)
      /\ NoneQueued(q, "send") => NoneQueued(q1, "send")
      /\ OneQueued(q, "send") => OneQueued(q1, "send")
      /\ recvOp /\ NoneQueued(q, "recv") => OneQueued(q1, "recv")
      /\ ~recvOp => q1 = q
  BY AbortFacts
<1> HIDE DEF q1
<1>2. /\ q2 \in Seq(Completions)
      /\ NoneQueued(q1, "send") => NoneQueued(q2, "send")
      /\ OneQueued(q1, "send") => OneQueued(q2, "send")
      /\ NoneQueued(q1, "recv") => NoneQueued(q2, "recv")
      /\ OneQueued(q1, "recv") => OneQueued(q2, "recv")
  BY <1>1, AbortFacts
<1> HIDE DEF q2
<1>3. /\ q3 \in Seq(Completions)
      /\ NoneQueued(q2, "recv") => NoneQueued(q3, "recv")
      /\ OneQueued(q2, "recv") => OneQueued(q3, "recv")
      /\ sendOp # <<>> /\ NoneQueued(q2, "send") => OneQueued(q3, "send")
      /\ sendOp = <<>> => q3 = q2
  BY <1>2, AbortFacts
<1> HIDE DEF q3
<1>4. ASSUME NEW busy, Owned(busy, sendOp # <<>>, q, "send")
      PROVE  Owned(busy, FALSE, q3, "send")
  BY Zenon, <1>1, <1>2, <1>3, <1>4 DEF Owned
<1>5. ASSUME NEW busy, Owned(busy, recvOp, q, "recv")
      PROVE  Owned(busy, FALSE, q3, "recv")
  BY Zenon, <1>1, <1>2, <1>3, <1>5 DEF Owned
<1> QED BY <1>0, <1>3, <1>4, <1>5

\* The kernel finishes an operation: its completion is queued.
LEMMA PostOwned ==
  ASSUME NEW q \in Seq(Completions), NEW op \in {"connect", "send", "recv"},
         NEW err \in Errors, NEW data \in Chunks
  PROVE  LET r == Append(q, Completion(op, err, data)) IN
         /\ r \in Seq(Completions)
         /\ \A busy : Owned(busy, TRUE, q, op) => Owned(busy, FALSE, r, op)
         /\ \A other, busy, out :
              other # op /\ Owned(busy, out, q, other) => Owned(busy, out, r, other)
<1> DEFINE c == Completion(op, err, data)
<1>1. c \in Completions /\ c.op = op
  BY CompletionType
<1> HIDE DEF c
<1>2. Append(q, c) = PostIf(TRUE, q, c)
  BY DEF PostIf
<1>3. Append(q, c) \in Seq(Completions)
  BY <1>1
<1>4. ASSUME NEW busy, Owned(busy, TRUE, q, op) PROVE Owned(busy, FALSE, Append(q, c), op)
  <2>1. busy /\ NoneQueued(q, op)
    BY <1>4 DEF Owned
  <2>2. OneQueued(Append(q, c), op)
    BY <1>1, <1>2, <2>1, PostFacts
  <2> QED BY <2>1, <2>2 DEF Owned
<1>5. ASSUME NEW other, NEW busy, NEW out, other # op, Owned(busy, out, q, other)
      PROVE  Owned(busy, out, Append(q, c), other)
  <2>1. c.op # other
    BY <1>1, <1>5
  <2>2. /\ NoneQueued(q, other) => NoneQueued(Append(q, c), other)
        /\ OneQueued(q, other) => OneQueued(Append(q, c), other)
    BY <1>1, <1>2, <2>1, PostFacts
  <2> QED BY Zenon, <1>5, <2>2 DEF Owned
<1> QED BY <1>3, <1>4, <1>5 DEF c

\* A handler takes its completion off the queue: the array it owned is idle.
LEMMA RunOwned ==
  ASSUME NEW q \in Seq(Completions), NEW i \in 1..Len(q)
  PROVE  /\ RemoveAt(q, i) \in Seq(Completions)
         /\ \A busy, out : Owned(busy, out, q, q[i].op)
              => busy /\ ~out /\ NoneQueued(RemoveAt(q, i), q[i].op)
         /\ \A op, busy, out : q[i].op # op /\ Owned(busy, out, q, op)
              => Owned(busy, out, RemoveAt(q, i), op)
<1>1. RemoveAt(q, i) \in Seq(Completions)
  BY RemoveAtFacts
<1>2. ASSUME NEW busy, NEW out, Owned(busy, out, q, q[i].op)
      PROVE  busy /\ ~out /\ NoneQueued(RemoveAt(q, i), q[i].op)
  <2>1. ~NoneQueued(q, q[i].op)
    BY DEF NoneQueued
  <2>2. busy /\ ~out /\ OneQueued(q, q[i].op)
    BY Zenon, <1>2, <2>1 DEF Owned
  <2> QED BY <2>2, RemoveOwn
<1>3. ASSUME NEW op, NEW busy, NEW out, q[i].op # op, Owned(busy, out, q, op)
      PROVE  Owned(busy, out, RemoveAt(q, i), op)
  <2>1. /\ NoneQueued(q, op) => NoneQueued(RemoveAt(q, i), op)
        /\ OneQueued(q, op) => OneQueued(RemoveAt(q, i), op)
    BY <1>3, RemoveOther
  <2> QED BY Zenon, <1>3, <2>1 DEF Owned
<1> QED BY <1>1, <1>2, <1>3

-----------------------------------------------------------------------------
(* The inductive invariant: the properties are inductive together.         *)

Inv == TypeOK /\ OneSendInFlight /\ OneReceiveInFlight /\ BuffersBounded

USE DEF flags, sendSide, recvSide, wire, history

\* A new socket satisfies the invariant.
LEMMA InitInv == Init => Inv
<1> SUFFICES ASSUME Init PROVE Inv
  OBVIOUS
<1>1. FlagsType
  BY Zenon DEF Init, FlagsType
<1>2. ConnType /\ BuffersType /\ ReadyType /\ WireType /\ HistoryType
  BY ChunkFacts DEF Init, ConnType, BuffersType, ReadyType, WireType, HistoryType
<1>3. NoneQueued(ready, "send") /\ NoneQueued(ready, "recv")
  BY DEF Init, NoneQueued
<1>4. OneSendInFlight /\ OneReceiveInFlight
  BY Zenon, <1>3 DEF Init, OneSendInFlight, OneReceiveInFlight, Owned
<1>5. BuffersBounded
  BY SizesAssumption DEF Init, BuffersBounded
<1> QED BY <1>1, <1>2, <1>4, <1>5 DEF Inv, TypeOK

\* Steps that touch neither buffers nor operations keep all but the types.
LEMMA SameBuffers ==
  ASSUME Inv, UNCHANGED <<sending, sendOp, sendBuf, receiving, recvOp, recvBuf, ready>>
  PROVE  /\ OneSendInFlight' /\ OneReceiveInFlight' /\ BuffersBounded'
         /\ BuffersType' /\ ReadyType'
<1>1. OneSendInFlight' /\ OneReceiveInFlight'
  BY Zenon DEF Inv, OneSendInFlight, OneReceiveInFlight
<1>2. BuffersBounded' /\ BuffersType' /\ ReadyType'
  BY Zenon DEF Inv, TypeOK, BuffersBounded, BuffersType, ReadyType
<1> QED BY <1>1, <1>2

\* Where BeginSend leaves the buffer, the flag and the kernel operation.
LEMMA BeginSendFacts ==
  ASSUME NEW buf \in Seq(Nat), NEW go \in BOOLEAN, go => buf # <<>>, BeginSend(buf, go)
  PROVE  /\ sendBuf' = buf /\ sending' = go /\ sendOp' \in Chunks
         /\ sendOp' # <<>> <=> go /\ conn # "closed"
<1>1. Prefix(buf, ChunkSize) \in Chunks
  BY SizesAssumption DEF Prefix, Smaller, Chunks
<1>2. ASSUME buf # <<>> PROVE Prefix(buf, ChunkSize) # <<>>
  <2>1. Len(buf) > 0 /\ Smaller(ChunkSize, Len(buf)) > 0
    BY <1>2, SizesAssumption DEF Smaller
  <2>2. Len(Prefix(buf, ChunkSize)) = Smaller(ChunkSize, Len(buf))
    BY SizesAssumption DEF Prefix, Smaller
  <2> QED BY <2>1, <2>2
<1> QED BY <1>1, <1>2, ChunkFacts DEF BeginSend

\* The same for BeginReceive.
LEMMA BeginReceiveFacts ==
  ASSUME NEW buf \in Seq(Nat), NEW go \in BOOLEAN, BeginReceive(buf, go)
  PROVE  /\ recvBuf' = buf /\ receiving' = go
         /\ recvOp' \in BOOLEAN /\ (recvOp' <=> go /\ conn # "closed")
BY DEF BeginReceive

\* Reset keeps the invariant.
LEMMA ResetInv == ASSUME Inv, Reset PROVE Inv'
<1>1. FlagsType'
  BY ZenonT(20) DEF Inv, TypeOK, FlagsType, Reset
<1>2. ConnType' /\ WireType' /\ HistoryType'
  BY DEF Inv, TypeOK, ConnType, WireType, HistoryType, Reset
<1>3. UNCHANGED <<sending, sendOp, sendBuf, receiving, recvOp, recvBuf, ready>>
  BY Zenon DEF Reset
<1> QED BY Zenon, <1>1, <1>2, <1>3, SameBuffers DEF Inv, TypeOK

\* PeerSends keeps the invariant.
LEMMA PeerSendsInv == ASSUME Inv, PeerSends PROVE Inv'
<1>1. FlagsType'
  BY ZenonT(20) DEF Inv, TypeOK, FlagsType, PeerSends
<1>2. ConnType' /\ WireType' /\ HistoryType'
  BY DEF Inv, TypeOK, ConnType, WireType, HistoryType, PeerSends
<1>3. UNCHANGED <<sending, sendOp, sendBuf, receiving, recvOp, recvBuf, ready>>
  BY Zenon DEF PeerSends
<1> QED BY Zenon, <1>1, <1>2, <1>3, SameBuffers DEF Inv, TypeOK

\* PeerShutsDown keeps the invariant.
LEMMA PeerShutsDownInv == ASSUME Inv, PeerShutsDown PROVE Inv'
<1>1. FlagsType'
  BY ZenonT(20) DEF Inv, TypeOK, FlagsType, PeerShutsDown
<1>2. ConnType' /\ WireType' /\ HistoryType'
  BY DEF Inv, TypeOK, ConnType, WireType, HistoryType, PeerShutsDown
<1>3. UNCHANGED <<sending, sendOp, sendBuf, receiving, recvOp, recvBuf, ready>>
  BY Zenon DEF PeerShutsDown
<1> QED BY Zenon, <1>1, <1>2, <1>3, SameBuffers DEF Inv, TypeOK

\* PeerReceives keeps the invariant.
LEMMA PeerReceivesInv == ASSUME Inv, PeerReceives PROVE Inv'
<1>1. FlagsType'
  BY ZenonT(20) DEF Inv, TypeOK, FlagsType, PeerReceives
<1>2. ConnType' /\ WireType' /\ HistoryType'
  BY DEF Inv, TypeOK, ConnType, WireType, HistoryType, PeerReceives
<1>3. UNCHANGED <<sending, sendOp, sendBuf, receiving, recvOp, recvBuf, ready>>
  BY Zenon DEF PeerReceives
<1> QED BY Zenon, <1>1, <1>2, <1>3, SameBuffers DEF Inv, TypeOK

\* ConnectionLost keeps the invariant.
LEMMA ConnectionLostInv == ASSUME Inv, ConnectionLost PROVE Inv'
<1>1. FlagsType'
  BY ZenonT(20) DEF Inv, TypeOK, FlagsType, ConnectionLost
<1>2. ConnType' /\ WireType' /\ HistoryType'
  BY DEF Inv, TypeOK, ConnType, WireType, HistoryType, ConnectionLost
<1>3. UNCHANGED <<sending, sendOp, sendBuf, receiving, recvOp, recvBuf, ready>>
  BY Zenon DEF ConnectionLost
<1> QED BY Zenon, <1>1, <1>2, <1>3, SameBuffers DEF Inv, TypeOK

\* Shutdown keeps the invariant.
LEMMA ShutdownInv == ASSUME Inv, Shutdown PROVE Inv'
<1>1. FlagsType'
  BY ZenonT(20) DEF Inv, TypeOK, FlagsType, Shutdown, Flushed
<1>2. ConnType' /\ WireType' /\ HistoryType'
  BY DEF Inv, TypeOK, ConnType, WireType, HistoryType, Shutdown, Flushed
<1>3. UNCHANGED <<sending, sendOp, sendBuf, receiving, recvOp, recvBuf, ready>>
  BY Zenon DEF Shutdown, Flushed
<1> QED BY Zenon, <1>1, <1>2, <1>3, SameBuffers DEF Inv, TypeOK

\* The calls that may start an operation.
LEMMA ConnectInv == ASSUME Inv, Connect PROVE Inv'
<1>1. FlagsType'
  BY ZenonT(20) DEF Inv, TypeOK, FlagsType, Connect
<1>2. ConnType' /\ BuffersType' /\ WireType' /\ HistoryType'
  BY DEF Inv, TypeOK, ConnType, BuffersType, WireType, HistoryType, Connect
<1>3. BuffersBounded'
  BY SizesAssumption DEF BuffersBounded, Connect
<1>4. UNCHANGED <<sending, sendOp, receiving, recvOp>>
  BY DEF Connect
<1>5. CASE UNCHANGED ready
  BY Zenon, <1>1, <1>2, <1>3, <1>4, <1>5
     DEF Inv, TypeOK, ReadyType, OneSendInFlight, OneReceiveInFlight
<1>6. CASE ready' = Append(ready, Completion("connect", "other", <<>>))
  <2>1. /\ ready' \in Seq(Completions)
        /\ \A other, busy, out :
             other # "connect" /\ Owned(busy, out, ready, other)
               => Owned(busy, out, ready', other)
    BY <1>6, PostOwned, ChunkFacts DEF Inv, TypeOK, ReadyType, Errors
  <2>2. OneSendInFlight' /\ OneReceiveInFlight'
    BY Zenon, <1>4, <2>1 DEF Inv, OneSendInFlight, OneReceiveInFlight
  <2> QED BY Zenon, <1>1, <1>2, <1>3, <2>1, <2>2 DEF Inv, TypeOK, ReadyType
<1> QED BY Zenon, <1>5, <1>6 DEF Connect

\* SetInternalSocket keeps the invariant.
LEMMA SetInternalSocketInv == ASSUME Inv, SetInternalSocket PROVE Inv'
<1>0. ready = <<>> /\ recvBuf = <<>>
  BY DEF SetInternalSocket
<1>1. FlagsType'
  BY ZenonT(20) DEF Inv, TypeOK, FlagsType, SetInternalSocket
<1>2. ConnType' /\ BuffersType' /\ ReadyType' /\ WireType' /\ HistoryType'
  BY DEF Inv, TypeOK, ConnType, BuffersType, ReadyType, WireType, HistoryType,
         SetInternalSocket
<1>3. OneSendInFlight'
  BY Zenon DEF Inv, OneSendInFlight, SetInternalSocket
<1>4. NoneQueued(ready', "recv")
  BY <1>0 DEF SetInternalSocket, NoneQueued
<1>5. OneReceiveInFlight'
  BY Zenon, <1>4 DEF OneReceiveInFlight, Owned, SetInternalSocket
<1>6. BuffersBounded'
  BY <1>0, SizesAssumption DEF Inv, BuffersBounded, SetInternalSocket
<1> QED BY Zenon, <1>1, <1>2, <1>3, <1>5, <1>6 DEF Inv, TypeOK

\* Send keeps the invariant.
LEMMA SendInv == ASSUME Inv, NEW n \in 1..MaxBytes, Send(n) PROVE Inv'
<1> DEFINE buf == sendBuf \o [i \in 1..n |-> accepted + i]
           go  == Flushed /\ SendIdle /\ CanSend(buf, connected, finSent)
<1>1. buf \in Seq(Nat) /\ Len(buf) = Len(sendBuf) + n
  BY SizesAssumption DEF Inv, TypeOK, BuffersType, HistoryType
<1>2. Len(buf) < MaxBlockSize /\ accepted' = accepted + n
  BY <1>1 DEF Send
<1>3. IF go THEN BeginSend(buf, go) /\ ready' = Started("send", go, ready)
            ELSE sendBuf' = buf /\ UNCHANGED <<sending, sendOp, ready>>
  BY Zenon DEF Send
<1>4. UNCHANGED <<flags, recvSide, conn, connectOp, wire, cleared, delivered, connects>>
  BY DEF Send
<1>5. go => buf # <<>> /\ ~sending
  BY DEF CanSend, SendIdle
<1>6. go \in BOOLEAN
  BY DEF Flushed, SendIdle, CanSend
<1> HIDE DEF buf, go
<1>7. ConnType' /\ WireType' /\ HistoryType'
  BY SizesAssumption, <1>2, <1>4 DEF Inv, TypeOK, ConnType, WireType, HistoryType
<1>8. CASE go
  <2>1. /\ sendBuf' = buf /\ sending' = go /\ sendOp' \in Chunks
        /\ sendOp' # <<>> <=> go /\ conn # "closed"
    BY <1>1, <1>3, <1>5, <1>6, <1>8, BeginSendFacts
  <2>2. NoneQueued(ready, "send")
    BY Zenon, <1>5, <1>8 DEF Inv, OneSendInFlight, Owned
  <2>3. /\ ready' = Started("send", go, ready) /\ ready \in Seq(Completions)
        /\ ready' \in Seq(Completions)
    BY <1>3, <1>6, <1>8, StartedFacts DEF Inv, TypeOK, ReadyType
  <2>4. Owned(go, go /\ conn # "closed", ready', "send")
    BY <1>6, <2>2, <2>3, StartedOwned
  <2>5. OneSendInFlight'
    BY Zenon, <2>1, <2>4 DEF OneSendInFlight, Owned
  <2>6. OneReceiveInFlight'
    BY <1>4, <1>6, <2>3, StartedOwned DEF Inv, OneReceiveInFlight
  <2>7. FlagsType'
    BY Zenon, <1>4, <1>6, <2>1 DEF Inv, TypeOK, FlagsType
  <2>8. BuffersType' /\ ReadyType'
    BY <1>1, <1>4, <2>1, <2>3 DEF Inv, TypeOK, BuffersType, ReadyType
  <2>9. BuffersBounded'
    BY <1>2, <1>4, <2>1 DEF Inv, BuffersBounded
  <2> QED BY Zenon, <1>7, <2>5, <2>6, <2>7, <2>8, <2>9 DEF Inv, TypeOK
<1>9. CASE ~go
  <2>1. sendBuf' = buf /\ UNCHANGED <<sending, sendOp, ready>>
    BY <1>3, <1>9
  <2>2. OneSendInFlight' /\ OneReceiveInFlight' /\ ReadyType'
    BY Zenon, <1>4, <2>1 DEF Inv, TypeOK, ReadyType, OneSendInFlight, OneReceiveInFlight
  <2>3. FlagsType'
    BY Zenon, <1>4, <2>1 DEF Inv, TypeOK, FlagsType
  <2>4. BuffersType'
    BY <1>1, <1>4, <2>1 DEF Inv, TypeOK, BuffersType
  <2>5. BuffersBounded'
    BY <1>2, <1>4, <2>1 DEF Inv, BuffersBounded
  <2> QED BY Zenon, <1>7, <2>2, <2>3, <2>4, <2>5 DEF Inv, TypeOK
<1> QED BY <1>8, <1>9

\* Receive(), ClearBuffers() and the handlers that receive share this step:
\* an idle receive_memory goes to the kernel if there is room in "buf".
LEMMA BeginReceiveInv ==
  ASSUME Inv, NEW q \in Seq(Completions), NEW buf \in Seq(Nat), NEW go \in BOOLEAN,
         NoneQueued(q, "recv"), Owned(sending, sendOp # <<>>, q, "send"),
         BeginReceive(buf, go), ready' = Started("recv", go, q),
         UNCHANGED <<sending, sendOp, conn>>, sendBuf' \in {sendBuf, <<>>},
         Len(buf) < MaxBlockSize + ChunkSize, go => Len(buf) < MaxBlockSize
  PROVE  /\ OneSendInFlight' /\ OneReceiveInFlight' /\ BuffersBounded'
         /\ BuffersType' /\ ReadyType'
         /\ receiving' \in BOOLEAN /\ recvOp' \in BOOLEAN
<1>1. /\ recvBuf' = buf /\ receiving' = go
      /\ recvOp' \in BOOLEAN /\ (recvOp' <=> go /\ conn # "closed")
  BY BeginReceiveFacts
<1>2. ready' \in Seq(Completions)
  BY StartedFacts
<1>3. Owned(go, go /\ conn # "closed", ready', "recv")
  BY StartedOwned
<1>4. OneReceiveInFlight'
  BY Zenon, <1>1, <1>3 DEF OneReceiveInFlight, Owned
<1>5. Owned(sending, sendOp # <<>>, ready', "send")
  BY StartedOwned
<1>6. OneSendInFlight'
  BY Zenon, <1>5 DEF OneSendInFlight
<1>7. BuffersBounded'
  BY <1>1, SizesAssumption DEF Inv, BuffersBounded
<1>8. sendBuf' \in Seq(Nat) /\ sendOp' \in Chunks
  BY Zenon, ChunkFacts DEF Inv, TypeOK, BuffersType
<1>9. BuffersType' /\ ReadyType'
  BY Zenon, <1>1, <1>2, <1>8 DEF BuffersType, ReadyType
<1> QED BY <1>1, <1>4, <1>6, <1>7, <1>9

\* Receive keeps the invariant.
LEMMA ReceiveInv == ASSUME Inv, NEW n \in 1..Len(recvBuf), Receive(n) PROVE Inv'
<1> DEFINE buf == Erase(recvBuf, n)
           go  == Resumes(buf) /\ ReceiveIdle /\ CanReceive(buf, connected, finReceived)
<1>1. buf \in Seq(Nat) /\ Len(buf) <= Len(recvBuf) /\ Len(buf) \in Nat
  <2>1. recvBuf \in Seq(Nat) /\ n \in Nat
    BY DEF Inv, TypeOK, BuffersType
  <2> QED BY <2>1, EraseType
<1>2. IF go THEN BeginReceive(buf, go) /\ ready' = Started("recv", go, ready)
            ELSE recvBuf' = buf /\ UNCHANGED <<receiving, recvOp, ready>>
  BY Zenon DEF Receive
<1>3. /\ UNCHANGED <<flags, sending, sendOp, conn, connectOp, wire, accepted, connects>>
      /\ sendBuf' \in {sendBuf, <<>>}
  BY DEF Receive
<1>4. go => Len(buf) < MaxBlockSize /\ ~receiving
  BY DEF CanReceive, ReceiveIdle
<1>5. go \in BOOLEAN
  BY DEF Resumes, ReceiveIdle, CanReceive
<1>6. HistoryType'
  BY PrefixType DEF Inv, TypeOK, BuffersType, HistoryType, Receive
<1> HIDE DEF buf, go
<1>7. ConnType' /\ WireType'
  BY <1>3 DEF Inv, TypeOK, ConnType, WireType
<1>8. CASE go
  <2>1. NoneQueued(ready, "recv")
    BY Zenon, <1>4, <1>8 DEF Inv, OneReceiveInFlight, Owned
  <2>2. /\ ready \in Seq(Completions)
        /\ Owned(sending, sendOp # <<>>, ready, "send")
    BY Zenon DEF Inv, TypeOK, ReadyType, OneSendInFlight
  <2>3. BeginReceive(buf, go) /\ ready' = Started("recv", go, ready)
    BY <1>2, <1>8
  <2>4. Len(buf) < MaxBlockSize + ChunkSize /\ (go => Len(buf) < MaxBlockSize)
    BY <1>1, <1>4, <1>8, SizesAssumption
  <2>5. /\ OneSendInFlight' /\ OneReceiveInFlight' /\ BuffersBounded'
        /\ BuffersType' /\ ReadyType'
        /\ receiving' \in BOOLEAN /\ recvOp' \in BOOLEAN
    BY <1>1, <1>3, <1>5, <2>1, <2>2, <2>3, <2>4, BeginReceiveInv
  <2>6. FlagsType'
    BY Zenon, <1>3, <2>5 DEF Inv, TypeOK, FlagsType
  <2> QED BY Zenon, <1>6, <1>7, <2>5, <2>6 DEF Inv, TypeOK
<1>9. CASE ~go
  <2>1. recvBuf' = buf /\ UNCHANGED <<receiving, recvOp, ready>>
    BY <1>2, <1>9
  <2>2. OneSendInFlight' /\ OneReceiveInFlight' /\ ReadyType' /\ FlagsType'
    BY Zenon, <1>3, <2>1
       DEF Inv, TypeOK, FlagsType, ReadyType, OneSendInFlight, OneReceiveInFlight
  <2>3. BuffersType'
    <3>1. sendBuf' \in Seq(Nat) /\ sendOp' \in Chunks
      BY Zenon, ChunkFacts, <1>3 DEF Inv, TypeOK, BuffersType
    <3>2. recvBuf' \in Seq(Nat)
      BY <1>1, <2>1
    <3> QED BY Zenon, <3>1, <3>2 DEF BuffersType
  <2>4. BuffersBounded'
    BY <1>1, <1>3, <2>1, SizesAssumption DEF Inv, BuffersBounded
  <2> QED BY Zenon, <1>6, <1>7, <2>2, <2>3, <2>4 DEF Inv, TypeOK
<1> QED BY <1>8, <1>9

\* ClearBuffers keeps the invariant.
LEMMA ClearBuffersInv == ASSUME Inv, ClearBuffers PROVE Inv'
<1> DEFINE buf == <<>>
           go  == ReceiveIdle /\ CanReceive(buf, connected, finReceived)
<1>1. buf \in Seq(Nat) /\ Len(buf) <= Len(recvBuf) /\ Len(buf) \in Nat
  BY DEF Inv, TypeOK, BuffersType
<1>2. IF go THEN BeginReceive(buf, go) /\ ready' = Started("recv", go, ready)
            ELSE recvBuf' = buf /\ UNCHANGED <<receiving, recvOp, ready>>
  BY Zenon DEF ClearBuffers
<1>3. /\ UNCHANGED <<flags, sending, sendOp, conn, connectOp, wire, accepted, connects>>
      /\ sendBuf' \in {sendBuf, <<>>}
  BY DEF ClearBuffers
<1>4. go => Len(buf) < MaxBlockSize /\ ~receiving
  BY DEF CanReceive, ReceiveIdle
<1>5. go \in BOOLEAN
  BY DEF Resumes, ReceiveIdle, CanReceive
<1>6. HistoryType'
  BY DEF Inv, TypeOK, BuffersType, HistoryType, ClearBuffers
<1> HIDE DEF buf, go
<1>7. ConnType' /\ WireType'
  BY <1>3 DEF Inv, TypeOK, ConnType, WireType
<1>8. CASE go
  <2>1. NoneQueued(ready, "recv")
    BY Zenon, <1>4, <1>8 DEF Inv, OneReceiveInFlight, Owned
  <2>2. /\ ready \in Seq(Completions)
        /\ Owned(sending, sendOp # <<>>, ready, "send")
    BY Zenon DEF Inv, TypeOK, ReadyType, OneSendInFlight
  <2>3. BeginReceive(buf, go) /\ ready' = Started("recv", go, ready)
    BY <1>2, <1>8
  <2>4. Len(buf) < MaxBlockSize + ChunkSize /\ (go => Len(buf) < MaxBlockSize)
    BY <1>1, <1>4, <1>8, SizesAssumption
  <2>5. /\ OneSendInFlight' /\ OneReceiveInFlight' /\ BuffersBounded'
        /\ BuffersType' /\ ReadyType'
        /\ receiving' \in BOOLEAN /\ recvOp' \in BOOLEAN
    BY <1>1, <1>3, <1>5, <2>1, <2>2, <2>3, <2>4, BeginReceiveInv
  <2>6. FlagsType'
    BY Zenon, <1>3, <2>5 DEF Inv, TypeOK, FlagsType
  <2> QED BY Zenon, <1>6, <1>7, <2>5, <2>6 DEF Inv, TypeOK
<1>9. CASE ~go
  <2>1. recvBuf' = buf /\ UNCHANGED <<receiving, recvOp, ready>>
    BY <1>2, <1>9
  <2>2. OneSendInFlight' /\ OneReceiveInFlight' /\ ReadyType' /\ FlagsType'
    BY Zenon, <1>3, <2>1
       DEF Inv, TypeOK, FlagsType, ReadyType, OneSendInFlight, OneReceiveInFlight
  <2>3. BuffersType'
    <3>1. sendBuf' \in Seq(Nat) /\ sendOp' \in Chunks
      BY Zenon, ChunkFacts, <1>3 DEF Inv, TypeOK, BuffersType
    <3>2. recvBuf' \in Seq(Nat)
      BY <1>1, <2>1
    <3> QED BY Zenon, <3>1, <3>2 DEF BuffersType
  <2>4. BuffersBounded'
    BY <1>1, <1>3, <2>1, SizesAssumption DEF Inv, BuffersBounded
  <2> QED BY Zenon, <1>6, <1>7, <2>2, <2>3, <2>4 DEF Inv, TypeOK
<1> QED BY <1>8, <1>9

\* asio_socket.close() keeps both arrays owned, whoever calls it.
LEMMA CloseAsioSocketInv ==
  ASSUME Inv, NEW q \in Seq(Completions), CloseAsioSocket(q),
         Owned(sending', sendOp # <<>>, q, "send"), Owned(receiving', recvOp, q, "recv"),
         sendBuf' \in {sendBuf, <<>>}, recvBuf' = recvBuf, receiving' => receiving
  PROVE  /\ OneSendInFlight' /\ OneReceiveInFlight' /\ BuffersBounded'
         /\ BuffersType' /\ ReadyType' /\ ConnType'
         /\ connected' \in BOOLEAN /\ connectOp' \in BOOLEAN
         /\ recvOp' \in BOOLEAN /\ finOut' \in BOOLEAN
<1>1. /\ connectOp \in BOOLEAN /\ recvOp \in BOOLEAN /\ finOut \in BOOLEAN
  BY Zenon DEF Inv, TypeOK, FlagsType
<1>2. /\ ready' = AbortAll(q) /\ sendOp' = <<>> /\ conn' = "closed"
      /\ connected' = FALSE /\ connectOp' = FALSE /\ recvOp' = FALSE
      /\ finOut' = (finOut \/ conn = "est")
  BY DEF CloseAsioSocket
<1>3. /\ ready' \in Seq(Completions)
      /\ Owned(sending', FALSE, ready', "send")
      /\ Owned(receiving', FALSE, ready', "recv")
  BY Zenon, <1>1, <1>2, AbortOwned
<1>4. OneSendInFlight' /\ OneReceiveInFlight'
  BY Zenon, <1>2, <1>3 DEF OneSendInFlight, OneReceiveInFlight, Owned
<1>5. BuffersType' /\ ReadyType' /\ ConnType'
  BY <1>2, <1>3, ChunkFacts DEF Inv, TypeOK, BuffersType, ReadyType, ConnType
<1>6. BuffersBounded'
  BY SizesAssumption DEF Inv, BuffersBounded
<1>7. /\ connected' \in BOOLEAN /\ connectOp' \in BOOLEAN
      /\ recvOp' \in BOOLEAN /\ finOut' \in BOOLEAN
  BY Zenon, <1>2
<1> QED BY <1>4, <1>5, <1>6, <1>7

\* Close keeps the invariant.
LEMMA CloseInv == ASSUME Inv, Close PROVE Inv'
<1>1. UNCHANGED <<requestShutdown, sending, sendBuf, receiving, recvBuf, taken,
                  incoming, finIn, consumed, peerConsumed, history>>
  BY DEF Close
<1>2. WireType' /\ HistoryType'
  BY <1>1 DEF Inv, TypeOK, WireType, HistoryType
<1>3. finSent' \in BOOLEAN /\ finReceived' \in BOOLEAN
  BY ZenonT(20) DEF Inv, TypeOK, FlagsType, Close
<1>4. CASE UNCHANGED <<conn, connectOp, sendOp, recvOp, finOut, ready>> /\ connected' = FALSE
  <2>1. FlagsType' /\ ConnType'
    BY Zenon, <1>1, <1>3, <1>4 DEF Inv, TypeOK, FlagsType, ConnType
  <2> QED BY Zenon, <1>1, <1>2, <1>4, <2>1, SameBuffers DEF Inv, TypeOK
<1>5. CASE CloseAsioSocket(ready)
  <2>1. /\ ready \in Seq(Completions)
        /\ Owned(sending', sendOp # <<>>, ready, "send")
        /\ Owned(receiving', recvOp, ready, "recv")
    BY Zenon, <1>1 DEF Inv, TypeOK, ReadyType, OneSendInFlight, OneReceiveInFlight
  <2>2. /\ OneSendInFlight' /\ OneReceiveInFlight' /\ BuffersBounded'
        /\ BuffersType' /\ ReadyType' /\ ConnType'
        /\ connected' \in BOOLEAN /\ connectOp' \in BOOLEAN
        /\ recvOp' \in BOOLEAN /\ finOut' \in BOOLEAN
    BY Zenon, <1>1, <1>5, <2>1, CloseAsioSocketInv
  <2>3. FlagsType'
    BY Zenon, <1>1, <1>3, <2>2 DEF Inv, TypeOK, FlagsType
  <2> QED BY Zenon, <1>2, <2>2, <2>3 DEF Inv, TypeOK
<1> QED BY Zenon, <1>4, <1>5 DEF Close

-----------------------------------------------------------------------------
(* The kernel.                                                             *)

\* asio finishes an operation: its array passes from the kernel to the
\* completion, the other array is not concerned.
LEMMA CompletedFacts ==
  ASSUME Inv, NEW op \in {"connect", "send", "recv"}, NEW err \in Errors,
         NEW data \in Chunks, ready' = Append(ready, Completion(op, err, data)),
         UNCHANGED <<sending, sendBuf, receiving, recvBuf>>,
         IF op = "send" THEN sendOp # <<>> /\ sendOp' = <<>> ELSE UNCHANGED sendOp,
         IF op = "recv" THEN recvOp /\ recvOp' = FALSE ELSE UNCHANGED recvOp
  PROVE  /\ OneSendInFlight' /\ OneReceiveInFlight' /\ BuffersBounded'
         /\ BuffersType' /\ ReadyType'
<1>1. /\ ready' \in Seq(Completions)
      /\ \A busy : Owned(busy, TRUE, ready, op) => Owned(busy, FALSE, ready', op)
      /\ \A other, busy, out :
           other # op /\ Owned(busy, out, ready, other)
             => Owned(busy, out, ready', other)
  BY PostOwned DEF Inv, TypeOK, ReadyType
<1>2. /\ Owned(sending, sendOp # <<>>, ready, "send")
      /\ Owned(receiving, recvOp, ready, "recv")
  BY Zenon DEF Inv, OneSendInFlight, OneReceiveInFlight
<1>3. OneSendInFlight'
  <2>1. CASE op = "send"
    <3>1. sendOp # <<>> /\ sendOp' = <<>>
      BY <2>1
    <3>2. Owned(sending, TRUE, ready, "send")
      BY Zenon, <1>2, <3>1 DEF Owned
    <3>3. Owned(sending, FALSE, ready', "send")
      BY <1>1, <2>1, <3>2
    <3> QED BY Zenon, <3>1, <3>3 DEF OneSendInFlight, Owned
  <2>2. CASE op # "send"
    BY <1>1, <1>2, <2>2 DEF OneSendInFlight
  <2> QED BY <2>1, <2>2
<1>4. OneReceiveInFlight'
  <2>1. CASE op = "recv"
    <3>1. recvOp /\ recvOp' = FALSE
      BY Zenon, <2>1
    <3>2. Owned(receiving, TRUE, ready, "recv")
      BY Zenon, <1>2, <3>1 DEF Owned
    <3>3. Owned(receiving, FALSE, ready', "recv")
      BY <1>1, <2>1, <3>2
    <3> QED BY Zenon, <3>1, <3>3 DEF OneReceiveInFlight, Owned
  <2>2. CASE op # "recv"
    BY <1>1, <1>2, <2>2 DEF OneReceiveInFlight
  <2> QED BY <2>1, <2>2
<1>5. BuffersType' /\ ReadyType'
  BY <1>1, ChunkFacts DEF Inv, TypeOK, BuffersType, ReadyType
<1>6. BuffersBounded'
  BY Zenon DEF Inv, BuffersBounded
<1> QED BY <1>3, <1>4, <1>5, <1>6

\* KernelConnects keeps the invariant.
LEMMA KernelConnectsInv == ASSUME Inv, KernelConnects PROVE Inv'
<1>1. PICK err \in Errors, data \in Chunks :
        ready' = Append(ready, Completion("connect", err, data))
  BY ChunkFacts DEF KernelConnects, Errors
<1>2. /\ UNCHANGED <<sending, sendBuf, receiving, recvBuf>>
      /\ UNCHANGED <<sendOp, recvOp>>
  BY Zenon DEF KernelConnects
<1>3. /\ OneSendInFlight' /\ OneReceiveInFlight' /\ BuffersBounded'
      /\ BuffersType' /\ ReadyType'
  BY <1>1, <1>2, CompletedFacts
<1>4. FlagsType' /\ ConnType'
  BY ZenonT(20) DEF Inv, TypeOK, FlagsType, ConnType, KernelConnects
<1>5. WireType' /\ HistoryType'
  BY DEF Inv, TypeOK, WireType, HistoryType, KernelConnects
<1> QED BY Zenon, <1>3, <1>4, <1>5 DEF Inv, TypeOK

\* KernelConnectFails keeps the invariant.
LEMMA KernelConnectFailsInv == ASSUME Inv, KernelConnectFails PROVE Inv'
<1>1. PICK err \in Errors, data \in Chunks :
        ready' = Append(ready, Completion("connect", err, data))
  BY ChunkFacts, ErrorsAssumption DEF KernelConnectFails, Errors
<1>2. /\ UNCHANGED <<sending, sendBuf, receiving, recvBuf>>
      /\ UNCHANGED <<sendOp, recvOp>>
  BY Zenon DEF KernelConnectFails
<1>3. /\ OneSendInFlight' /\ OneReceiveInFlight' /\ BuffersBounded'
      /\ BuffersType' /\ ReadyType'
  BY <1>1, <1>2, CompletedFacts
<1>4. FlagsType' /\ ConnType'
  BY ZenonT(20) DEF Inv, TypeOK, FlagsType, ConnType, KernelConnectFails
<1>5. WireType' /\ HistoryType'
  BY DEF Inv, TypeOK, WireType, HistoryType, KernelConnectFails
<1> QED BY Zenon, <1>3, <1>4, <1>5 DEF Inv, TypeOK

\* KernelSends keeps the invariant.
LEMMA KernelSendsInv == ASSUME Inv, KernelSends PROVE Inv'
<1>1. PICK err \in Errors, data \in Chunks :
        /\ ready' = Append(ready, Completion("send", err, data))
        /\ taken' = taken \o data
  <2>1. sendOp \in Seq(Nat) /\ Len(sendOp) <= ChunkSize
    BY ChunkFacts DEF Inv, TypeOK, BuffersType
  <2>2. PICK n \in 1..Smaller(Len(sendOp), NetCapacity - (Len(taken) - peerConsumed)) :
          /\ taken' = taken \o Prefix(sendOp, n)
          /\ ready' = Append(ready, Completion("send", "ok", Prefix(sendOp, n)))
    BY DEF KernelSends
  <2>3. n \in Nat
    OBVIOUS
  <2>4. Prefix(sendOp, n) \in Chunks
    BY <2>1, <2>3, PrefixType, SizesAssumption DEF Chunks
  <2>5. "ok" \in Errors
    BY DEF Errors
  <2> QED BY <2>2, <2>4, <2>5
<1>2. /\ UNCHANGED <<sending, sendBuf, receiving, recvBuf>>
      /\ sendOp # <<>> /\ sendOp' = <<>> /\ UNCHANGED recvOp
  BY Zenon DEF KernelSends
<1>3. /\ OneSendInFlight' /\ OneReceiveInFlight' /\ BuffersBounded'
      /\ BuffersType' /\ ReadyType'
  BY <1>1, <1>2, CompletedFacts
<1>4. FlagsType' /\ ConnType'
  BY ZenonT(20) DEF Inv, TypeOK, FlagsType, ConnType, KernelSends
<1>5. WireType' /\ HistoryType'
  BY <1>1, ChunkFacts DEF Inv, TypeOK, WireType, HistoryType, KernelSends
<1> QED BY Zenon, <1>3, <1>4, <1>5 DEF Inv, TypeOK

\* KernelSendFails keeps the invariant.
LEMMA KernelSendFailsInv == ASSUME Inv, KernelSendFails PROVE Inv'
<1>1. PICK err \in Errors, data \in Chunks :
        ready' = Append(ready, Completion("send", err, data))
  BY ChunkFacts, ErrorsAssumption DEF KernelSendFails, Errors
<1>2. /\ UNCHANGED <<sending, sendBuf, receiving, recvBuf>>
      /\ sendOp # <<>> /\ sendOp' = <<>> /\ UNCHANGED recvOp
  BY Zenon DEF KernelSendFails
<1>3. /\ OneSendInFlight' /\ OneReceiveInFlight' /\ BuffersBounded'
      /\ BuffersType' /\ ReadyType'
  BY <1>1, <1>2, CompletedFacts
<1>4. FlagsType' /\ ConnType'
  BY ZenonT(20) DEF Inv, TypeOK, FlagsType, ConnType, KernelSendFails
<1>5. WireType' /\ HistoryType'
  BY DEF Inv, TypeOK, WireType, HistoryType, KernelSendFails
<1> QED BY Zenon, <1>3, <1>4, <1>5 DEF Inv, TypeOK

\* KernelReceives keeps the invariant.
LEMMA KernelReceivesInv == ASSUME Inv, KernelReceives PROVE Inv'
<1>1. PICK err \in Errors, data \in Chunks :
        /\ ready' = Append(ready, Completion("recv", err, data))
        /\ consumed' \in 0..Len(incoming)
  <2>1. incoming \in Seq(Nat) /\ consumed \in 0..Len(incoming)
    BY DEF Inv, TypeOK, WireType
  <2>2. PICK n \in 1..Smaller(ChunkSize, Len(incoming) - consumed) :
          /\ consumed' = consumed + n
          /\ ready' = Append(ready, Completion("recv", "ok",
                               SubSeq(incoming, consumed + 1, consumed + n)))
    BY DEF KernelReceives
  <2>3. n \in Nat /\ n <= ChunkSize /\ consumed + n <= Len(incoming)
    BY <2>1, SizesAssumption DEF Smaller
  <2>4. SubSeq(incoming, consumed + 1, consumed + n) \in Chunks
    BY <2>1, <2>3, SizesAssumption DEF Chunks
  <2>5. "ok" \in Errors
    BY DEF Errors
  <2> QED BY <2>1, <2>2, <2>3, <2>4, <2>5
<1>2. /\ UNCHANGED <<sending, sendBuf, receiving, recvBuf>>
      /\ recvOp /\ recvOp' = FALSE /\ UNCHANGED sendOp
  BY Zenon DEF KernelReceives
<1>3. /\ OneSendInFlight' /\ OneReceiveInFlight' /\ BuffersBounded'
      /\ BuffersType' /\ ReadyType'
  BY <1>1, <1>2, CompletedFacts
<1>4. FlagsType' /\ ConnType'
  BY ZenonT(20) DEF Inv, TypeOK, FlagsType, ConnType, KernelReceives
<1>5. WireType' /\ HistoryType'
  BY <1>1, ChunkFacts DEF Inv, TypeOK, WireType, HistoryType, KernelReceives
<1> QED BY Zenon, <1>3, <1>4, <1>5 DEF Inv, TypeOK

\* KernelReceivesFin keeps the invariant.
LEMMA KernelReceivesFinInv == ASSUME Inv, KernelReceivesFin PROVE Inv'
<1>1. PICK err \in Errors, data \in Chunks :
        ready' = Append(ready, Completion("recv", err, data))
  BY ChunkFacts DEF KernelReceivesFin, Errors
<1>2. /\ UNCHANGED <<sending, sendBuf, receiving, recvBuf>>
      /\ recvOp /\ recvOp' = FALSE /\ UNCHANGED sendOp
  BY Zenon DEF KernelReceivesFin
<1>3. /\ OneSendInFlight' /\ OneReceiveInFlight' /\ BuffersBounded'
      /\ BuffersType' /\ ReadyType'
  BY <1>1, <1>2, CompletedFacts
<1>4. FlagsType' /\ ConnType'
  BY ZenonT(20) DEF Inv, TypeOK, FlagsType, ConnType, KernelReceivesFin
<1>5. WireType' /\ HistoryType'
  BY DEF Inv, TypeOK, WireType, HistoryType, KernelReceivesFin
<1> QED BY Zenon, <1>3, <1>4, <1>5 DEF Inv, TypeOK

\* KernelReceiveFails keeps the invariant.
LEMMA KernelReceiveFailsInv == ASSUME Inv, KernelReceiveFails PROVE Inv'
<1>1. PICK err \in Errors, data \in Chunks :
        ready' = Append(ready, Completion("recv", err, data))
  BY ChunkFacts, ErrorsAssumption DEF KernelReceiveFails, Errors
<1>2. /\ UNCHANGED <<sending, sendBuf, receiving, recvBuf>>
      /\ recvOp /\ recvOp' = FALSE /\ UNCHANGED sendOp
  BY Zenon DEF KernelReceiveFails
<1>3. /\ OneSendInFlight' /\ OneReceiveInFlight' /\ BuffersBounded'
      /\ BuffersType' /\ ReadyType'
  BY <1>1, <1>2, CompletedFacts
<1>4. FlagsType' /\ ConnType'
  BY ZenonT(20) DEF Inv, TypeOK, FlagsType, ConnType, KernelReceiveFails
<1>5. WireType' /\ HistoryType'
  BY DEF Inv, TypeOK, WireType, HistoryType, KernelReceiveFails
<1> QED BY Zenon, <1>3, <1>4, <1>5 DEF Inv, TypeOK


-----------------------------------------------------------------------------
(* The handlers: the completion at i leaves the queue, so its array is     *)
(* idle when the handler decides whether to start the next operation.      *)

\* The connect handler starts each operation only on an idle array.
LEMMA ConnectHandlerInv ==
  ASSUME Inv, NEW c \in Completions, NEW queue \in Seq(Completions),
         Owned(sending, sendOp # <<>>, queue, "send"),
         Owned(receiving, recvOp, queue, "recv"),
         ConnectHandler(c, queue)
  PROVE  Inv'
<1> DEFINE goRecv == CanReceive(recvBuf, TRUE, FALSE)
           goSend == CanSend(sendBuf, TRUE, FALSE)
           startRecv == ReceiveIdle /\ goRecv
           startSend == SendIdle /\ goSend
           queueR == Started("recv", startRecv, queue)
<1>1. UNCHANGED <<conn, connectOp, wire, history>>
  BY DEF ConnectHandler
<1>2. ConnType' /\ WireType' /\ HistoryType'
  BY <1>1 DEF Inv, TypeOK, ConnType, WireType, HistoryType
<1>3. CASE c.err = "ok"
  <2>1. /\ connected' = TRUE /\ requestShutdown' = FALSE
        /\ finSent' = FALSE /\ finReceived' = FALSE
        /\ IF ReceiveIdle THEN BeginReceive(recvBuf, goRecv) ELSE UNCHANGED recvSide
        /\ IF SendIdle THEN BeginSend(sendBuf, goSend) ELSE UNCHANGED sendSide
        /\ ready' = Started("send", startSend, queueR)
    BY Zenon, <1>3 DEF ConnectHandler
  <2>2. /\ goRecv \in BOOLEAN /\ goSend \in BOOLEAN
        /\ startRecv \in BOOLEAN /\ startSend \in BOOLEAN
    BY DEF CanReceive, CanSend, SendIdle, ReceiveIdle
  <2>3. /\ goRecv => Len(recvBuf) < MaxBlockSize
        /\ goSend => sendBuf # <<>>
    BY DEF CanReceive, CanSend
  <2>4. sendBuf \in Seq(Nat) /\ recvBuf \in Seq(Nat) /\ sendOp \in Chunks
    BY DEF Inv, TypeOK, BuffersType
  <2> HIDE DEF goRecv, goSend
  <2>5. /\ recvBuf' = recvBuf
        /\ receiving' = (IF ReceiveIdle THEN goRecv ELSE receiving)
        /\ recvOp' \in BOOLEAN
        /\ recvOp' <=> IF ReceiveIdle THEN goRecv /\ conn # "closed" ELSE recvOp
    <3>1. CASE ReceiveIdle
      BY <2>1, <2>2, <2>4, <3>1, BeginReceiveFacts
    <3>2. CASE ~ReceiveIdle
      BY ZenonT(20), <2>1, <3>2 DEF Inv, TypeOK, FlagsType
    <3> QED BY <3>1, <3>2
  <2>6. /\ sendBuf' = sendBuf
        /\ sending' = (IF SendIdle THEN goSend ELSE sending)
        /\ sendOp' \in Chunks
        /\ sendOp' # <<>> <=> IF SendIdle THEN goSend /\ conn # "closed" ELSE sendOp # <<>>
    <3>1. CASE SendIdle
      BY <2>1, <2>2, <2>3, <2>4, <3>1, BeginSendFacts
    <3>2. CASE ~SendIdle
      BY ZenonT(20), <2>1, <2>4, <3>2
    <3> QED BY <3>1, <3>2
  <2>7. /\ queueR \in Seq(Completions)
        /\ Owned(receiving', recvOp', queueR, "recv")
        /\ Owned(sending, sendOp # <<>>, queueR, "send")
    <3>1. queueR \in Seq(Completions)
      BY <2>2, StartedFacts
    <3>2. Owned(sending, sendOp # <<>>, queueR, "send")
      BY <2>2, StartedOwned
    <3>3. CASE ReceiveIdle
      <4>1. NoneQueued(queue, "recv")
        BY Zenon, <3>3 DEF Owned, ReceiveIdle
      <4>2. startRecv <=> goRecv
        BY <3>3
      <4>3. Owned(startRecv, startRecv /\ conn # "closed", queueR, "recv")
        BY <2>2, <4>1, StartedOwned
      <4>4. Owned(receiving', recvOp', queueR, "recv")
        BY Zenon, <2>5, <3>3, <4>2, <4>3 DEF Owned
      <4> QED BY <3>1, <3>2, <4>4
    <3>4. CASE ~ReceiveIdle
      <4>1. Owned(receiving, recvOp, queueR, "recv")
        <5>1. startRecv = FALSE
          BY <3>4
        <5>2. queueR = queue
          BY <2>2, <5>1, StartedFacts
        <5> QED BY <5>2
      <4>2. Owned(receiving', recvOp', queueR, "recv")
        BY Zenon, <2>5, <3>4, <4>1 DEF Owned
      <4> QED BY <3>1, <3>2, <4>2
    <3> QED BY <3>3, <3>4
  <2> HIDE DEF queueR
  <2>8. /\ ready' \in Seq(Completions)
        /\ Owned(receiving', recvOp', ready', "recv")
        /\ Owned(sending', sendOp' # <<>>, ready', "send")
    <3>1. ready' \in Seq(Completions)
      BY <2>1, <2>2, <2>7, StartedFacts
    <3>2. Owned(receiving', recvOp', ready', "recv")
      BY <2>1, <2>2, <2>7, StartedOwned
    <3>3. CASE SendIdle
      <4>1. NoneQueued(queueR, "send")
        BY Zenon, <2>7, <3>3 DEF Owned, SendIdle
      <4>2. startSend <=> goSend
        BY <3>3
      <4>3. Owned(startSend, startSend /\ conn # "closed", ready', "send")
        BY <2>1, <2>2, <2>7, <4>1, StartedOwned
      <4>4. Owned(sending', sendOp' # <<>>, ready', "send")
        BY Zenon, <2>6, <3>3, <4>2, <4>3 DEF Owned
      <4> QED BY <3>1, <3>2, <4>4
    <3>4. CASE ~SendIdle
      <4>1. startSend = FALSE
        BY <3>4
      <4>2. ready' = queueR
        BY <2>1, <2>2, <2>7, <4>1, StartedFacts
      <4>3. Owned(sending', sendOp' # <<>>, ready', "send")
        BY Zenon, <2>6, <2>7, <3>4, <4>2 DEF Owned
      <4> QED BY <3>1, <3>2, <4>3
    <3> QED BY <3>3, <3>4
  <2>9. OneSendInFlight' /\ OneReceiveInFlight' /\ BuffersType' /\ ReadyType'
    BY Zenon, <2>4, <2>5, <2>6, <2>8
       DEF OneSendInFlight, OneReceiveInFlight, BuffersType, ReadyType
  <2>10. BuffersBounded'
    <3>1. receiving' => Len(recvBuf) < MaxBlockSize
      BY <2>3, <2>5 DEF Inv, BuffersBounded, ReceiveIdle
    <3> QED BY <2>5, <2>6, <3>1 DEF Inv, BuffersBounded
  <2>11. sending' \in BOOLEAN /\ receiving' \in BOOLEAN
    BY Zenon, <2>2, <2>5, <2>6 DEF Inv, TypeOK, FlagsType
  <2>12. FlagsType'
    BY Zenon, <1>1, <2>1, <2>5, <2>11 DEF Inv, TypeOK, FlagsType
  <2> QED BY Zenon, <1>2, <2>9, <2>10, <2>12 DEF Inv, TypeOK
<1>4. CASE c.err # "ok"
  <2>1. /\ connected' = FALSE
        /\ finSent' = (finSent \/ c.err # "other")
        /\ finReceived' = (finReceived \/ c.err # "other")
        /\ ready' = queue
        /\ UNCHANGED <<requestShutdown, sendSide, recvSide>>
    BY Zenon, <1>4 DEF ConnectHandler
  <2>2. FlagsType'
    BY Zenon, <1>1, <2>1 DEF Inv, TypeOK, FlagsType
  <2>3. BuffersType' /\ ReadyType' /\ OneSendInFlight' /\ OneReceiveInFlight'
    BY Zenon, <2>1 DEF Inv, TypeOK, BuffersType, ReadyType, OneSendInFlight,
                       OneReceiveInFlight
  <2>4. BuffersBounded'
    BY Zenon, <2>1 DEF Inv, BuffersBounded
  <2> QED BY Zenon, <1>2, <2>2, <2>3, <2>4 DEF Inv, TypeOK
<1> QED BY <1>3, <1>4

\* The put-off FIN, which may close the socket, keeps both arrays owned.
LEMMA FinishShutdownInv ==
  ASSUME Inv, NEW queue \in Seq(Completions), FinishShutdown(queue),
         sending' = FALSE, sendOp' = <<>>, sendBuf' = <<>>, recvBuf' = recvBuf,
         receiving' = receiving, sendOp = <<>>, NoneQueued(queue, "send"),
         Owned(receiving, recvOp, queue, "recv")
  PROVE  /\ OneSendInFlight' /\ OneReceiveInFlight' /\ BuffersBounded'
         /\ BuffersType' /\ ReadyType' /\ ConnType'
         /\ connected' \in BOOLEAN /\ connectOp' \in BOOLEAN
         /\ recvOp' \in BOOLEAN /\ finOut' \in BOOLEAN
         /\ finSent' \in BOOLEAN /\ finReceived' \in BOOLEAN
<1>1. Owned(sending', sendOp # <<>>, queue, "send")
  BY Zenon DEF Owned
<1>2. finSent' \in BOOLEAN /\ finReceived' \in BOOLEAN
  <2>1. finSent \in BOOLEAN /\ finReceived \in BOOLEAN
    BY Zenon DEF Inv, TypeOK, FlagsType
  <2>2. CASE UNCHANGED <<finSent, finReceived>>
    BY <2>1, <2>2
  <2>3. ASSUME NEW result, finSent' = (result \in {"ok", "reset"}),
               finReceived' = (finReceived \/ result = "reset")
        PROVE  finSent' \in BOOLEAN /\ finReceived' \in BOOLEAN
    <3>1. (result \in {"ok", "reset"}) \in BOOLEAN
      BY SMT
    <3>2. (finReceived \/ result = "reset") \in BOOLEAN
      BY SMT
    <3> QED BY Zenon, <2>3, <3>1, <3>2
  <2> QED BY Zenon, <2>2, <2>3 DEF FinishShutdown
<1>3. CASE CloseAsioSocket(queue)
  BY <1>1, <1>2, <1>3, CloseAsioSocketInv
<1>4. CASE /\ ready' = queue /\ UNCHANGED <<connected, conn, connectOp, recvOp>>
           /\ finOut' \in {finOut, finOut \/ conn = "est"}
  <2>1. OneSendInFlight' /\ OneReceiveInFlight' /\ ReadyType' /\ ConnType'
    BY Zenon, <1>1, <1>4 DEF Inv, TypeOK, ConnType, OneSendInFlight,
                             OneReceiveInFlight, ReadyType
  <2>2. BuffersType' /\ BuffersBounded'
    BY ChunkFacts, SizesAssumption DEF Inv, TypeOK, BuffersType, BuffersBounded
  <2>3. finOut' \in BOOLEAN /\ connected' \in BOOLEAN /\ connectOp' \in BOOLEAN
        /\ recvOp' \in BOOLEAN
    BY Zenon, <1>4 DEF Inv, TypeOK, FlagsType
  <2> QED BY <1>2, <2>1, <2>2, <2>3
<1> QED BY Zenon, <1>3, <1>4 DEF FinishShutdown

\* SendHandler restarts sending only after its own operation has completed.
LEMMA SendHandlerInv ==
  ASSUME Inv, NEW c \in Completions, NEW queue \in Seq(Completions),
         NoneQueued(queue, "send"), sendOp = <<>>,
         Owned(receiving, recvOp, queue, "recv"),
         SendHandler(c, queue)
  PROVE  Inv'
<1> DEFINE rest == Erase(sendBuf, Len(c.data))
           go   == CanSend(rest, connected, finSent)
<1>1. /\ UNCHANGED <<requestShutdown, receiving, recvBuf, taken, incoming, finIn,
                     consumed, peerConsumed, history>>
  BY DEF SendHandler
<1>2. WireType' /\ HistoryType'
  BY <1>1 DEF Inv, TypeOK, WireType, HistoryType
<1>3. CASE sendBuf = <<>> \/ c.err # "ok"
  <2>1. /\ sending' = FALSE /\ ready' = queue
        /\ UNCHANGED <<sendBuf, sendOp, connected, finSent, finReceived, conn,
                       connectOp, recvOp, finOut>>
    BY Zenon, <1>3 DEF SendHandler
  <2>2. FlagsType' /\ ConnType'
    BY Zenon, <1>1, <2>1 DEF Inv, TypeOK, FlagsType, ConnType
  <2>3. OneSendInFlight' /\ OneReceiveInFlight' /\ ReadyType'
    BY Zenon, <1>1, <2>1 DEF OneSendInFlight, OneReceiveInFlight, Owned, ReadyType
  <2>4. BuffersType' /\ BuffersBounded'
    BY Zenon, <1>1, <2>1 DEF Inv, TypeOK, BuffersType, BuffersBounded
  <2> QED BY Zenon, <1>2, <2>2, <2>3, <2>4 DEF Inv, TypeOK
<1>4. CASE ~(sendBuf = <<>> \/ c.err # "ok")
  <2>1. /\ BeginSend(rest, go)
        /\ IF rest = <<>>
             THEN FinishShutdown(queue)
             ELSE /\ ready' = Started("send", go, queue)
                  /\ UNCHANGED <<connected, finSent, finReceived, conn,
                                 connectOp, recvOp, finOut>>
    BY Zenon, <1>4 DEF SendHandler
  <2>2. c.data \in Seq(Nat) /\ Len(c.data) \in Nat
    BY ChunkFacts DEF Completions
  <2>3. rest \in Seq(Nat) /\ Len(rest) <= Len(sendBuf)
    BY <2>2, EraseType DEF Inv, TypeOK, BuffersType
  <2>4. go \in BOOLEAN /\ (go => rest # <<>>)
    BY DEF CanSend
  <2> HIDE DEF rest, go
  <2>5. /\ sendBuf' = rest /\ sending' = go /\ sendOp' \in Chunks
        /\ sendOp' # <<>> <=> go /\ conn # "closed"
    BY <2>1, <2>3, <2>4, BeginSendFacts
  <2>6. CASE rest = <<>>
    <3>1. sending' = FALSE /\ sendOp' = <<>> /\ sendBuf' = <<>>
      BY <2>4, <2>5, <2>6
    <3>2. /\ OneSendInFlight' /\ OneReceiveInFlight' /\ BuffersBounded'
          /\ BuffersType' /\ ReadyType' /\ ConnType'
          /\ connected' \in BOOLEAN /\ connectOp' \in BOOLEAN
          /\ recvOp' \in BOOLEAN /\ finOut' \in BOOLEAN
          /\ finSent' \in BOOLEAN /\ finReceived' \in BOOLEAN
      <4>1. FinishShutdown(queue)
        BY <2>1, <2>6
      <4> QED BY <1>1, <3>1, <4>1, FinishShutdownInv
    <3>3. FlagsType'
      BY Zenon, <1>1, <3>1, <3>2 DEF Inv, TypeOK, FlagsType
    <3> QED BY Zenon, <1>2, <3>2, <3>3 DEF Inv, TypeOK
  <2>7. CASE rest # <<>>
    <3>1. /\ ready' = Started("send", go, queue)
          /\ UNCHANGED <<connected, finSent, finReceived, conn, connectOp, recvOp,
                         finOut>>
      BY <2>1, <2>7
    <3>2. /\ ready' \in Seq(Completions)
          /\ Owned(go, go /\ conn # "closed", ready', "send")
          /\ Owned(receiving, recvOp, ready', "recv")
      BY <2>4, <3>1, StartedFacts, StartedOwned
    <3>3. OneSendInFlight' /\ OneReceiveInFlight' /\ ReadyType'
      BY Zenon, <1>1, <2>5, <3>1, <3>2
         DEF OneSendInFlight, OneReceiveInFlight, Owned, ReadyType
    <3>4. FlagsType' /\ ConnType'
      BY Zenon, <1>1, <2>4, <2>5, <3>1 DEF Inv, TypeOK, FlagsType, ConnType
    <3>5. BuffersType'
      BY Zenon, <1>1, <2>3, <2>5 DEF Inv, TypeOK, BuffersType
    <3>6. BuffersBounded'
      <4>1. Len(sendBuf) < MaxBlockSize /\ sendBuf \in Seq(Nat)
        BY DEF Inv, BuffersBounded, TypeOK, BuffersType
      <4>2. Len(rest) < MaxBlockSize
        BY <2>3, <4>1, SizesAssumption
      <4> QED BY <1>1, <2>5, <4>2 DEF Inv, BuffersBounded
    <3> QED BY Zenon, <1>2, <3>3, <3>4, <3>5, <3>6 DEF Inv, TypeOK
  <2> QED BY <2>6, <2>7
<1> QED BY <1>3, <1>4

\* ReceiveHandler restarts receiving, or closes the socket, with its array idle.
LEMMA ReceiveHandlerInv ==
  ASSUME Inv, NEW c \in Completions, NEW queue \in Seq(Completions),
         NoneQueued(queue, "recv"), recvOp = FALSE, receiving = TRUE,
         Owned(sending, sendOp # <<>>, queue, "send"),
         ReceiveHandler(c, queue)
  PROVE  Inv'
<1>1. UNCHANGED <<requestShutdown, sending, taken, incoming, finIn, consumed,
                  peerConsumed, history>>
  BY DEF ReceiveHandler
<1>2. WireType' /\ HistoryType'
  BY <1>1 DEF Inv, TypeOK, WireType, HistoryType
<1>3. ASSUME finReceived' = TRUE, finSent' = TRUE, sendBuf' = <<>>,
             receiving' = FALSE, UNCHANGED recvBuf,
             IF conn = "closed"
               THEN /\ connected' = FALSE /\ ready' = queue
                    /\ UNCHANGED <<conn, connectOp, sendOp, recvOp, finOut>>
               ELSE CloseAsioSocket(queue)
      PROVE  Inv'
  <2>1. Owned(receiving', recvOp, queue, "recv")
    BY Zenon, <1>3 DEF Owned
  <2>2. CASE conn = "closed"
    <3>1. /\ connected' = FALSE /\ ready' = queue
          /\ UNCHANGED <<conn, connectOp, sendOp, recvOp, finOut>>
      BY <1>3, <2>2
    <3>2. FlagsType' /\ ConnType'
      BY Zenon, <1>1, <1>3, <3>1 DEF Inv, TypeOK, FlagsType, ConnType
    <3>3. OneSendInFlight' /\ OneReceiveInFlight' /\ ReadyType'
      BY Zenon, <1>1, <2>1, <3>1 DEF OneSendInFlight, OneReceiveInFlight, ReadyType
    <3>4. BuffersType' /\ BuffersBounded'
      BY <1>3, <3>1, ChunkFacts, SizesAssumption
         DEF Inv, TypeOK, BuffersType, BuffersBounded
    <3> QED BY Zenon, <1>2, <3>2, <3>3, <3>4 DEF Inv, TypeOK
  <2>3. CASE conn # "closed"
    <3>1. CloseAsioSocket(queue)
      BY <1>3, <2>3
    <3>2. Owned(sending', sendOp # <<>>, queue, "send")
      BY <1>1
    <3>3. /\ OneSendInFlight' /\ OneReceiveInFlight' /\ BuffersBounded'
          /\ BuffersType' /\ ReadyType' /\ ConnType'
          /\ connected' \in BOOLEAN /\ connectOp' \in BOOLEAN
          /\ recvOp' \in BOOLEAN /\ finOut' \in BOOLEAN
      BY <1>3, <2>1, <3>1, <3>2, CloseAsioSocketInv
    <3>4. FlagsType'
      BY Zenon, <1>1, <1>3, <3>3 DEF Inv, TypeOK, FlagsType
    <3> QED BY Zenon, <1>2, <3>3, <3>4 DEF Inv, TypeOK
  <2> QED BY <2>2, <2>3
<1>4. ASSUME receiving' = FALSE, ready' = queue,
             UNCHANGED <<finReceived, finSent, sendBuf, recvBuf, connected, conn,
                         connectOp, sendOp, recvOp, finOut>>
      PROVE  Inv'
  <2>1. FlagsType' /\ ConnType'
    BY Zenon, <1>1, <1>4 DEF Inv, TypeOK, FlagsType, ConnType
  <2>2. OneSendInFlight' /\ OneReceiveInFlight' /\ ReadyType'
    BY Zenon, <1>1, <1>4 DEF OneSendInFlight, OneReceiveInFlight, Owned, ReadyType
  <2>3. BuffersType' /\ BuffersBounded'
    BY Zenon, <1>4 DEF Inv, TypeOK, BuffersType, BuffersBounded
  <2> QED BY Zenon, <1>2, <2>1, <2>2, <2>3 DEF Inv, TypeOK
<1>5. ASSUME finReceived' = (finReceived \/ IsEof(c)),
             LET buf == recvBuf \o c.data
                 go  == CanReceive(buf, connected, finReceived')
             IN  BeginReceive(buf, go) /\ ready' = Started("recv", go, queue),
             UNCHANGED <<finSent, sendBuf, connected, conn, connectOp, sendOp, finOut>>
      PROVE  Inv'
  <2> DEFINE buf == recvBuf \o c.data
             go  == CanReceive(buf, connected, finReceived')
  <2>1. c.data \in Seq(Nat) /\ Len(c.data) \in Nat /\ Len(c.data) <= ChunkSize
    BY ChunkFacts DEF Completions
  <2>2. recvBuf \in Seq(Nat) /\ Len(recvBuf) < MaxBlockSize
    BY DEF Inv, TypeOK, BuffersType, BuffersBounded
  <2>3. buf \in Seq(Nat) /\ Len(buf) < MaxBlockSize + ChunkSize
    BY <2>1, <2>2, SizesAssumption
  <2>4. go \in BOOLEAN /\ (go => Len(buf) < MaxBlockSize)
    BY DEF CanReceive
  <2>5. BeginReceive(buf, go) /\ ready' = Started("recv", go, queue)
    BY <1>5
  <2> HIDE DEF buf, go
  <2>6. /\ OneSendInFlight' /\ OneReceiveInFlight' /\ BuffersBounded'
        /\ BuffersType' /\ ReadyType'
        /\ receiving' \in BOOLEAN /\ recvOp' \in BOOLEAN
    <3>1. sendBuf' \in {sendBuf, <<>>}
      BY <1>5
    <3> QED BY <1>1, <1>5, <2>3, <2>4, <2>5, <3>1, BeginReceiveInv
  <2>7. FlagsType' /\ ConnType'
    BY Zenon, <1>1, <1>5, <2>6 DEF Inv, TypeOK, FlagsType, ConnType
  <2> QED BY Zenon, <1>2, <2>6, <2>7 DEF Inv, TypeOK
<1> QED BY Zenon, <1>3, <1>4, <1>5 DEF ReceiveHandler

\* Whichever ready completion an io thread runs, the invariant is kept.
LEMMA HandlerStepInv == ASSUME Inv, HandlerStep PROVE Inv'
<1>1. PICK i \in 1..Smaller(IoThreads, Len(ready)) : RunHandler(i)
  BY DEF HandlerStep
<1> DEFINE c == ready[i]
           queue == RemoveAt(ready, i)
<1>2. /\ ready \in Seq(Completions) /\ i \in 1..Len(ready)
  BY SizesAssumption DEF Inv, TypeOK, ReadyType, Smaller
<1>3. c \in Completions
  BY <1>2
<1>4. /\ queue \in Seq(Completions)
      /\ \A busy, out : Owned(busy, out, ready, c.op)
           => busy /\ ~out /\ NoneQueued(queue, c.op)
      /\ \A op, busy, out : c.op # op /\ Owned(busy, out, ready, op)
           => Owned(busy, out, queue, op)
  BY <1>2, RunOwned
<1>5. /\ Owned(sending, sendOp # <<>>, ready, "send")
      /\ Owned(receiving, recvOp, ready, "recv")
  BY Zenon DEF Inv, OneSendInFlight, OneReceiveInFlight
<1>6. \/ c.op = "connect" /\ ConnectHandler(c, queue)
      \/ c.op = "send" /\ SendHandler(c, queue)
      \/ c.op = "recv" /\ ReceiveHandler(c, queue)
  BY <1>1 DEF RunHandler
<1> HIDE DEF c, queue
<1>7. CASE c.op = "connect" /\ ConnectHandler(c, queue)
  BY <1>3, <1>4, <1>5, <1>7, ConnectHandlerInv
<1>8. CASE c.op = "send" /\ SendHandler(c, queue)
  <2>1. NoneQueued(queue, "send") /\ ~(sendOp # <<>>)
    BY <1>4, <1>5, <1>8
  <2>2. Owned(receiving, recvOp, queue, "recv")
    BY <1>4, <1>5, <1>8
  <2> QED BY <1>3, <1>4, <1>8, <2>1, <2>2, SendHandlerInv
<1>9. CASE c.op = "recv" /\ ReceiveHandler(c, queue)
  <2>1. NoneQueued(queue, "recv") /\ ~recvOp /\ receiving
    BY <1>4, <1>5, <1>9
  <2>2. recvOp = FALSE /\ receiving = TRUE
    BY Zenon, <2>1 DEF Inv, TypeOK, FlagsType
  <2>3. Owned(sending, sendOp # <<>>, queue, "send")
    BY <1>4, <1>5, <1>9
  <2> QED BY <1>3, <1>4, <1>9, <2>1, <2>2, <2>3, ReceiveHandlerInv
<1> QED BY <1>6, <1>7, <1>8, <1>9

-----------------------------------------------------------------------------
(* The specification.                                                      *)

\* A stuttering step keeps the invariant.
LEMMA StutterInv == ASSUME Inv, UNCHANGED vars PROVE Inv'
<1>1. FlagsType' /\ ConnType' /\ WireType' /\ HistoryType'
  BY Zenon DEF vars, Inv, TypeOK, FlagsType, ConnType, WireType, HistoryType
<1>2. UNCHANGED <<sending, sendOp, sendBuf, receiving, recvOp, recvBuf, ready>>
  BY Zenon DEF vars
<1> QED BY Zenon, <1>1, <1>2, SameBuffers DEF Inv, TypeOK

\* The invariant is inductive.
LEMMA NextInv == Inv /\ [Next]_vars => Inv'
<1> SUFFICES ASSUME Inv, [Next]_vars PROVE Inv'
  OBVIOUS
<1>1. CASE ApplicationStep
  BY Zenon, <1>1, ConnectInv, SetInternalSocketInv, ShutdownInv, CloseInv, ResetInv,
     ClearBuffersInv, SendInv, ReceiveInv DEF ApplicationStep
<1>2. CASE HandlerStep
  BY <1>2, HandlerStepInv
<1>3. CASE KernelStep
  BY Zenon, <1>3, KernelConnectsInv, KernelConnectFailsInv, KernelSendsInv,
     KernelSendFailsInv, KernelReceivesInv, KernelReceivesFinInv,
     KernelReceiveFailsInv, ConnectionLostInv DEF KernelStep
<1>4. CASE PeerStep
  BY Zenon, <1>4, PeerSendsInv, PeerShutsDownInv, PeerReceivesInv DEF PeerStep
<1>5. CASE UNCHANGED vars
  BY <1>5, StutterInv
<1> QED BY Zenon, <1>1, <1>2, <1>3, <1>4, <1>5 DEF Next

\* The inductive invariant holds of every behaviour, from InitInv and NextInv.
THEOREM Invariance == Spec => []Inv
<1>1. Init => Inv
  BY InitInv
<1>2. Inv /\ [Next]_vars => Inv'
  BY NextInv
<1> QED BY <1>1, <1>2, PTL DEF Spec

\* Every state of the socket is well formed.
THEOREM TypeCorrect == Spec => []TypeOK
<1>1. Inv => TypeOK
  BY DEF Inv
<1> QED BY <1>1, Invariance, PTL

\* send_memory is never handed to a second operation (line 80).
THEOREM SendOwnership == Spec => []OneSendInFlight
<1>1. Inv => OneSendInFlight
  BY DEF Inv
<1> QED BY <1>1, Invariance, PTL

\* receive_memory is never handed to a second operation (line 142).
THEOREM ReceiveOwnership == Spec => []OneReceiveInFlight
<1>1. Inv => OneReceiveInFlight
  BY DEF Inv
<1> QED BY <1>1, Invariance, PTL

\* Both buffers stay bounded (lines 140, 380).
THEOREM Bounded == Spec => []BuffersBounded
<1>1. Inv => BuffersBounded
  BY DEF Inv
<1> QED BY <1>1, Invariance, PTL
=============================================================================

----------------------- MODULE NetworkResourceProofs -----------------------
(***************************************************************************)
(* The safety of a UdpSocket and of a TcpListener whose handlers run on    *)
(* the io threads of NetworkResource, for all senders, block and datagram  *)
(* sizes, numbers of threads, peers, faults and bounds.                    *)
(***************************************************************************)
EXTENDS NetworkResource, FiniteSetTheorems, SequenceTheorems, TLAPS

-----------------------------------------------------------------------------
(* The inductive invariant of a UdpSocket.                                 *)

Datagrams == [from : Senders, data : Seq(Nat)]

UdpTypes ==
  /\ sock \in {"closed", "open", "auto", "bound"}
  /\ inbox \in Seq(Datagrams) /\ recvOp \in BOOLEAN
  /\ buffer \in [Senders -> Seq(Nat)] /\ delivered \in [Senders -> Seq(Nat)]
  /\ pending \in Nat /\ receiving \in BOOLEAN
  /\ sent \in [Senders -> Nat] /\ dropped \in SUBSET Senders
  /\ cleared \in BOOLEAN /\ ended \in BOOLEAN

\* At most one completion waits, and a received one is of a sender.
OneReceive ==
  /\ recvOp => ready = <<>>
  /\ ready # <<>> => /\ ready = <<Head(ready)>>
                     /\ Head(ready).err = "ok" =>
                          Datagram(Head(ready).from, Head(ready).data) \in Datagrams
  /\ receiving <=> recvOp \/ ready # <<>>

\* pending_data counts the bytes of the buffers, and some more after a
\* ClearBuffers(); receiving pauses at the limit.
Counted ==
  /\ IsFiniteSet(Places(buffer))
  /\ Buffered <= pending
  /\ ~cleared => pending = Buffered
  /\ pending < MaxBlockSize + MaxDatagram
  /\ receiving => pending < MaxBlockSize
  /\ sock = "bound" /\ ~cleared /\ ~ended /\ ~receiving => pending >= MaxBlockSize

\* The datagrams on their way to the buffers, oldest first.
Received ==
  IF ready # <<>> /\ Head(ready).err = "ok"
  THEN <<Datagram(Head(ready).from, Head(ready).data)>> ELSE <<>>

Waiting == Received \o inbox

Lowest(d) == d.data[1]
Highest(d) == d.data[1] + Len(d.data) - 1

\* A datagram holds consecutive numbers.
WellFormed(d) ==
  /\ Len(d.data) \in 1..MaxDatagram /\ Lowest(d) > 0
  /\ \A i \in 1..Len(d.data) : d.data[i] = Lowest(d) + i - 1

\* What a sender's reader has or will find without another receive.
Got(e) == delivered[e] \o buffer[e]

\* The bytes n of a sender are numbered upwards through got and the datagrams
\* of the queue q, which follow each other.
Ordered(q, got, n, e) ==
  /\ Increasing(got) /\ \A i \in DOMAIN got : got[i] <= n
  /\ \A k \in DOMAIN q : q[k].from = e =>
       /\ WellFormed(q[k]) /\ Highest(q[k]) <= n
       /\ \A i \in DOMAIN got : got[i] < Lowest(q[k])
       /\ \A l \in DOMAIN q : k < l /\ q[l].from = e => Highest(q[k]) < Lowest(q[l])

\* None is missing.
Complete(q, got, n, e) ==
  /\ \A i \in DOMAIN got : got[i] = i
  /\ \A x \in 1..n : \/ x <= Len(got)
                     \/ \E k \in DOMAIN q : q[k].from = e /\ x \in Lowest(q[k])..Highest(q[k])

InOrder ==
  \A e \in Senders :
    /\ Ordered(Waiting, Got(e), sent[e], e)
    /\ e \notin dropped => Complete(Waiting, Got(e), sent[e], e)

UdpInv == UdpTypes /\ OneReceive /\ Counted /\ InOrder

-----------------------------------------------------------------------------
(* The inductive invariant of a TcpListener.                               *)

Accepts == [err : {"ok", "aborted", "reset", "other"}, socket : Nat]

ListenerTypes ==
  /\ backlog \in Seq(Nat) /\ acceptOps \in Nat
  /\ listening \in BOOLEAN /\ newConnections \in Seq(Nat)
  /\ accepts \in Seq(Accepts)
  /\ peers \in Nat /\ fetched \in Seq(Nat) /\ listens \in Nat /\ aborts \in Nat
  /\ failed \in Nat

Fetched == fetched \o newConnections

\* Connections are told apart, and the younger ones have the greater numbers.
Distinct ==
  /\ \A i \in DOMAIN accepts : accepts[i].err # "ok" => accepts[i].socket = 0
  /\ \A i \in DOMAIN accepts : accepts[i].err = "ok" =>
       /\ accepts[i].socket \in 1..peers
       /\ \A j \in DOMAIN Fetched : Fetched[j] # accepts[i].socket
       /\ \A j \in DOMAIN accepts : i # j => accepts[i].socket # accepts[j].socket
       /\ listens <= 1 => \A j \in DOMAIN Fetched : Fetched[j] < accepts[i].socket
  /\ \A i, j \in DOMAIN Fetched :
       i < j /\ Fetched[i] # 0 /\ Fetched[j] # 0
       => Fetched[i] # Fetched[j] /\ (listens <= 1 => Fetched[i] < Fetched[j])

\* The backlog holds the youngest.
Youngest ==
  /\ \A k \in DOMAIN backlog :
       /\ backlog[k] \in 1..peers
       /\ \A l \in DOMAIN backlog : k < l => backlog[k] < backlog[l]
       /\ \A i \in DOMAIN accepts : accepts[i].socket < backlog[k]
       /\ \A j \in DOMAIN Fetched : Fetched[j] < backlog[k]
  /\ \A j \in DOMAIN Fetched : Fetched[j] <= peers

\* A dead socket is that of an aborted accept.
Dead(got) == {i \in DOMAIN got : got[i] = 0}
Aborted(queue) == {i \in DOMAIN queue : queue[i].err = "aborted"}

DeadCounted ==
  Cardinality(Dead(Fetched)) + Cardinality(Aborted(accepts)) <= aborts

ListenerInv == ListenerTypes /\ AcceptsOn /\ Distinct /\ Youngest /\ DeadCounted

-----------------------------------------------------------------------------
(* Counting the bytes in the buffers.                                      *)

\* The places of one sender.
LEMMA PairsOf ==
  ASSUME NEW e, NEW S
  PROVE  \A p : p \in {e} \X S <=> \E i \in S : p = <<e, i>>
<1>1. \A p \in {e} \X S : p = <<p[1], p[2]>> /\ p[1] = e /\ p[2] \in S
  OBVIOUS
<1>2. \A i \in S : <<e, i>> \in {e} \X S
  OBVIOUS
<1> QED BY <1>1, <1>2

\* The places of all senders.
LEMMA PlacesAre ==
  ASSUME NEW b
  PROVE  \A p : p \in Places(b) <=> \E f \in Senders : \E i \in DOMAIN b[f] : p = <<f, i>>
<1>1. \A p : p \in Places(b) <=> \E f \in Senders : p \in {f} \X DOMAIN b[f]
  BY Zenon DEF Places
<1>2. \A f, p : p \in {f} \X DOMAIN b[f] <=> \E i \in DOMAIN b[f] : p = <<f, i>>
  BY PairsOf
<1> QED BY <1>1, <1>2

\* When one buffer is k bytes longer, k more bytes wait.
LEMMA PlacesGrow ==
  ASSUME NEW b \in [Senders -> Seq(Nat)], NEW c \in [Senders -> Seq(Nat)],
         NEW e \in Senders, NEW k \in Nat,
         Len(c[e]) = Len(b[e]) + k,
         \A f \in Senders : f # e => Len(c[f]) = Len(b[f]),
         IsFiniteSet(Places(b)) \/ IsFiniteSet(Places(c))
  PROVE  /\ IsFiniteSet(Places(b)) /\ IsFiniteSet(Places(c))
         /\ Cardinality(Places(c)) = Cardinality(Places(b)) + k
<1> DEFINE new == Len(b[e]) + 1 .. Len(b[e]) + k
           added == {e} \X new
<1>1. \A f \in Senders : /\ Len(b[f]) \in Nat /\ DOMAIN b[f] = 1..Len(b[f])
                         /\ DOMAIN c[f] = 1..Len(c[f])
  OBVIOUS
<1>2. /\ \A f \in Senders : f # e => DOMAIN c[f] = DOMAIN b[f]
      /\ DOMAIN c[e] = DOMAIN b[e] \union new
      /\ DOMAIN b[e] \intersect new = {}
  BY <1>1
<1>3. IsFiniteSet(new) /\ Cardinality(new) = k
  <2>1. Len(b[e]) + 1 \in Int /\ Len(b[e]) + k \in Int
    BY <1>1
  <2>2. /\ IsFiniteSet(new)
        /\ Cardinality(new) = IF Len(b[e]) + 1 > Len(b[e]) + k THEN 0
                              ELSE (Len(b[e]) + k) - (Len(b[e]) + 1) + 1
    BY <2>1, FS_Interval
  <2> QED BY <1>1, <2>2
<1> HIDE DEF new
<1>3a. \A p : p \in added <=> \E i \in new : p = <<e, i>>
  BY PairsOf
<1>3b. /\ \A p : p \in Places(b) <=> \E f \in Senders : \E i \in DOMAIN b[f] : p = <<f, i>>
       /\ \A p : p \in Places(c) <=> \E f \in Senders : \E i \in DOMAIN c[f] : p = <<f, i>>
  BY PlacesAre
<1> HIDE DEF added
<1>4. Places(c) = Places(b) \union added
  <2>1. ASSUME NEW f \in Senders, NEW i \in DOMAIN c[f]
        PROVE  <<f, i>> \in Places(b) \union added
    <3>1. CASE f = e
      <4>1. i \in DOMAIN b[e] \/ i \in new
        BY <1>2, <3>1
      <4> QED BY <1>3a, <1>3b, <3>1, <4>1
    <3>2. CASE f # e
      BY <1>2, <1>3b, <3>2
    <3> QED BY <3>1, <3>2
  <2>2. ASSUME NEW f \in Senders, NEW i \in DOMAIN b[f] PROVE <<f, i>> \in Places(c)
    <3>1. i \in DOMAIN c[f]
      BY <1>2
    <3> QED BY <1>3b, <3>1
  <2>3. ASSUME NEW i \in new PROVE <<e, i>> \in Places(c)
    <3>1. i \in DOMAIN c[e]
      BY <1>2
    <3> QED BY <1>3b, <3>1
  <2>4. Places(c) \subseteq Places(b) \union added
    BY <1>3b, <2>1
  <2>5. Places(b) \union added \subseteq Places(c)
    BY <1>3a, <1>3b, <2>2, <2>3
  <2> QED BY <2>4, <2>5
<1>5. Places(b) \intersect added = {}
  <2> SUFFICES ASSUME NEW f \in Senders, NEW i \in DOMAIN b[f], NEW j \in new, <<f, i>> = <<e, j>>
               PROVE  FALSE
    BY <1>3a, <1>3b
  <2> QED BY <1>2
<1>6. IsFiniteSet(added) /\ Cardinality(added) = k
  <2>1. IsFiniteSet({e}) /\ Cardinality({e}) = 1
    BY FS_Singleton
  <2>2. IsFiniteSet(added) /\ Cardinality(added) = Cardinality({e}) * Cardinality(new)
    BY <1>3, <2>1, FS_Product DEF added
  <2> QED BY <1>3, <2>1, <2>2
<1>7. IsFiniteSet(Places(b))
  <2>1. Places(b) \in SUBSET Places(c)
    BY <1>4
  <2> QED BY <2>1, FS_Subset
<1>8. /\ IsFiniteSet(Places(b) \union added)
      /\ Cardinality(Places(b) \union added)
         = Cardinality(Places(b)) + Cardinality(added) - Cardinality(Places(b) \intersect added)
  BY <1>6, <1>7, FS_Union
<1>9. Cardinality(Places(b) \intersect added) = 0 /\ Cardinality(Places(b)) \in Nat
  BY <1>5, <1>7, FS_EmptySet, FS_CardinalityType
<1> QED BY <1>4, <1>6, <1>7, <1>8, <1>9

\* A reader cannot take more from one buffer than waits in all.
LEMMA PlacesOfOne ==
  ASSUME NEW b \in [Senders -> Seq(Nat)], NEW e \in Senders, IsFiniteSet(Places(b))
  PROVE  Cardinality(Places(b)) \in Nat /\ Len(b[e]) <= Cardinality(Places(b))
<1> DEFINE c == [b EXCEPT ![e] = <<>>]
<1>1. /\ c \in [Senders -> Seq(Nat)] /\ Len(c[e]) = 0
      /\ \A f \in Senders : f # e => Len(b[f]) = Len(c[f])
      /\ Len(b[e]) \in Nat /\ Len(b[e]) = Len(c[e]) + Len(b[e])
  OBVIOUS
<1> HIDE DEF c
<1>2. /\ IsFiniteSet(Places(c))
      /\ Cardinality(Places(b)) = Cardinality(Places(c)) + Len(b[e])
  BY <1>1, PlacesGrow
<1>3. Cardinality(Places(c)) \in Nat /\ Cardinality(Places(b)) \in Nat
  BY <1>2, FS_CardinalityType
<1> QED BY <1>1, <1>2, <1>3

-----------------------------------------------------------------------------
(* The numbers of a sender's bytes.                                        *)

\* A datagram numbers its bytes from its lowest to its highest.
LEMMA DatagramNumbers ==
  ASSUME NEW d \in Datagrams, WellFormed(d)
  PROVE  /\ Lowest(d) \in Nat /\ Highest(d) \in Nat /\ Lowest(d) <= Highest(d)
         /\ Len(d.data) \in Nat \ {0} /\ Highest(d) = Lowest(d) + Len(d.data) - 1
<1>1. d.data \in Seq(Nat) /\ Len(d.data) \in Nat /\ Len(d.data) >= 1
  BY DEF WellFormed, Datagrams
<1>2. d.data[1] \in Nat
  BY <1>1
<1> QED BY <1>1, <1>2 DEF Lowest, Highest

\* The next datagram continues them.
LEMMA OrderedArrive ==
  ASSUME NEW q \in Seq(Datagrams), NEW got \in Seq(Nat), NEW n \in Nat,
         NEW e \in Senders, NEW size \in 1..MaxDatagram, Ordered(q, got, n, e),
         NEW d, d = Datagram(e, [i \in 1..size |-> n + i])
  PROVE  /\ d \in Datagrams
         /\ Ordered(Append(q, d), got, n + size, e)
         /\ Complete(q, got, n, e) => Complete(Append(q, d), got, n + size, e)
<1> DEFINE r == Append(q, d)
<1>1. /\ d \in Datagrams /\ d.from = e /\ d.data \in Seq(Nat)
      /\ Len(d.data) = size /\ \A i \in 1..size : d.data[i] = n + i
  BY UdpAssumption DEF Datagram, Datagrams
<1>2. Lowest(d) = n + 1 /\ Highest(d) = n + size /\ WellFormed(d)
  <2>1. d.data[1] = n + 1 /\ size \in Nat
    BY <1>1, UdpAssumption
  <2>2. \A i \in 1..size : d.data[i] = (n + 1) + i - 1
    BY <1>1
  <2>3. Lowest(d) = n + 1
    BY <2>1 DEF Lowest
  <2>4. Highest(d) = (n + 1) + size - 1
    BY Zenon, <1>1, <2>1 DEF Highest
  <2>5. (n + 1) + size - 1 = n + size
    BY <2>1
  <2>6. /\ Len(d.data) \in 1..MaxDatagram /\ Lowest(d) > 0
        /\ \A i \in 1..Len(d.data) : d.data[i] = Lowest(d) + i - 1
    <3>1. Len(d.data) \in 1..MaxDatagram /\ n + 1 > 0
      BY <1>1
    <3> QED BY <1>1, <2>2, <2>3, <3>1
  <2> QED BY <2>3, <2>4, <2>5, <2>6 DEF WellFormed
<1>3. /\ DOMAIN r = 1..Len(q) + 1 /\ DOMAIN q = 1..Len(q) /\ Len(q) \in Nat
      /\ r[Len(q) + 1] = d /\ \A k \in 1..Len(q) : r[k] = q[k]
  BY <1>1
<1>4. \A i \in DOMAIN got : got[i] \in Nat /\ got[i] <= n
  BY DEF Ordered
<1> HIDE DEF r
<1>5. Ordered(r, got, n + size, e)
  <2>1. Increasing(got) /\ \A i \in DOMAIN got : got[i] <= n + size
    BY <1>4 DEF Ordered
  <2>2. ASSUME NEW k \in 1..Len(q), q[k].from = e
        PROVE  /\ WellFormed(q[k]) /\ Highest(q[k]) <= n + size
               /\ Highest(q[k]) < Lowest(d)
               /\ \A i \in DOMAIN got : got[i] < Lowest(q[k])
               /\ \A l \in 1..Len(q) : k < l /\ q[l].from = e => Highest(q[k]) < Lowest(q[l])
    <3>1. Highest(q[k]) <= n /\ WellFormed(q[k])
      BY <1>3, <2>2 DEF Ordered
    <3>2. Highest(q[k]) \in Int
      BY <1>3, <3>1, DatagramNumbers
    <3>3. Highest(q[k]) <= n + size /\ Highest(q[k]) < Lowest(d)
      <4>1. size \in Nat \ {0}
        BY UdpAssumption
      <4> QED BY <1>2, <3>1, <3>2, <4>1
    <3> QED BY <1>3, <2>2, <3>1, <3>3 DEF Ordered
  <2>3. \A i \in DOMAIN got : got[i] < Lowest(d)
    BY <1>2, <1>4
  <2>4. ASSUME NEW k \in 1..Len(q) + 1, r[k].from = e
        PROVE  /\ WellFormed(r[k]) /\ Highest(r[k]) <= n + size
               /\ \A i \in DOMAIN got : got[i] < Lowest(r[k])
               /\ \A l \in 1..Len(q) + 1 : k < l /\ r[l].from = e => Highest(r[k]) < Lowest(r[l])
    <3>1. CASE k = Len(q) + 1
      BY <1>2, <1>3, <2>3, <3>1
    <3>2. CASE k # Len(q) + 1
      <4>1. k \in 1..Len(q) /\ r[k] = q[k]
        BY <1>3, <3>2
      <4>2. ASSUME NEW l \in 1..Len(q) + 1, k < l, r[l].from = e
            PROVE  Highest(r[k]) < Lowest(r[l])
        <5>1. CASE l = Len(q) + 1
          BY <1>3, <2>2, <2>4, <4>1, <5>1
        <5>2. CASE l # Len(q) + 1
          <6>1. l \in 1..Len(q) /\ r[l] = q[l]
            BY <1>3, <5>2
          <6> QED BY <2>2, <2>4, <4>1, <4>2, <6>1
        <5> QED BY <5>1, <5>2
      <4> QED BY <2>2, <2>4, <4>1, <4>2
    <3> QED BY <3>1, <3>2
  <2> QED BY <1>3, <2>1, <2>4 DEF Ordered
<1>6. ASSUME Complete(q, got, n, e) PROVE Complete(r, got, n + size, e)
  <2>1. \A i \in DOMAIN got : got[i] = i
    BY <1>6 DEF Complete
  <2>2. ASSUME NEW x \in 1..n + size, ~(x <= Len(got))
        PROVE  \E k \in DOMAIN r : r[k].from = e /\ x \in Lowest(r[k])..Highest(r[k])
    <3>1. CASE x <= n
      <4>1. PICK k \in DOMAIN q : q[k].from = e /\ x \in Lowest(q[k])..Highest(q[k])
        BY <1>6, <2>2, <3>1 DEF Complete
      <4>2. k \in DOMAIN r /\ r[k] = q[k]
        BY <1>3
      <4> QED BY <4>1, <4>2
    <3>2. CASE ~(x <= n)
      <4>1. x \in Lowest(d)..Highest(d)
        BY <1>2, <3>2
      <4>2. Len(q) + 1 \in DOMAIN r
        BY <1>3
      <4> QED BY <1>1, <1>3, <4>1, <4>2
    <3> QED BY <3>1, <3>2
  <2> QED BY <2>1, <2>2 DEF Complete
<1> QED BY <1>1, <1>5, <1>6 DEF r

\* A datagram of another sender does not matter.
LEMMA OrderedOther ==
  ASSUME NEW q \in Seq(Datagrams), NEW got \in Seq(Nat), NEW n \in Nat,
         NEW e \in Senders, NEW d \in Datagrams, d.from # e, Ordered(q, got, n, e)
  PROVE  /\ Ordered(Append(q, d), got, n, e)
         /\ Complete(q, got, n, e) => Complete(Append(q, d), got, n, e)
<1> DEFINE r == Append(q, d)
<1>1. /\ DOMAIN r = 1..Len(q) + 1 /\ DOMAIN q = 1..Len(q) /\ Len(q) \in Nat
      /\ r[Len(q) + 1] = d /\ \A k \in 1..Len(q) : r[k] = q[k]
  OBVIOUS
<1> HIDE DEF r
<1>2. \A k \in DOMAIN r : r[k].from = e => k \in DOMAIN q /\ r[k] = q[k]
  BY <1>1
<1>3. Ordered(r, got, n, e)
  BY <1>1, <1>2 DEF Ordered
<1>4. \A k \in DOMAIN q : k \in DOMAIN r /\ r[k] = q[k]
  BY <1>1
<1>5. Complete(q, got, n, e) => Complete(r, got, n, e)
  BY <1>4 DEF Complete
<1> QED BY <1>3, <1>5 DEF r

\* The handler moves the oldest datagram to the buffer of its sender.
LEMMA OrderedReceived ==
  ASSUME NEW q \in Seq(Datagrams), NEW d \in Datagrams, NEW got \in Seq(Nat), NEW n \in Nat,
         NEW e \in Senders, d.from = e, Ordered(<<d>> \o q, got, n, e)
  PROVE  /\ got \o d.data \in Seq(Nat) /\ Len(d.data) \in 1..MaxDatagram
         /\ Ordered(q, got \o d.data, n, e)
         /\ Complete(<<d>> \o q, got, n, e) => Complete(q, got \o d.data, n, e)
<1> DEFINE p == <<d>> \o q
           all == got \o d.data
<1>1. /\ DOMAIN p = 1..Len(q) + 1 /\ DOMAIN q = 1..Len(q) /\ Len(q) \in Nat
      /\ p[1] = d /\ \A k \in 1..Len(q) : p[k + 1] = q[k]
  OBVIOUS
<1>2. 1 \in DOMAIN p /\ \A k \in DOMAIN q : k + 1 \in DOMAIN p /\ 1 < k + 1
  BY <1>1
<1> HIDE DEF p
<1>3. /\ WellFormed(d) /\ Highest(d) <= n
      /\ \A i \in DOMAIN got : got[i] < Lowest(d)
      /\ \A k \in DOMAIN q : q[k].from = e => Highest(d) < Lowest(q[k])
  BY <1>1, <1>2 DEF Ordered, p
<1>4. /\ Len(d.data) \in 1..MaxDatagram /\ d.data \in Seq(Nat)
      /\ \A i \in 1..Len(d.data) : d.data[i] = Lowest(d) + i - 1
  BY <1>3 DEF WellFormed, Datagrams
<1>5. /\ Lowest(d) \in Nat /\ Highest(d) \in Nat /\ Len(d.data) \in Nat \ {0}
      /\ Highest(d) = Lowest(d) + Len(d.data) - 1
  BY <1>3, DatagramNumbers
<1>6. /\ all \in Seq(Nat) /\ DOMAIN all = 1..Len(all) /\ Len(got) \in Nat
      /\ Len(all) = Len(got) + Len(d.data) /\ DOMAIN got = 1..Len(got)
      /\ \A i \in 1..Len(got) + Len(d.data) :
           all[i] = IF i <= Len(got) THEN got[i] ELSE d.data[i - Len(got)]
  BY <1>4
<1> HIDE DEF all
<1>7. \A i \in 1..Len(got) : all[i] = got[i] /\ got[i] \in Nat /\ got[i] < Lowest(d)
  <2>1. \A i \in 1..Len(got) : got[i] \in Nat /\ got[i] < Lowest(d)
    BY <1>3
  <2>2. \A i \in 1..Len(got) : i \in 1..Len(got) + Len(d.data) /\ i <= Len(got)
    BY <1>5, <1>6
  <2> QED BY <1>6, <2>1, <2>2
<1>8. \A i \in 1..Len(all) : ~(i <= Len(got)) => all[i] = Lowest(d) + (i - Len(got)) - 1
  <2> SUFFICES ASSUME NEW i \in 1..Len(all), ~(i <= Len(got))
               PROVE  all[i] = Lowest(d) + (i - Len(got)) - 1
    OBVIOUS
  <2>1. i - Len(got) \in 1..Len(d.data) /\ all[i] = d.data[i - Len(got)]
    BY <1>6
  <2> QED BY <1>4, <2>1
<1>9. Ordered(q, all, n, e)
  <2>1. Increasing(all)
    <3> SUFFICES ASSUME NEW i \in 1..Len(all), NEW j \in 1..Len(all), i < j
                 PROVE  all[i] < all[j]
      BY <1>6 DEF Increasing
    <3>1. CASE j <= Len(got)
      <4>1. i \in DOMAIN got /\ j \in DOMAIN got
        BY <1>6, <3>1
      <4>2. got[i] < got[j]
        BY Zenon, <4>1 DEF Ordered, Increasing
      <4> QED BY <1>6, <1>7, <4>1, <4>2
    <3>2. CASE ~(j <= Len(got)) /\ i <= Len(got)
      <4>1. i \in 1..Len(got) /\ j - Len(got) >= 1 /\ j - Len(got) \in Nat
        BY <1>6, <3>2
      <4>2. all[i] \in Nat /\ all[i] < Lowest(d)
        BY <1>7, <4>1
      <4>3. all[j] = Lowest(d) + (j - Len(got)) - 1
        BY <1>8, <3>2
      <4>4. Lowest(d) \in Nat
        BY <1>5
      <4> QED BY <4>1, <4>2, <4>3, <4>4
    <3>3. CASE ~(i <= Len(got))
      <4>1. /\ all[i] = Lowest(d) + (i - Len(got)) - 1
            /\ all[j] = Lowest(d) + (j - Len(got)) - 1
        <5>1. ~(j <= Len(got))
          BY <1>6, <3>3
        <5> QED BY <1>8, <3>3, <5>1
      <4>2. Len(got) \in Nat /\ Lowest(d) \in Nat
        BY <1>5, <1>6
      <4> QED BY <4>1, <4>2
    <3> QED BY <1>6, <3>1, <3>2, <3>3
  <2>2. \A i \in DOMAIN all : all[i] <= Highest(d)
    <3> SUFFICES ASSUME NEW i \in 1..Len(all) PROVE all[i] <= Highest(d)
      BY <1>6
    <3>1. CASE i <= Len(got)
      <4>1. i \in 1..Len(got)
        BY <1>6, <3>1
      <4>2. all[i] \in Nat /\ all[i] < Lowest(d)
        BY <1>7, <4>1
      <4> QED BY <1>5, <4>2
    <3>2. CASE ~(i <= Len(got))
      <4>1. all[i] = Lowest(d) + (i - Len(got)) - 1
        BY <1>8, <3>2
      <4>2. i - Len(got) <= Len(d.data) /\ i - Len(got) \in Nat
        BY <1>6, <3>2
      <4> QED BY <1>5, <4>1, <4>2
    <3> QED BY <3>1, <3>2
  <2>3. \A i \in DOMAIN all : all[i] \in Nat /\ all[i] <= n
    <3>1. \A i \in DOMAIN all : all[i] \in Nat
      BY <1>6
    <3> QED BY <1>3, <1>5, <2>2, <3>1
  <2>4. ASSUME NEW k \in DOMAIN q, q[k].from = e
        PROVE  /\ WellFormed(q[k]) /\ Highest(q[k]) <= n
               /\ \A l \in DOMAIN q : k < l /\ q[l].from = e => Highest(q[k]) < Lowest(q[l])
    <3>1. k + 1 \in DOMAIN p /\ p[k + 1] = q[k]
      BY <1>1, <1>2
    <3>2. /\ WellFormed(q[k]) /\ Highest(q[k]) <= n
          /\ \A m \in DOMAIN p : k + 1 < m /\ p[m].from = e => Highest(q[k]) < Lowest(p[m])
      BY <2>4, <3>1 DEF Ordered, p
    <3>3. \A l \in DOMAIN q : l + 1 \in DOMAIN p /\ p[l + 1] = q[l] /\ (k < l => k + 1 < l + 1)
      BY <1>1, <1>2
    <3> QED BY <3>2, <3>3
  <2>5. ASSUME NEW k \in DOMAIN q, q[k].from = e, NEW i \in DOMAIN all
        PROVE  all[i] < Lowest(q[k])
    <3>1. Lowest(q[k]) \in Nat
      BY <1>1, <2>4, <2>5, DatagramNumbers
    <3> QED BY <1>3, <1>5, <2>2, <2>3, <2>5, <3>1
  <2> QED BY <2>1, <2>3, <2>4, <2>5 DEF Ordered
<1>10. ASSUME Complete(p, got, n, e) PROVE Complete(q, all, n, e)
  <2>1. \A i \in 1..Len(got) : got[i] = i
    BY <1>6, <1>10 DEF Complete
  <2>2. Lowest(d) = Len(got) + 1
    <3>1. Lowest(d) > Len(got)
      <4>1. CASE Len(got) = 0
        BY <1>3, <4>1 DEF WellFormed
      <4>2. CASE Len(got) # 0
        <5>1. Len(got) \in 1..Len(got)
          BY <1>6, <4>2
        <5>2. got[Len(got)] = Len(got) /\ got[Len(got)] < Lowest(d)
          BY <1>7, <2>1, <5>1
        <5> QED BY <5>2
      <4> QED BY <4>1, <4>2
    <3>2. ASSUME Lowest(d) > Len(got) + 1 PROVE FALSE
      <4> DEFINE x == Len(got) + 1
      <4>1. x \in 1..n /\ ~(x <= Len(got)) /\ x < Lowest(d)
        BY <1>3, <1>5, <1>6, <3>2
      <4>2. PICK k \in DOMAIN p : p[k].from = e /\ x \in Lowest(p[k])..Highest(p[k])
        BY <1>10, <4>1 DEF Complete
      <4>3. k # 1
        <5>1. ~(x \in Lowest(d)..Highest(d))
          BY <1>5, <4>1
        <5> QED BY <1>1, <4>2, <5>1
      <4>4. k - 1 \in DOMAIN q /\ p[k] = q[k - 1]
        BY <1>1, <4>3
      <4>5. Highest(d) < Lowest(p[k]) /\ Lowest(p[k]) <= x
        BY <1>3, <4>2, <4>4
      <4>6. Lowest(d) <= Highest(d)
        BY <1>5
      <4>7. Lowest(p[k]) \in Nat
        <5>1. WellFormed(p[k])
          BY <4>2 DEF Ordered, p
        <5> QED BY <1>1, <4>4, <5>1, DatagramNumbers
      <4> QED BY <1>5, <4>1, <4>5, <4>6, <4>7
    <3> QED BY <1>5, <1>6, <3>1, <3>2
  <2>3. \A i \in 1..Len(all) : all[i] = i
    BY <1>5, <1>6, <1>7, <1>8, <2>1, <2>2
  <2>4. ASSUME NEW x \in 1..n, ~(x <= Len(all))
        PROVE  \E k \in DOMAIN q : q[k].from = e /\ x \in Lowest(q[k])..Highest(q[k])
    <3>1. ~(x <= Len(got)) /\ x > Highest(d)
      <4>1. /\ Len(got) \in Nat /\ Len(d.data) \in Nat
            /\ Len(all) = Len(got) + Len(d.data)
            /\ Highest(d) = (Len(got) + 1) + Len(d.data) - 1
        BY <1>5, <1>6, <2>2
      <4>2. x \in Int /\ ~(x <= Len(got) + Len(d.data))
        BY <2>4, <4>1
      <4>3. (Len(got) + 1) + Len(d.data) - 1 = Len(got) + Len(d.data)
        <5>1. \A a, b \in Nat : (a + 1) + b - 1 = a + b
          OBVIOUS
        <5> QED BY Zenon, <4>1, <5>1
      <4>4. ~(x <= Len(got)) /\ x > Len(got) + Len(d.data)
        BY <4>1, <4>2
      <4> QED BY <4>1, <4>3, <4>4
    <3>2. PICK k \in DOMAIN p : p[k].from = e /\ x \in Lowest(p[k])..Highest(p[k])
      BY <1>10, <3>1 DEF Complete
    <3>3. k # 1
      BY <1>1, <1>5, <3>1, <3>2
    <3>4. k - 1 \in DOMAIN q /\ p[k] = q[k - 1]
      BY <1>1, <3>3
    <3> QED BY <3>2, <3>4
  <2> QED BY <1>6, <2>3, <2>4 DEF Complete
<1> QED BY <1>4, <1>6, <1>9, <1>10 DEF all, p

\* It does not concern the other senders.
LEMMA OrderedReceivedOther ==
  ASSUME NEW q \in Seq(Datagrams), NEW d \in Datagrams, NEW got \in Seq(Nat), NEW n \in Nat,
         NEW e \in Senders, d.from # e, Ordered(<<d>> \o q, got, n, e)
  PROVE  /\ Ordered(q, got, n, e)
         /\ Complete(<<d>> \o q, got, n, e) => Complete(q, got, n, e)
<1> DEFINE p == <<d>> \o q
<1>1. /\ DOMAIN p = 1..Len(q) + 1 /\ DOMAIN q = 1..Len(q) /\ Len(q) \in Nat
      /\ p[1] = d /\ \A k \in 1..Len(q) : p[k + 1] = q[k]
  OBVIOUS
<1> HIDE DEF p
<1>2. \A k \in DOMAIN q : k + 1 \in DOMAIN p /\ p[k + 1] = q[k]
  BY <1>1
<1>3. \A k \in DOMAIN p : p[k].from = e => k - 1 \in DOMAIN q /\ q[k - 1] = p[k]
  BY <1>1
<1>4. Ordered(q, got, n, e)
  <2>1. ASSUME NEW k \in DOMAIN q, q[k].from = e
        PROVE  /\ WellFormed(q[k]) /\ Highest(q[k]) <= n
               /\ \A i \in DOMAIN got : got[i] < Lowest(q[k])
               /\ \A l \in DOMAIN q : k < l /\ q[l].from = e => Highest(q[k]) < Lowest(q[l])
    <3>1. k + 1 \in DOMAIN p /\ p[k + 1] = q[k]
      BY <1>2
    <3>2. /\ WellFormed(q[k]) /\ Highest(q[k]) <= n
          /\ \A i \in DOMAIN got : got[i] < Lowest(q[k])
          /\ \A m \in DOMAIN p : k + 1 < m /\ p[m].from = e => Highest(q[k]) < Lowest(p[m])
      BY <2>1, <3>1 DEF Ordered, p
    <3>3. \A l \in DOMAIN q : l + 1 \in DOMAIN p /\ p[l + 1] = q[l] /\ (k < l => k + 1 < l + 1)
      BY <1>1, <1>2
    <3> QED BY <3>2, <3>3
  <2> QED BY <2>1 DEF Ordered
<1>5. Complete(p, got, n, e) => Complete(q, got, n, e)
  BY <1>3 DEF Complete
<1> QED BY <1>4, <1>5 DEF p

\* Datagrams that are dropped at the end leave the others in order.
LEMMA OrderedPrefix ==
  ASSUME NEW q \in Seq(Datagrams), NEW r \in Seq(Datagrams), NEW got, NEW n, NEW e,
         Ordered(q \o r, got, n, e)
  PROVE  Ordered(q, got, n, e)
<1>1. \A k \in DOMAIN q : k \in DOMAIN (q \o r) /\ (q \o r)[k] = q[k]
  OBVIOUS
<1> QED BY <1>1 DEF Ordered

\* If none of them is of the sender, none of his bytes is missing.
LEMMA CompleteWithout ==
  ASSUME NEW q \in Seq(Datagrams), NEW r \in Seq(Datagrams), NEW got, NEW n, NEW e,
         Complete(q \o r, got, n, e), \A i \in DOMAIN r : r[i].from # e
  PROVE  Complete(q, got, n, e)
<1>1. ASSUME NEW k \in DOMAIN (q \o r), (q \o r)[k].from = e
      PROVE  k \in DOMAIN q /\ (q \o r)[k] = q[k]
  <2>1. CASE k <= Len(q)
    BY <2>1
  <2>2. CASE k > Len(q)
    <3>1. k - Len(q) \in DOMAIN r /\ (q \o r)[k] = r[k - Len(q)]
      BY <2>2
    <3> QED BY <1>1, <3>1
  <2> QED BY <2>1, <2>2
<1> QED BY <1>1 DEF Complete

\* So do bytes that are dropped from a buffer.
LEMMA OrderedCleared ==
  ASSUME NEW q, NEW got \in Seq(Nat), NEW rest \in Seq(Nat), NEW n, NEW e,
         Ordered(q, got \o rest, n, e)
  PROVE  Ordered(q, got, n, e)
<1>1. \A k \in DOMAIN got : k \in DOMAIN (got \o rest) /\ (got \o rest)[k] = got[k]
  OBVIOUS
<1> QED BY <1>1 DEF Ordered, Increasing

-----------------------------------------------------------------------------
(* The steps of a UdpSocket.                                               *)

\* The least of two numbers.
LEMMA MinOfTwo ==
  ASSUME NEW m \in Nat, NEW n \in Nat
  PROVE  Min({m, n}) \in Nat /\ Min({m, n}) <= n /\ (Min({m, n}) = m \/ Min({m, n}) = n)
<1>1. \E x \in {m, n} : \A y \in {m, n} : x <= y
  <2>1. CASE m <= n
    BY <2>1
  <2>2. CASE ~(m <= n)
    BY <2>2
  <2> QED BY <2>1, <2>2
<1>2. Min({m, n}) \in {m, n} /\ \A y \in {m, n} : Min({m, n}) <= y
  BY <1>1 DEF Min
<1> QED BY <1>2

\* What is on its way consists of datagrams, and of one completion at most.
LEMMA WaitingFacts ==
  ASSUME UdpTypes, OneReceive
  PROVE  /\ Received \in Seq(Datagrams) /\ Waiting \in Seq(Datagrams)
         /\ ready = <<>> => Received = <<>>
         /\ ready # <<>> /\ Head(ready).err = "ok" =>
              LET d == Datagram(Head(ready).from, Head(ready).data)
              IN  d \in Datagrams /\ Received = <<d>>
         /\ ready # <<>> /\ Head(ready).err # "ok" => Received = <<>>
<1>1. Received \in Seq(Datagrams)
  BY DEF OneReceive, Received
<1>2. Waiting \in Seq(Datagrams)
  BY <1>1 DEF Waiting, UdpTypes
<1> QED BY <1>1, <1>2 DEF OneReceive, Received

\* Starting a receive when there is none.
LEMMA ReceiveFacts ==
  ASSUME NEW go \in BOOLEAN, NEW s, Receive(go, s, <<>>)
  PROVE  /\ OneReceive' /\ Received' = <<>>
         /\ receiving' = go /\ recvOp' \in BOOLEAN
<1> DEFINE c == Completion("other", CHOOSE e \in Senders : TRUE, <<>>)
<1>1. c.err = "other" /\ Append(<<>>, c) = <<c>> /\ Head(<<c>>) = c /\ <<c>> # <<>>
  BY DEF Completion
<1> HIDE DEF c
<1>2. /\ receiving' = go /\ recvOp' = (go /\ s # "closed")
      /\ ready' = IF go /\ s = "closed" THEN <<c>> ELSE <<>>
  BY <1>1 DEF Receive, c
<1>3. CASE go /\ s = "closed"
  <2>1. receiving' = TRUE /\ recvOp' = FALSE /\ ready' = <<c>>
    BY <1>2, <1>3
  <2> QED BY <1>1, <1>2, <2>1 DEF OneReceive, Received
<1>4. CASE ~(go /\ s = "closed")
  <2>1. ready' = <<>> /\ recvOp' = go
    BY <1>2, <1>4
  <2> QED BY <1>2, <2>1 DEF OneReceive, Received
<1> QED BY <1>3, <1>4

\* Starting one unless it is outstanding.
LEMMA RestartFacts ==
  ASSUME UdpTypes, OneReceive, NEW wanted \in BOOLEAN, NEW bytes \in Nat, NEW s,
         Restart(wanted, bytes, s)
  PROVE  /\ OneReceive' /\ Received' = Received
         /\ receiving' = (receiving \/ (wanted /\ bytes < MaxBlockSize))
         /\ recvOp' \in BOOLEAN
<1>1. CASE wanted /\ ~receiving
  <2>1. ready = <<>> /\ Received = <<>>
    BY <1>1 DEF OneReceive, Received
  <2> DEFINE go == bytes < MaxBlockSize
  <2>2. go \in BOOLEAN /\ Receive(go, s, <<>>)
    BY <1>1, <2>1 DEF Restart, BelowLimit
  <2> HIDE DEF go
  <2>3. OneReceive' /\ Received' = <<>> /\ receiving' = go /\ recvOp' \in BOOLEAN
    BY <2>2, ReceiveFacts
  <2>4. receiving' = (receiving \/ (wanted /\ go))
    BY <1>1, <2>2, <2>3 DEF UdpTypes
  <2> QED BY <2>1, <2>3, <2>4 DEF go
<1>2. CASE ~(wanted /\ ~receiving)
  <2>1. receiving' = receiving /\ recvOp' = recvOp /\ ready' = ready
    BY <1>2 DEF Restart
  <2>2. OneReceive'
    BY <2>1 DEF OneReceive
  <2>3. Received' = Received
    BY <2>1 DEF Received
  <2>4. receiving' = (receiving \/ (wanted /\ bytes < MaxBlockSize))
    BY <1>2, <2>1 DEF UdpTypes
  <2> QED BY <2>1, <2>2, <2>3, <2>4 DEF UdpTypes
<1> QED BY <1>1, <1>2

\* Where the same bytes wait, they are in order.
LEMMA SameOrder ==
  ASSUME InOrder, Waiting' = Waiting, \A e \in Senders : Got(e)' = Got(e),
         sent' = sent, dropped' = dropped
  PROVE  InOrder'
BY DEF InOrder

\* A count that did not change allows what the flags allow.
LEMMA SameCount ==
  ASSUME Counted, buffer' = buffer, pending' = pending, cleared' = cleared,
         receiving' => pending < MaxBlockSize,
         sock' = "bound" /\ ~cleared /\ ~ended' /\ ~receiving' => pending >= MaxBlockSize
  PROVE  Counted'
BY DEF Counted, Buffered, Places

\* Nothing else belongs to the socket.
LEMMA IdleUdp == ASSUME UdpInv, UNCHANGED udpVars PROVE UdpInv'
<1> USE DEF udpVars, system, members, udpHistory
<1>1. UdpTypes' /\ OneReceive'
  BY DEF UdpInv, UdpTypes, OneReceive
<1>2. Counted'
  BY SameCount DEF UdpInv, Counted
<1>3. InOrder'
  BY SameOrder DEF UdpInv, Waiting, Received, Got
<1> QED BY <1>1, <1>2, <1>3 DEF UdpInv

\* Bind() starts receiving below the limit.
LEMMA BindInv == ASSUME UdpInv, Bind PROVE UdpInv'
<1> USE DEF udpHistory
<1>0. UdpTypes /\ OneReceive /\ Counted /\ InOrder /\ pending \in Nat
  BY DEF UdpInv, UdpTypes
<1>1. /\ sock' = "bound" /\ Restart(TRUE, pending, "bound")
      /\ UNCHANGED <<inbox, buffer, pending, udpHistory>>
  BY Zenon DEF Bind
<1>2. /\ OneReceive' /\ Received' = Received
      /\ receiving' = (receiving \/ (TRUE /\ pending < MaxBlockSize)) /\ recvOp' \in BOOLEAN
  BY <1>0, <1>1, RestartFacts
<1>3. UdpTypes'
  BY <1>0, <1>1, <1>2 DEF UdpTypes
<1>4. Counted'
  <2>1. receiving => pending < MaxBlockSize
    BY <1>0 DEF Counted
  <2>2. receiving' => pending < MaxBlockSize
    BY <1>2, <2>1
  <2>3. ~receiving' => pending >= MaxBlockSize
    <3>1. pending < MaxBlockSize => receiving'
      BY <1>2
    <3> QED BY <1>0, <3>1, UdpAssumption
  <2>4. buffer' = buffer /\ pending' = pending /\ cleared' = cleared
    BY <1>1
  <2> QED BY <1>0, <2>2, <2>3, <2>4, SameCount
<1>5. InOrder'
  BY <1>0, <1>1, <1>2, SameOrder DEF Waiting, Got
<1> QED BY <1>2, <1>3, <1>4, <1>5 DEF UdpInv

\* A Bind() that fails leaves the socket open.
LEMMA BindFailsInv == ASSUME UdpInv, BindFails PROVE UdpInv'
<1> USE DEF udpHistory, members, BindFails
<1>1. UdpTypes' /\ OneReceive'
  BY DEF UdpInv, UdpTypes, OneReceive
<1>2. Counted'
  BY SameCount DEF UdpInv, Counted
<1>3. InOrder'
  BY SameOrder DEF UdpInv, Waiting, Received, Got
<1> QED BY <1>1, <1>2, <1>3 DEF UdpInv

\* Sending binds a socket, without receiving.
LEMMA SendToInv == ASSUME UdpInv, SendTo PROVE UdpInv'
<1> USE DEF udpHistory, members, SendTo
<1>1. UdpTypes' /\ OneReceive'
  BY DEF UdpInv, UdpTypes, OneReceive
<1>2. Counted'
  BY SameCount DEF UdpInv, Counted
<1>3. InOrder'
  BY SameOrder DEF UdpInv, Waiting, Received, Got
<1> QED BY <1>1, <1>2, <1>3 DEF UdpInv

\* Close() drops the datagrams that no completion carries yet.
LEMMA UdpCloseInv == ASSUME UdpInv, UdpClose PROVE UdpInv'
<1> DEFINE c == Completion("aborted", CHOOSE e \in Senders : TRUE, <<>>)
<1>0. UdpTypes /\ OneReceive /\ Counted /\ InOrder
  BY DEF UdpInv
<1>1. c.err = "aborted" /\ Append(<<>>, c) = <<c>> /\ Head(<<c>>) = c /\ <<c>> # <<>>
  BY DEF Completion
<1>2. /\ sock' = "closed" /\ inbox' = <<>> /\ recvOp' = FALSE
      /\ ready' = IF recvOp THEN Append(ready, c) ELSE ready
      /\ ended' = FALSE /\ dropped' = dropped \cup {inbox[i].from : i \in DOMAIN inbox}
      /\ UNCHANGED <<buffer, pending, receiving, sent, delivered, cleared>>
  BY DEF UdpClose, members
<1> HIDE DEF c
<1>3. UdpTypes'
  <2>1. /\ sock' \in {"closed", "open", "auto", "bound"} /\ inbox' \in Seq(Datagrams)
    BY <1>0, <1>2 DEF UdpTypes
  <2>1b. dropped' \in SUBSET Senders
    <3>1. dropped \in SUBSET Senders /\ inbox \in Seq(Datagrams)
      BY <1>0 DEF UdpTypes
    <3>2. ASSUME NEW i \in DOMAIN inbox PROVE inbox[i].from \in Senders
      <4>1. inbox[i] \in Datagrams
        BY <3>1
      <4> QED BY <4>1 DEF Datagrams
    <3> QED BY <1>2, <3>1, <3>2
  <2>1a. recvOp' \in BOOLEAN /\ ended' \in BOOLEAN
    BY Zenon, <1>2
  <2>2. UNCHANGED <<buffer, pending, receiving, sent, delivered, cleared>>
    BY <1>2
  <2> QED BY <1>0, <2>1, <2>1a, <2>1b, <2>2 DEF UdpTypes
<1>4. OneReceive' /\ Received' = Received
  <2>1. CASE recvOp
    <3>1. ready = <<>> /\ ready' = <<c>> /\ receiving = TRUE
      BY <1>0, <1>1, <1>2, <2>1 DEF OneReceive, UdpTypes
    <3> QED BY <1>1, <1>2, <3>1 DEF OneReceive, Received
  <2>2. CASE ~recvOp
    <3>1. ready' = ready
      BY <1>2, <2>2
    <3> QED BY <1>0, <1>2, <2>2, <3>1 DEF OneReceive, Received
  <2> QED BY <2>1, <2>2
<1>5. Counted'
  BY <1>0, <1>2, SameCount DEF Counted
<1>6. InOrder'
  <2>1. Received \in Seq(Datagrams) /\ inbox \in Seq(Datagrams)
    BY <1>0, WaitingFacts DEF UdpTypes
  <2>2. Waiting' = Received
    <3>1. Waiting' = Received \o <<>>
      BY <1>2, <1>4 DEF Waiting
    <3> QED BY <2>1, <3>1
  <2>3. ASSUME NEW e \in Senders PROVE Ordered(Waiting', Got(e)', sent'[e], e)
    <3>1. Ordered(Received \o inbox, Got(e), sent[e], e)
      BY <1>0 DEF InOrder, Waiting
    <3>2. Ordered(Received, Got(e), sent[e], e)
      BY <2>1, <3>1, OrderedPrefix
    <3>3. Got(e)' = Got(e) /\ sent' = sent
      BY <1>2 DEF Got
    <3> QED BY <2>2, <3>2, <3>3
  <2>4. ASSUME NEW e \in Senders, e \notin dropped'
        PROVE  Complete(Waiting', Got(e)', sent'[e], e)
    <3>1. e \notin dropped /\ \A i \in DOMAIN inbox : inbox[i].from # e
      BY <1>2, <2>4
    <3>2. Complete(Received \o inbox, Got(e), sent[e], e)
      BY <1>0, <3>1 DEF InOrder, Waiting
    <3>3. Complete(Received, Got(e), sent[e], e)
      BY <2>1, <3>1, <3>2, CompleteWithout
    <3>4. Got(e)' = Got(e) /\ sent' = sent
      BY <1>2 DEF Got
    <3> QED BY <2>2, <3>3, <3>4
  <2> QED BY <2>3, <2>4 DEF InOrder
<1> QED BY <1>3, <1>4, <1>5, <1>6 DEF UdpInv

\* Joining is associative.
LEMMA Joined ==
  ASSUME NEW a \in Seq(Nat), NEW b \in Seq(Nat), NEW c \in Seq(Nat)
  PROVE  (a \o b) \o c = a \o (b \o c)
BY ConcatAssociative

\* A sequence is its head and its tail.
LEMMA HeadAndTail ==
  ASSUME NEW S, NEW s \in Seq(S), s # <<>>
  PROVE  Head(s) \in S /\ Tail(s) \in Seq(S) /\ s = <<Head(s)>> \o Tail(s)
<1>1. /\ Head(s) \in S /\ Tail(s) \in Seq(S) /\ Head(s) = s[1]
      /\ Len(s) \in Nat \ {0} /\ Len(Tail(s)) = Len(s) - 1
      /\ \A i \in 1..Len(s) - 1 : Tail(s)[i] = s[i + 1]
  OBVIOUS
<1> DEFINE joined == <<Head(s)>> \o Tail(s)
<1>2. /\ joined \in Seq(S) /\ Len(joined) = Len(s)
      /\ \A i \in 1..Len(s) : joined[i] = IF i = 1 THEN Head(s) ELSE Tail(s)[i - 1]
  BY <1>1
<1> HIDE DEF joined
<1>3. \A i \in 1..Len(s) : joined[i] = s[i]
  BY <1>1, <1>2
<1>4. joined = s
  BY <1>2, <1>3, SeqEqual
<1> QED BY <1>1, <1>4 DEF joined

\* Taking bytes from the front of a buffer leaves what the reader gets.
LEMMA TakeFront ==
  ASSUME NEW d \in Seq(Nat), NEW b \in Seq(Nat), NEW size \in 0..Len(b)
  PROVE  /\ d \o SubSeq(b, 1, size) \in Seq(Nat) /\ SubSeq(b, size + 1, Len(b)) \in Seq(Nat)
         /\ Len(b) = Len(SubSeq(b, size + 1, Len(b))) + size
         /\ (d \o SubSeq(b, 1, size)) \o SubSeq(b, size + 1, Len(b)) = d \o b
<1> DEFINE front == SubSeq(b, 1, size)
           back == SubSeq(b, size + 1, Len(b))
<1>1. front \in Seq(Nat) /\ back \in Seq(Nat) /\ Len(b) = Len(back) + size
  OBVIOUS
<1>2. front \o back = b
  <2>1. SubSeq(b, 1, size) \o SubSeq(b, size + 1, Len(b)) = SubSeq(b, 1, Len(b))
    <3>1. 1 \in 1..Len(b) + 1 /\ size \in 1 - 1..Len(b) /\ Len(b) \in size..Len(b)
      OBVIOUS
    <3> QED BY <3>1, ConcatAdjacentSubSeq
  <2>2. SubSeq(b, 1, Len(b)) = b
    BY SubSeqFull
  <2> QED BY <2>1, <2>2
<1> HIDE DEF front, back
<1>3. (d \o front) \o back = d \o (front \o back) /\ d \o front \in Seq(Nat)
  <2>1. d \o front \in Seq(Nat)
    BY <1>1
  <2>2. front \in Seq(Nat) /\ back \in Seq(Nat)
    BY <1>1
  <2>3. (d \o front) \o back = d \o (front \o back)
    BY <2>2, Joined
  <2> QED BY <2>1, <2>3
<1> QED BY <1>1, <1>2, <1>3 DEF front, back

\* ReceiveFrom() takes what it counts, and resumes receiving at the limit.
LEMMA ReceiveFromInv ==
  ASSUME UdpInv, NEW e \in Senders, NEW n \in 1..MaxBlockSize, ReceiveFrom(e, n)
  PROVE  UdpInv'
<1> DEFINE size == Min({n, Len(buffer[e])})
           opened == IF sock = "closed" THEN "open" ELSE sock
           left == pending - size
<1>0. UdpTypes /\ OneReceive /\ Counted /\ InOrder
  BY DEF UdpInv
<1>1. /\ buffer \in [Senders -> Seq(Nat)] /\ delivered \in [Senders -> Seq(Nat)]
      /\ buffer[e] \in Seq(Nat) /\ delivered[e] \in Seq(Nat) /\ Len(buffer[e]) \in Nat
      /\ pending \in Nat
  BY <1>0 DEF UdpTypes
<1>2. size \in Nat /\ size \in 0..Len(buffer[e])
  <2>1. n \in Nat
    BY UdpAssumption
  <2>2. size \in Nat /\ size <= Len(buffer[e])
    BY <1>1, <2>1, MinOfTwo
  <2> QED BY <1>1, <2>2
<1>3. /\ sock' = opened
      /\ delivered' = [delivered EXCEPT ![e] = @ \o SubSeq(buffer[e], 1, size)]
      /\ buffer' = [buffer EXCEPT ![e] = SubSeq(@, size + 1, Len(@))]
      /\ pending' = left
      /\ Restart(Crosses(size), pending', opened)
      /\ UNCHANGED <<inbox, sent, dropped, cleared, ended>>
  BY DEF ReceiveFrom
<1>3a. opened \in {"open", "auto", "bound"} /\ (opened = "bound" => sock = "bound")
  BY <1>0 DEF UdpTypes
<1> HIDE DEF size, opened
<1>4. /\ delivered[e] \o SubSeq(buffer[e], 1, size) \in Seq(Nat)
      /\ SubSeq(buffer[e], size + 1, Len(buffer[e])) \in Seq(Nat)
      /\ Len(buffer[e]) = Len(SubSeq(buffer[e], size + 1, Len(buffer[e]))) + size
      /\ (delivered[e] \o SubSeq(buffer[e], 1, size)) \o SubSeq(buffer[e], size + 1, Len(buffer[e]))
         = delivered[e] \o buffer[e]
  BY <1>1, <1>2, TakeFront
<1>5. buffer' \in [Senders -> Seq(Nat)] /\ delivered' \in [Senders -> Seq(Nat)]
  BY <1>1, <1>3, <1>4
<1>6. /\ Len(buffer[e]) = Len(buffer'[e]) + size
      /\ \A f \in Senders : f # e => buffer'[f] = buffer[f]
  BY <1>1, <1>3, <1>4
<1>7. /\ IsFiniteSet(Places(buffer')) /\ Buffered = Cardinality(Places(buffer')) + size
      /\ Buffered \in Nat /\ Cardinality(Places(buffer')) \in Nat
  <2>1. IsFiniteSet(Places(buffer))
    BY <1>0 DEF Counted
  <2>2. /\ IsFiniteSet(Places(buffer'))
        /\ Cardinality(Places(buffer)) = Cardinality(Places(buffer')) + size
    <3>1. \A f \in Senders : f # e => Len(buffer[f]) = Len(buffer'[f])
      BY <1>6
    <3> QED BY <1>1, <1>2, <1>5, <1>6, <2>1, <3>1, PlacesGrow
  <2> QED BY <2>1, <2>2, FS_CardinalityType DEF Buffered
<1>8. Buffered' = Cardinality(Places(buffer'))
  BY DEF Buffered, Places
<1>9. left \in Nat /\ Cardinality(Places(buffer')) <= left
      /\ (~cleared => left = Cardinality(Places(buffer')))
  BY <1>0, <1>1, <1>2, <1>7 DEF Counted
<1>10. Crosses(size) <=> pending >= MaxBlockSize /\ left < MaxBlockSize
  BY DEF Crosses
<1> DEFINE wanted == Crosses(size)
<1>11. wanted \in BOOLEAN
  BY DEF Crosses
<1>12. Restart(wanted, left, opened)
  BY <1>3
<1> HIDE DEF wanted, left
<1>13. /\ OneReceive' /\ Received' = Received
       /\ receiving' = (receiving \/ (wanted /\ left < MaxBlockSize))
       /\ recvOp' \in BOOLEAN
  BY <1>0, <1>9, <1>11, <1>12, RestartFacts
<1>14. UdpTypes'
  <2>1. sock' \in {"closed", "open", "auto", "bound"} /\ pending' \in Nat /\ receiving' \in BOOLEAN
    BY <1>3, <1>3a, <1>9, <1>13
  <2> QED BY <1>0, <1>3, <1>5, <1>13, <2>1 DEF UdpTypes
<1>15. Counted'
  <2>1. left <= pending
    BY <1>1, <1>2 DEF left
  <2>2. left < MaxBlockSize + MaxDatagram
    BY <1>0, <1>1, <1>9, <2>1, UdpAssumption DEF Counted
  <2>3. receiving' => left < MaxBlockSize
    <3>1. receiving => left < MaxBlockSize
      BY <1>0, <1>1, <1>9, <2>1, UdpAssumption DEF Counted
    <3> QED BY <1>13, <3>1
  <2>4. ASSUME sock' = "bound", ~cleared, ~ended, ~receiving' PROVE left >= MaxBlockSize
    <3>1. sock = "bound" /\ ~receiving /\ ~(wanted /\ left < MaxBlockSize)
      BY <1>3, <1>3a, <1>13, <2>4
    <3>2. pending >= MaxBlockSize
      BY <1>0, <2>4, <3>1 DEF Counted
    <3>3. ~(left < MaxBlockSize)
      BY <1>10, <3>1, <3>2 DEF wanted, left
    <3> QED BY <1>9, <3>3, UdpAssumption
  <2>5. pending' = left /\ cleared' = cleared /\ ended' = ended
    BY <1>3 DEF left
  <2>6. IsFiniteSet(Places(buffer))'
    BY <1>7 DEF Places
  <2> QED BY <1>8, <1>9, <2>2, <2>3, <2>4, <2>5, <2>6 DEF Counted
<1>16. InOrder'
  <2>1. ASSUME NEW f \in Senders PROVE Got(f)' = Got(f)
    BY <1>1, <1>3, <1>4 DEF Got
  <2>2. Waiting' = Waiting /\ sent' = sent /\ dropped' = dropped
    BY <1>3, <1>13 DEF Waiting
  <2> QED BY <1>0, <2>1, <2>2, SameOrder
<1> QED BY <1>13, <1>14, <1>15, <1>16 DEF UdpInv

\* ClearBuffers() drops bytes that pending_data still counts.
LEMMA UdpClearBuffersInv == ASSUME UdpInv, UdpClearBuffers PROVE UdpInv'
<1>0. UdpTypes /\ OneReceive /\ Counted /\ InOrder
  BY DEF UdpInv
<1>1. /\ buffer' = [e \in Senders |-> <<>>] /\ cleared' = TRUE
      /\ dropped' = dropped \cup {e \in Senders : buffer[e] # <<>>}
      /\ UNCHANGED <<sock, inbox, recvOp, pending, receiving, ready, sent, delivered, ended>>
  BY DEF UdpClearBuffers, system
<1>2. UdpTypes'
  <2>1. buffer' \in [Senders -> Seq(Nat)] /\ dropped' \in SUBSET Senders
    BY <1>0, <1>1 DEF UdpTypes
  <2>2. cleared' \in BOOLEAN
    BY Zenon, <1>1
  <2> QED BY <1>0, <1>1, <2>1, <2>2 DEF UdpTypes
<1>3. OneReceive' /\ Received' = Received
  BY <1>0, <1>1 DEF OneReceive, Received
<1>4. Counted'
  <2>1. Places(buffer)' = {}
    <3>1. ASSUME NEW p \in Places(buffer)' PROVE FALSE
      <4>1. Places(buffer)' = Places(buffer')
        BY DEF Places
      <4>2. \A e \in Senders : DOMAIN buffer'[e] = {}
        BY <1>1
      <4>3. PICK e \in Senders : \E i \in DOMAIN buffer'[e] : p = <<e, i>>
        BY <3>1, <4>1, PlacesAre
      <4> QED BY <4>2, <4>3
    <3> QED BY <3>1
  <2>2. IsFiniteSet(Places(buffer))' /\ Buffered' = 0
    BY <2>1, FS_EmptySet DEF Buffered
  <2>3. pending \in Nat /\ pending' = pending /\ receiving' = receiving
    BY <1>0, <1>1 DEF UdpTypes
  <2> QED BY <1>0, <1>1, <2>2, <2>3 DEF Counted
<1>5. InOrder'
  <2>1. ASSUME NEW e \in Senders PROVE Ordered(Waiting', Got(e)', sent'[e], e)
    <3>1. delivered[e] \in Seq(Nat) /\ buffer[e] \in Seq(Nat)
      BY <1>0 DEF UdpTypes
    <3>2. Ordered(Waiting, delivered[e] \o buffer[e], sent[e], e)
      BY <1>0 DEF InOrder, Got
    <3>3. Ordered(Waiting, delivered[e], sent[e], e)
      BY <3>1, <3>2, OrderedCleared
    <3>4. Got(e)' = delivered[e]
      <4>1. Got(e)' = delivered[e] \o <<>>
        BY <1>1 DEF Got
      <4> QED BY <3>1, <4>1
    <3>5. Waiting' = Waiting /\ sent' = sent
      BY <1>1, <1>3 DEF Waiting
    <3> QED BY <3>3, <3>4, <3>5
  <2>2. ASSUME NEW e \in Senders, e \notin dropped'
        PROVE  Complete(Waiting', Got(e)', sent'[e], e)
    <3>1. e \notin dropped /\ buffer[e] = <<>> /\ buffer'[e] = <<>>
      BY <1>1, <2>2
    <3>2. Got(e)' = Got(e) /\ Waiting' = Waiting /\ sent' = sent
      BY <1>1, <1>3, <3>1 DEF Got, Waiting
    <3> QED BY <1>0, <3>1, <3>2 DEF InOrder
  <2> QED BY <2>1, <2>2 DEF InOrder
<1> QED BY <1>2, <1>3, <1>4, <1>5 DEF UdpInv

\* The handler buffers a datagram and receives again below the limit; an error
\* ends the chain.
LEMMA UdpReceiveHandlerInv == ASSUME UdpInv, ReceiveHandler PROVE UdpInv'
<1> DEFINE c == Head(ready)
           d == Datagram(c.from, c.data)
           total == pending + Len(c.data)
<1>0. UdpTypes /\ OneReceive /\ Counted /\ InOrder
  BY DEF UdpInv
<1>1. /\ ready # <<>> /\ Tail(ready) = <<>> /\ ~recvOp
      /\ UNCHANGED <<sock, inbox, sent, delivered, dropped, cleared>>
  <2>1. ready # <<>> /\ UNCHANGED <<sock, inbox, sent, delivered, dropped, cleared>>
    BY DEF ReceiveHandler
  <2>2. ready = <<Head(ready)>> /\ ~recvOp
    BY <1>0, <2>1 DEF OneReceive
  <2>3. Tail(<<Head(ready)>>) = <<>>
    OBVIOUS
  <2> QED BY <2>1, <2>2, <2>3
<1>2. CASE c.err = "ok"
  <2>1. /\ buffer' = [buffer EXCEPT ![c.from] = @ \o c.data]
        /\ pending' = total /\ ended' = ended
        /\ Receive(BelowLimit(total), sock, <<>>)
    BY <1>1, <1>2 DEF ReceiveHandler, Appended
  <2>2. /\ d \in Datagrams /\ Received = <<d>> /\ Waiting = <<d>> \o inbox
        /\ inbox \in Seq(Datagrams)
    BY <1>0, <1>1, <1>2, WaitingFacts DEF Waiting, UdpTypes
  <2>3. /\ d.from = c.from /\ d.data = c.data /\ c.from \in Senders /\ c.data \in Seq(Nat)
        /\ Len(c.data) \in Nat
    BY <2>2 DEF Datagram, Datagrams
  <2>4. /\ buffer \in [Senders -> Seq(Nat)] /\ delivered \in [Senders -> Seq(Nat)]
        /\ sent \in [Senders -> Nat] /\ pending \in Nat
        /\ buffer[c.from] \in Seq(Nat) /\ delivered[c.from] \in Seq(Nat)
    BY <1>0, <2>3 DEF UdpTypes
  <2> DEFINE go == total < MaxBlockSize
  <2>5. go \in BOOLEAN /\ Receive(go, sock, <<>>)
    BY <2>1 DEF BelowLimit
  <2> HIDE DEF go
  <2>6. OneReceive' /\ Received' = <<>> /\ receiving' = go /\ recvOp' \in BOOLEAN
    BY <2>5, ReceiveFacts
  <2> HIDE DEF c, d
  <2>7. Waiting' = inbox
    <3>1. Waiting' = <<>> \o inbox
      BY <1>1, <2>6 DEF Waiting
    <3> QED BY <2>2, <3>1
  <2>8. UdpTypes'
    <3>1. buffer' \in [Senders -> Seq(Nat)] /\ pending' \in Nat /\ receiving' \in BOOLEAN
      BY <2>1, <2>3, <2>4, <2>5, <2>6
    <3> QED BY <1>0, <1>1, <2>1, <2>6, <3>1 DEF UdpTypes
  <2>9. ASSUME NEW e \in Senders
        PROVE  /\ Ordered(Waiting', Got(e)', sent'[e], e)
               /\ Complete(Waiting, Got(e), sent[e], e) => Complete(Waiting', Got(e)', sent'[e], e)
               /\ e = c.from => Len(c.data) \in 1..MaxDatagram
    <3> DEFINE got == Got(e)
    <3>1. /\ got \in Seq(Nat) /\ sent[e] \in Nat
          /\ delivered[e] \in Seq(Nat) /\ buffer[e] \in Seq(Nat)
      BY <2>4 DEF Got
    <3>2. Ordered(<<d>> \o inbox, got, sent[e], e)
      BY <1>0, <2>2 DEF InOrder
    <3>3. CASE e = c.from
      <4>1. Got(e)' = got \o d.data
        <5>1. Got(e)' = delivered[e] \o (buffer[e] \o c.data)
          BY <1>1, <2>1, <2>3, <2>4, <3>3 DEF Got
        <5>2. delivered[e] \o (buffer[e] \o c.data) = (delivered[e] \o buffer[e]) \o c.data
          BY <2>3, <3>1, Joined
        <5> QED BY <2>3, <5>1, <5>2 DEF Got
      <4> HIDE DEF got
      <4>2. d.from = e
        BY <2>3, <3>3
      <4>3. /\ Len(d.data) \in 1..MaxDatagram
            /\ Ordered(inbox, got \o d.data, sent[e], e)
            /\ Complete(<<d>> \o inbox, got, sent[e], e)
               => Complete(inbox, got \o d.data, sent[e], e)
        BY <2>2, <3>1, <3>2, <4>2, OrderedReceived
      <4>4. sent' = sent
        BY <1>1
      <4> QED BY <2>2, <2>3, <2>7, <4>1, <4>3, <4>4 DEF got
    <3>4. CASE e # c.from
      <4>1. Got(e)' = got
        BY <1>1, <2>1, <2>4, <3>4 DEF Got
      <4> HIDE DEF got
      <4>2. d.from # e
        BY <2>3, <3>4
      <4>3. /\ Ordered(inbox, got, sent[e], e)
            /\ Complete(<<d>> \o inbox, got, sent[e], e) => Complete(inbox, got, sent[e], e)
        BY <2>2, <3>1, <3>2, <4>2, OrderedReceivedOther
      <4>4. sent' = sent
        BY <1>1
      <4> QED BY <2>2, <2>7, <3>4, <4>1, <4>3, <4>4 DEF got
    <3> QED BY <3>3, <3>4
  <2>10. InOrder'
    BY <1>0, <1>1, <2>9 DEF InOrder
  <2>11. Counted'
    <3>1. /\ IsFiniteSet(Places(buffer'))
          /\ Cardinality(Places(buffer')) = Buffered + Len(c.data)
      <4>1. IsFiniteSet(Places(buffer))
        BY <1>0 DEF Counted
      <4>2. /\ buffer' \in [Senders -> Seq(Nat)]
            /\ Len(buffer'[c.from]) = Len(buffer[c.from]) + Len(c.data)
            /\ \A f \in Senders : f # c.from => Len(buffer'[f]) = Len(buffer[f])
        <5>1. buffer[c.from] \o c.data \in Seq(Nat)
              /\ Len(buffer[c.from] \o c.data) = Len(buffer[c.from]) + Len(c.data)
          BY <2>3, <2>4
        <5>2. buffer'[c.from] = buffer[c.from] \o c.data
              /\ \A f \in Senders : f # c.from => buffer'[f] = buffer[f]
          BY <2>1, <2>3, <2>4
        <5>3. buffer' \in [Senders -> Seq(Nat)]
          BY <2>8 DEF UdpTypes
        <5> QED BY <5>1, <5>2, <5>3
      <4> QED BY <2>3, <2>4, <4>1, <4>2, PlacesGrow DEF Buffered
    <3>2. Buffered' = Cardinality(Places(buffer')) /\ Places(buffer)' = Places(buffer')
      BY DEF Buffered, Places
    <3>3. Len(c.data) \in Nat /\ Len(c.data) <= MaxDatagram
      BY <2>3, <2>9
    <3>4. Buffered \in Nat
      BY <1>0, FS_CardinalityType DEF Counted, Buffered
    <3>5. pending < MaxBlockSize
      BY <1>0, <1>1 DEF Counted, OneReceive
    <3>6. total < MaxBlockSize + MaxDatagram
      BY <2>4, <3>3, <3>5, UdpAssumption
    <3>7. /\ receiving' => total < MaxBlockSize
          /\ ~receiving' => total >= MaxBlockSize
      <4>1. receiving' <=> go
        BY <2>6
      <4>2. total \in Nat
        BY <2>3, <2>4
      <4> QED BY <4>1, <4>2, UdpAssumption DEF go
    <3>8. /\ Buffered' <= pending'
          /\ ~cleared' => pending' = Buffered'
      BY <1>0, <1>1, <2>1, <2>4, <3>1, <3>2, <3>3, <3>4 DEF Counted
    <3> QED BY <2>1, <3>1, <3>2, <3>6, <3>7, <3>8 DEF Counted
  <2> QED BY <2>6, <2>8, <2>10, <2>11 DEF UdpInv
<1>3. CASE c.err # "ok"
  <2>1. /\ ready' = <<>> /\ receiving' = FALSE /\ ended' = (ended \/ sock = "bound")
        /\ UNCHANGED <<buffer, pending, recvOp>>
    BY <1>1, <1>3 DEF ReceiveHandler
  <2>2. UdpTypes'
    <3>1. receiving' \in BOOLEAN /\ ended' \in BOOLEAN
      BY Zenon, <2>1
    <3> QED BY <1>0, <1>1, <2>1, <3>1 DEF UdpTypes
  <2>3. OneReceive' /\ Received' = <<>>
    BY <1>1, <2>1 DEF OneReceive, Received
  <2>4. Counted'
    <3>1. ~receiving'
      BY <2>1
    <3>2. sock' = "bound" => ended'
      BY <1>1, <2>1
    <3> QED BY <1>0, <1>1, <2>1, <3>1, <3>2, SameCount
  <2>5. InOrder'
    <3>1. Received = <<>>
      BY <1>0, <1>1, <1>3, WaitingFacts
    <3> QED BY <1>0, <1>1, <2>1, <2>3, <3>1, SameOrder DEF Waiting, Got
  <2> QED BY <2>2, <2>3, <2>4, <2>5 DEF UdpInv
<1> QED BY <1>2, <1>3

\* A datagram arrives.
LEMMA ArriveInv ==
  ASSUME UdpInv, NEW e \in Senders, NEW size \in 1..MaxDatagram, Arrive(e, size)
  PROVE  UdpInv'
<1> DEFINE d == Datagram(e, [i \in 1..size |-> sent[e] + i])
<1>0. UdpTypes /\ OneReceive /\ Counted /\ InOrder
  BY DEF UdpInv
<1>1. /\ sent' = [sent EXCEPT ![e] = @ + size] /\ inbox' = Append(inbox, d)
      /\ UNCHANGED <<sock, recvOp, buffer, pending, receiving, ready, delivered, dropped,
                     cleared, ended>>
  BY DEF Arrive, members
<1>2. /\ sent \in [Senders -> Nat] /\ inbox \in Seq(Datagrams) /\ size \in Nat
      /\ Received \in Seq(Datagrams) /\ Waiting \in Seq(Datagrams)
  BY <1>0, WaitingFacts, UdpAssumption DEF UdpTypes
<1>3. d.from = e /\ d.data = [i \in 1..size |-> sent[e] + i] /\ d \in Datagrams
  <2>1. sent[e] \in Nat
    BY <1>2
  <2>2. \A i \in 1..size : sent[e] + i \in Nat
    BY <1>2, <2>1
  <2>3. [i \in 1..size |-> sent[e] + i] \in Seq(Nat)
    BY <1>2, <2>2
  <2> QED BY <2>3 DEF Datagram, Datagrams
<1> HIDE DEF d
<1>4. UdpTypes'
  <2>1. sent' \in [Senders -> Nat] /\ inbox' \in Seq(Datagrams)
    BY <1>1, <1>2, <1>3
  <2> QED BY <1>0, <1>1, <2>1 DEF UdpTypes
<1>5. OneReceive' /\ Received' = Received
  BY <1>0, <1>1 DEF OneReceive, Received
<1>6. Counted'
  BY <1>0, <1>1, SameCount DEF Counted
<1>7. Waiting' = Append(Waiting, d)
  <2>1. Received \o Append(inbox, d) = Append(Received \o inbox, d)
    BY <1>2, <1>3
  <2> QED BY <1>1, <1>5, <2>1 DEF Waiting
<1>8. InOrder'
  <2>1. ASSUME NEW f \in Senders
        PROVE  /\ Ordered(Waiting', Got(f)', sent'[f], f)
               /\ Complete(Waiting, Got(f), sent[f], f) => Complete(Waiting', Got(f)', sent'[f], f)
    <3> DEFINE got == Got(f)
    <3>1. Got(f)' = got
      BY <1>1 DEF Got
    <3>2. got \in Seq(Nat) /\ sent[f] \in Nat
      BY <1>0 DEF Got, UdpTypes
    <3>3. Ordered(Waiting, got, sent[f], f)
      BY <1>0 DEF InOrder
    <3> HIDE DEF got
    <3>4. CASE f = e
      <4>1. d = Datagram(f, [i \in 1..size |-> sent[f] + i])
        BY <3>4 DEF d
      <4>2. /\ Ordered(Append(Waiting, d), got, sent[f] + size, f)
            /\ Complete(Waiting, got, sent[f], f)
               => Complete(Append(Waiting, d), got, sent[f] + size, f)
        BY <1>2, <3>2, <3>3, <4>1, OrderedArrive
      <4>3. sent'[f] = sent[f] + size
        BY <1>1, <1>2, <3>4
      <4> QED BY <1>7, <3>1, <4>2, <4>3 DEF got
    <3>5. CASE f # e
      <4>1. d.from # f
        BY <1>3, <3>5
      <4>2. /\ Ordered(Append(Waiting, d), got, sent[f], f)
            /\ Complete(Waiting, got, sent[f], f) => Complete(Append(Waiting, d), got, sent[f], f)
        BY <1>2, <1>3, <3>2, <3>3, <4>1, OrderedOther
      <4>3. sent'[f] = sent[f]
        BY <1>1, <1>2, <3>5
      <4> QED BY <1>7, <3>1, <4>2, <4>3 DEF got
    <3> QED BY <3>4, <3>5
  <2> QED BY <1>0, <1>1, <2>1 DEF InOrder
<1> QED BY <1>4, <1>5, <1>6, <1>8 DEF UdpInv

\* The kernel hands the oldest datagram to the operation.
LEMMA UdpKernelReceivesInv == ASSUME UdpInv, KernelReceives PROVE UdpInv'
<1> DEFINE d == Head(inbox)
           c == Completion("ok", d.from, d.data)
<1>0. UdpTypes /\ OneReceive /\ Counted /\ InOrder
  BY DEF UdpInv
<1>1. /\ recvOp /\ inbox # <<>> /\ inbox' = Tail(inbox) /\ recvOp' = FALSE
      /\ ready' = Append(ready, c)
      /\ UNCHANGED <<sock, buffer, pending, receiving, sent, delivered, dropped, cleared, ended>>
  BY DEF KernelReceives, members, udpHistory
<1>2. /\ inbox \in Seq(Datagrams) /\ d \in Datagrams /\ Tail(inbox) \in Seq(Datagrams)
      /\ inbox = <<d>> \o Tail(inbox)
  <2>1. inbox \in Seq(Datagrams)
    BY <1>0 DEF UdpTypes
  <2> QED BY <1>1, <2>1, HeadAndTail
<1>3. /\ ready = <<>> /\ ready' = <<c>> /\ Head(<<c>>) = c /\ <<c>> # <<>> /\ c.err = "ok"
      /\ c.from = d.from /\ c.data = d.data /\ receiving
  BY <1>0, <1>1 DEF OneReceive, Completion
<1>4. Datagram(d.from, d.data) = d
  BY <1>2 DEF Datagram, Datagrams
<1> HIDE DEF c, d
<1>5. UdpTypes'
  <2>1. recvOp' \in BOOLEAN
    BY Zenon, <1>1
  <2>2. inbox' \in Seq(Datagrams)
    BY <1>1, <1>2
  <2> QED BY <1>0, <1>1, <2>1, <2>2 DEF UdpTypes
<1>6. OneReceive'
  BY <1>1, <1>2, <1>3, <1>4 DEF OneReceive
<1>7. Counted'
  BY <1>0, <1>1, SameCount DEF Counted
<1>8. Waiting' = Waiting
  <2>1. Received = <<>> /\ Received' = <<d>>
    BY <1>3, <1>4 DEF Received
  <2>2. Waiting' = <<d>> \o Tail(inbox)
    BY <1>1, <2>1 DEF Waiting
  <2>3. Waiting = <<>> \o inbox /\ <<>> \o inbox = inbox
    BY <1>2, <2>1 DEF Waiting
  <2> QED BY <1>2, <2>2, <2>3
<1>9. InOrder'
  BY <1>0, <1>1, <1>8, SameOrder DEF Got
<1> QED BY <1>5, <1>6, <1>7, <1>9 DEF UdpInv

\* The operation fails.
LEMMA KernelReceiveFailsInv == ASSUME UdpInv, KernelReceiveFails PROVE UdpInv'
<1> DEFINE c == Completion("other", CHOOSE e \in Senders : TRUE, <<>>)
<1>0. UdpTypes /\ OneReceive /\ Counted /\ InOrder
  BY DEF UdpInv
<1>1. c.err = "other" /\ Append(<<>>, c) = <<c>> /\ Head(<<c>>) = c /\ <<c>> # <<>>
  BY DEF Completion
<1>2. /\ recvOp /\ recvOp' = FALSE /\ ready' = Append(ready, c)
      /\ UNCHANGED <<sock, inbox, buffer, pending, receiving, sent, delivered, dropped,
                     cleared, ended>>
  BY DEF KernelReceiveFails, members
<1> HIDE DEF c
<1>3. ready = <<>> /\ ready' = <<c>> /\ receiving
  BY <1>0, <1>1, <1>2 DEF OneReceive
<1>4. UdpTypes'
  <2>1. recvOp' \in BOOLEAN
    BY Zenon, <1>2
  <2> QED BY <1>0, <1>2, <2>1 DEF UdpTypes
<1>5. OneReceive' /\ Received' = <<>> /\ Received = <<>>
  BY <1>1, <1>2, <1>3 DEF OneReceive, Received
<1>6. Counted'
  BY <1>0, <1>2, SameCount DEF Counted
<1>7. InOrder'
  <2>1. Waiting' = Waiting /\ sent' = sent /\ \A e \in Senders : Got(e)' = Got(e)
    BY <1>2, <1>5 DEF Waiting, Got
  <2> QED BY <1>0, <1>2, <2>1, SameOrder
<1> QED BY <1>4, <1>5, <1>6, <1>7 DEF UdpInv

-----------------------------------------------------------------------------
(* Counting dead sockets.                                                  *)

\* Removing the i-th element shifts the later ones down by one.
LEMMA Removed ==
  ASSUME NEW S, NEW s \in Seq(S), NEW i \in 1..Len(s)
  PROVE  /\ RemoveAt(s, i) \in Seq(S)
         /\ Len(RemoveAt(s, i)) = Len(s) - 1
         /\ \A j \in 1..Len(s) - 1 :
              RemoveAt(s, i)[j] = s[IF j < i THEN j ELSE j + 1]
<1> DEFINE front == SubSeq(s, 1, i - 1)
           back  == SubSeq(s, i + 1, Len(s))
<1>1. front \in Seq(S) /\ Len(front) = i - 1
      /\ \A j \in 1..(i - 1) : front[j] = s[j]
  OBVIOUS
<1>2. back \in Seq(S) /\ Len(back) = Len(s) - i
      /\ \A j \in 1..(Len(s) - i) : back[j] = s[i + j]
  OBVIOUS
<1> HIDE DEF front, back
<1>3. /\ front \o back \in Seq(S)
      /\ Len(front \o back) = Len(s) - 1
  <2>1. \A a, b \in Seq(S) : a \o b \in Seq(S) /\ Len(a \o b) = Len(a) + Len(b)
    OBVIOUS
  <2>2. front \in Seq(S) /\ back \in Seq(S)
    BY <1>1, <1>2
  <2>3. Len(front) + Len(back) = Len(s) - 1
    BY <1>1, <1>2
  <2> QED BY <2>1, <2>2, <2>3, Zenon
<1>4. ASSUME NEW j \in 1..Len(s) - 1
      PROVE  (front \o back)[j] = IF j < i THEN front[j] ELSE back[j - (i - 1)]
  BY <1>1, <1>2
<1>5. \A j \in 1..Len(s) - 1 :
        (front \o back)[j] = s[IF j < i THEN j ELSE j + 1]
  BY <1>1, <1>2, <1>4
<1> QED BY <1>3, <1>5 DEF RemoveAt, front, back

\* Both counts are of indices of a sequence.
LEMMA CountsFinite ==
  /\ \A got \in Seq(Nat) : IsFiniteSet(Dead(got)) /\ Cardinality(Dead(got)) \in Nat
  /\ \A queue \in Seq(Accepts) :
       IsFiniteSet(Aborted(queue)) /\ Cardinality(Aborted(queue)) \in Nat
<1>1. ASSUME NEW S, NEW s \in Seq(S), NEW I \in SUBSET (DOMAIN s)
      PROVE  IsFiniteSet(I) /\ Cardinality(I) \in Nat
  <2>1. DOMAIN s = 1..Len(s) /\ 1 \in Int /\ Len(s) \in Int
    OBVIOUS
  <2>2. IsFiniteSet(DOMAIN s)
    BY <2>1, FS_Interval
  <2>3. IsFiniteSet(I)
    BY <2>2, FS_Subset
  <2> QED BY <2>3, FS_CardinalityType
<1>2. ASSUME NEW got \in Seq(Nat)
      PROVE  IsFiniteSet(Dead(got)) /\ Cardinality(Dead(got)) \in Nat
  <2>1. Dead(got) \in SUBSET (DOMAIN got)
    BY DEF Dead
  <2> QED BY <1>1, <2>1
<1>3. ASSUME NEW queue \in Seq(Accepts)
      PROVE  IsFiniteSet(Aborted(queue)) /\ Cardinality(Aborted(queue)) \in Nat
  <2>1. Aborted(queue) \in SUBSET (DOMAIN queue)
    BY DEF Aborted
  <2> QED BY <1>1, <2>1
<1> QED BY <1>2, <1>3

\* A queued socket counts if it is dead.
LEMMA DeadAppend ==
  ASSUME NEW got \in Seq(Nat), NEW x \in Nat
  PROVE  Cardinality(Dead(Append(got, x)))
         = Cardinality(Dead(got)) + (IF x = 0 THEN 1 ELSE 0)
<1> DEFINE all == Append(got, x)
           n == Len(got) + 1
<1>1. /\ DOMAIN all = 1..n /\ DOMAIN got = 1..Len(got) /\ Len(got) \in Nat /\ all[n] = x
      /\ \A i \in 1..Len(got) : all[i] = got[i]
  OBVIOUS
<1> HIDE DEF all
<1>2. IsFiniteSet(Dead(got)) /\ Cardinality(Dead(got)) \in Nat
  BY CountsFinite
<1>3. n \notin Dead(got) /\ 1..n = 1..Len(got) \union {n}
  BY <1>1 DEF Dead
<1>4. CASE x = 0
  <2>1. Dead(all) = Dead(got) \union {n}
    BY <1>1, <1>3, <1>4 DEF Dead
  <2>2. Cardinality(Dead(got) \union {n}) = Cardinality(Dead(got)) + 1
    BY <1>2, <1>3, FS_AddElement
  <2> QED BY <1>4, <2>1, <2>2 DEF all
<1>5. CASE x # 0
  <2>1. Dead(all) = Dead(got)
    BY <1>1, <1>3, <1>5 DEF Dead
  <2> QED BY <1>2, <1>5, <2>1 DEF all
<1> QED BY <1>4, <1>5

\* So does a queued completion if it is of an aborted accept.
LEMMA AbortedAppend ==
  ASSUME NEW queue \in Seq(Accepts), NEW a \in Accepts, a.err # "aborted"
  PROVE  Aborted(Append(queue, a)) = Aborted(queue)
<1> DEFINE all == Append(queue, a)
           n == Len(queue) + 1
<1>1. /\ DOMAIN all = 1..n /\ DOMAIN queue = 1..Len(queue) /\ all[n] = a
      /\ \A i \in 1..Len(queue) : all[i] = queue[i] /\ i \in 1..n
      /\ \A i \in 1..n : i = n \/ i \in 1..Len(queue)
  OBVIOUS
<1> HIDE DEF all, n
<1>2. Aborted(all) = Aborted(queue)
  BY Zenon, <1>1 DEF Aborted
<1> QED BY <1>2 DEF all

\* Close() aborts every accept there is.
LEMMA AbortedClose ==
  ASSUME NEW queue \in Seq(Accepts), NEW ops \in Nat
  PROVE  LET all == queue \o [i \in 1..ops |-> Accept("aborted", 0)]
         IN  /\ all \in Seq(Accepts) /\ Len(all) = Len(queue) + ops
             /\ \A i \in 1..Len(queue) : all[i] = queue[i]
             /\ \A i \in 1..Len(all) : i > Len(queue) => all[i] = Accept("aborted", 0)
             /\ Cardinality(Aborted(all)) = Cardinality(Aborted(queue)) + ops
<1> DEFINE a == Accept("aborted", 0)
           more == [i \in 1..ops |-> a]
           all == queue \o more
           n == Len(queue)
           new == n + 1..n + ops
<1>1. a \in Accepts /\ a.err = "aborted"
  BY DEF Accept, Accepts
<1> HIDE DEF a
<1>2. /\ more \in Seq(Accepts) /\ Len(more) = ops /\ n \in Nat
      /\ \A i \in 1..ops : more[i] = a
  BY <1>1
<1> HIDE DEF more
<1>3. /\ all \in Seq(Accepts) /\ Len(all) = n + ops
      /\ \A i \in 1..n + ops : all[i] = IF i <= n THEN queue[i] ELSE more[i - n]
  BY <1>2
<1>4. \A i \in 1..n : all[i] = queue[i]
  BY <1>2, <1>3
<1>5. \A i \in 1..Len(all) : i > n => all[i] = a
  <2> SUFFICES ASSUME NEW i \in 1..n + ops, i > n PROVE all[i] = a
    BY <1>3
  <2>1. i - n \in 1..ops /\ all[i] = more[i - n]
    BY <1>2, <1>3
  <2> QED BY <1>2, <2>1
<1> HIDE DEF all
<1>6. Aborted(all) = Aborted(queue) \union new
  <2>1. DOMAIN all = 1..n + ops /\ DOMAIN queue = 1..n
    BY <1>3
  <2>2. \A i : i \in 1..n + ops <=> i \in 1..n \/ i \in new
    BY <1>2
  <2>3. \A i \in new : i \in 1..Len(all) /\ i > n
    BY <1>2, <1>3
  <2>4. \A i \in new : all[i].err = "aborted"
    BY <1>1, <1>5, <2>3
  <2> HIDE DEF new, n
  <2> QED BY <1>4, <2>1, <2>2, <2>4 DEF Aborted
<1>7. Aborted(queue) \intersect new = {}
  BY <1>2 DEF Aborted
<1>8. IsFiniteSet(new) /\ Cardinality(new) = ops
  <2>1. n + 1 \in Int /\ n + ops \in Int
    BY <1>2
  <2>2. /\ IsFiniteSet(new)
        /\ Cardinality(new) = IF n + 1 > n + ops THEN 0 ELSE (n + ops) - (n + 1) + 1
    BY <2>1, FS_Interval
  <2> QED BY <1>2, <2>2
<1> HIDE DEF new
<1>9. IsFiniteSet(Aborted(queue)) /\ Cardinality(Aborted(queue)) \in Nat
  BY CountsFinite
<1>10. Cardinality(Aborted(queue) \union new)
       = Cardinality(Aborted(queue)) + Cardinality(new) - Cardinality(Aborted(queue) \intersect new)
  BY <1>8, <1>9, FS_Union
<1>11. Cardinality(Aborted(queue) \intersect new) = 0
  BY <1>7, FS_EmptySet
<1>12. Cardinality(Aborted(all)) = Cardinality(Aborted(queue)) + ops
  BY <1>6, <1>8, <1>9, <1>10, <1>11
<1> QED BY <1>3, <1>4, <1>5, <1>12 DEF all, more, a

\* Running a completion takes it from the count.
LEMMA AbortedRemove ==
  ASSUME NEW queue \in Seq(Accepts), NEW i \in 1..Len(queue)
  PROVE  Cardinality(Aborted(queue))
         = Cardinality(Aborted(RemoveAt(queue, i))) + (IF queue[i].err = "aborted" THEN 1 ELSE 0)
<1> DEFINE r == RemoveAt(queue, i)
           S == Aborted(r)
           T == Aborted(queue) \ {i}
           f == [j \in S |-> IF j < i THEN j ELSE j + 1]
<1>1. /\ r \in Seq(Accepts) /\ Len(r) = Len(queue) - 1 /\ Len(queue) \in Nat
      /\ \A j \in 1..Len(queue) - 1 : r[j] = queue[IF j < i THEN j ELSE j + 1]
      /\ DOMAIN queue = 1..Len(queue)
  <2>1. Len(queue) \in Nat /\ DOMAIN queue = 1..Len(queue)
    OBVIOUS
  <2> QED BY <2>1, Removed
<1> HIDE DEF r
<1>2. DOMAIN r = 1..Len(queue) - 1
  BY <1>1
<1>3. \A j \in S : j \in 1..Len(queue) - 1 /\ f[j] = IF j < i THEN j ELSE j + 1
  BY <1>2 DEF Aborted
<1>4. f \in [S -> T]
  <2> SUFFICES ASSUME NEW j \in S PROVE (IF j < i THEN j ELSE j + 1) \in T
    OBVIOUS
  <2> DEFINE k == IF j < i THEN j ELSE j + 1
  <2>1. j \in 1..Len(queue) - 1 /\ r[j].err = "aborted" /\ r[j] = queue[k]
    BY <1>1, <1>2 DEF Aborted
  <2>2. k \in 1..Len(queue) /\ k # i
    BY <1>1, <2>1
  <2> HIDE DEF k
  <2>3. k \in T
    BY <1>1, <2>1, <2>2 DEF Aborted
  <2> QED BY <2>3 DEF k
<1>5. \A j, k \in S : f[j] = f[k] => j = k
  BY <1>1, <1>3
<1>6. \A t \in T : \E j \in S : f[j] = t
  <2> SUFFICES ASSUME NEW t \in T PROVE \E j \in S : f[j] = t
    OBVIOUS
  <2>1. t \in 1..Len(queue) /\ queue[t].err = "aborted" /\ t # i
    BY <1>1 DEF Aborted
  <2> DEFINE j == IF t < i THEN t ELSE t - 1
  <2>2. j \in 1..Len(queue) - 1 /\ (IF j < i THEN j ELSE j + 1) = t
    BY <1>1, <2>1
  <2>3. r[j] = queue[t]
    BY <1>1, <2>2
  <2> HIDE DEF j
  <2>4. j \in S
    BY <1>2, <2>1, <2>2, <2>3 DEF Aborted
  <2> QED BY <1>3, <2>2, <2>4
<1> HIDE DEF f
<1>7. ExistsBijection(S, T)
  BY <1>4, <1>5, <1>6 DEF ExistsBijection, Bijection, Injection, Surjection, IsInjective
<1>8. /\ IsFiniteSet(S) /\ Cardinality(S) \in Nat
      /\ IsFiniteSet(Aborted(queue)) /\ Cardinality(Aborted(queue)) \in Nat
  BY <1>1, CountsFinite
<1>9. Cardinality(T) = Cardinality(S)
  BY <1>7, <1>8, FS_Bijection
<1>10. Cardinality(T) = IF i \in Aborted(queue) THEN Cardinality(Aborted(queue)) - 1
                        ELSE Cardinality(Aborted(queue))
  BY <1>8, FS_RemoveElement
<1>11. i \in Aborted(queue) <=> queue[i].err = "aborted"
  BY <1>1 DEF Aborted
<1> QED BY <1>8, <1>9, <1>10, <1>11 DEF r

-----------------------------------------------------------------------------
(* The steps of a TcpListener.                                             *)

\* The parts of the invariant that depend on the connections alone.
LEMMA SameConnections ==
  ASSUME Distinct, Youngest, DeadCounted, accepts' = accepts, backlog' = backlog,
         Fetched' = Fetched, peers' = peers, aborts' = aborts, listens' <= 1 => listens <= 1
  PROVE  Distinct' /\ Youngest' /\ DeadCounted'
<1>1. Distinct'
  BY DEF Distinct
<1>2. Youngest'
  BY DEF Youngest
<1>3. DeadCounted'
  BY DEF DeadCounted, Dead, Aborted
<1> QED BY <1>1, <1>2, <1>3

\* Nothing else belongs to the listener.
LEMMA IdleListener == ASSUME ListenerInv, UNCHANGED listenerVars PROVE ListenerInv'
<1> USE DEF listenerVars, acceptor, listenerHistory
<1>1. ListenerTypes' /\ AcceptsOn'
  BY DEF ListenerInv, ListenerTypes, AcceptsOn
<1>2. Distinct' /\ Youngest' /\ DeadCounted'
  BY SameConnections DEF ListenerInv, Fetched
<1> QED BY <1>1, <1>2 DEF ListenerInv

\* Listen() starts a chain of accepts.
LEMMA ListenInv == ASSUME ListenerInv, Listen PROVE ListenerInv'
<1>0. ListenerTypes /\ AcceptsOn /\ Distinct /\ Youngest /\ DeadCounted
  BY DEF ListenerInv
<1>1. /\ listening' = TRUE /\ acceptOps' = acceptOps + 1 /\ listens' = listens + 1
      /\ UNCHANGED <<backlog, newConnections, accepts, peers, fetched, aborts, failed>>
  BY DEF Listen
<1>2. /\ acceptOps \in Nat /\ listens \in Nat /\ Len(accepts) \in Nat
      /\ acceptOps + Len(accepts) <= listens
  BY <1>0 DEF ListenerTypes, AcceptsOn
<1>3. ListenerTypes'
  <2>1. listening' \in BOOLEAN
    BY Zenon, <1>1
  <2>2. acceptOps' \in Nat /\ listens' \in Nat
    BY <1>1, <1>2
  <2> QED BY <1>0, <1>1, <2>1, <2>2 DEF ListenerTypes
<1>4. AcceptsOn'
  <2>1. acceptOps' + Len(accepts') > 0 /\ acceptOps' + Len(accepts') <= listens'
    BY <1>1, <1>2
  <2> QED BY <2>1 DEF AcceptsOn
<1>5. listens' <= 1 => listens <= 1
  BY <1>1, <1>2
<1>6. Distinct' /\ Youngest' /\ DeadCounted'
  BY <1>0, <1>1, <1>5, SameConnections DEF Fetched
<1> QED BY <1>3, <1>4, <1>6 DEF ListenerInv

\* A Listen() that fails opens the acceptor only.
LEMMA ListenFailsInv == ASSUME ListenerInv, ListenFails PROVE ListenerInv'
<1>1. UNCHANGED <<backlog, acceptOps, listening, newConnections, accepts, peers, fetched,
                  listens, aborts, failed>>
  BY DEF ListenFails
<1>2. ListenerTypes' /\ AcceptsOn'
  BY <1>1 DEF ListenerInv, ListenerTypes, AcceptsOn
<1>3. Distinct' /\ Youngest' /\ DeadCounted'
  BY <1>1, SameConnections DEF ListenerInv, Fetched
<1> QED BY <1>2, <1>3 DEF ListenerInv

\* Close() turns each accept into an aborted completion.
LEMMA ListenerCloseInv == ASSUME ListenerInv, ListenerClose PROVE ListenerInv'
<1> DEFINE more == [i \in 1..acceptOps |-> Accept("aborted", 0)]
           all == accepts \o more
<1>0. ListenerTypes /\ AcceptsOn /\ Distinct /\ Youngest /\ DeadCounted
  BY DEF ListenerInv
<1>1. /\ listening' = FALSE /\ backlog' = <<>> /\ acceptOps' = 0 /\ accepts' = all
      /\ aborts' = aborts + acceptOps
      /\ UNCHANGED <<newConnections, peers, fetched, listens, failed>>
  BY DEF ListenerClose
<1>2. /\ acceptOps \in Nat /\ listens \in Nat /\ Len(accepts) \in Nat /\ aborts \in Nat
      /\ accepts \in Seq(Accepts) /\ acceptOps + Len(accepts) <= listens
  BY <1>0 DEF ListenerTypes, AcceptsOn
<1>3. /\ all \in Seq(Accepts) /\ Len(all) = Len(accepts) + acceptOps
      /\ \A i \in 1..Len(accepts) : all[i] = accepts[i]
      /\ \A i \in 1..Len(all) : i > Len(accepts) => all[i] = Accept("aborted", 0)
      /\ Cardinality(Aborted(all)) = Cardinality(Aborted(accepts)) + acceptOps
  BY <1>2, AbortedClose
<1> HIDE DEF all
<1>4. ListenerTypes'
  <2>1. listening' \in BOOLEAN
    BY Zenon, <1>1
  <2>2. acceptOps' \in Nat /\ aborts' \in Nat /\ backlog' \in Seq(Nat) /\ accepts' \in Seq(Accepts)
    BY <1>1, <1>2, <1>3
  <2> QED BY <1>0, <1>1, <2>1, <2>2 DEF ListenerTypes
<1>5. AcceptsOn'
  <2>1. ~listening' /\ acceptOps' + Len(accepts') <= listens'
    BY <1>1, <1>2, <1>3
  <2> QED BY <2>1 DEF AcceptsOn
<1>6. /\ DOMAIN accepts = 1..Len(accepts) /\ DOMAIN accepts' = 1..Len(all)
      /\ Fetched' = Fetched /\ peers \in Nat
  BY <1>0, <1>1, <1>2, <1>3 DEF ListenerTypes, Fetched
<1>7. \A i \in DOMAIN accepts' :
        \/ i \in DOMAIN accepts /\ accepts'[i] = accepts[i]
        \/ accepts'[i].err = "aborted" /\ accepts'[i].socket = 0
  <2> SUFFICES ASSUME NEW i \in 1..Len(all), i > Len(accepts)
               PROVE  all[i].err = "aborted" /\ all[i].socket = 0
    BY <1>1, <1>2, <1>3, <1>6
  <2> QED BY <1>3 DEF Accept
<1>8. Distinct'
  <2>1. ASSUME NEW i \in DOMAIN accepts', accepts'[i].err # "ok" PROVE accepts'[i].socket = 0
    BY <1>0, <1>7, <2>1 DEF Distinct
  <2>2. ASSUME NEW i \in DOMAIN accepts', accepts'[i].err = "ok"
        PROVE  /\ accepts'[i].socket \in 1..peers'
               /\ \A j \in DOMAIN Fetched' : Fetched'[j] # accepts'[i].socket
               /\ \A j \in DOMAIN accepts' : i # j => accepts'[i].socket # accepts'[j].socket
               /\ listens' <= 1 => \A j \in DOMAIN Fetched' : Fetched'[j] < accepts'[i].socket
    <3>1. i \in DOMAIN accepts /\ accepts'[i] = accepts[i]
      BY <1>7, <2>2
    <3>2. accepts[i].socket \in 1..peers /\ accepts[i].socket # 0
      BY <1>0, <1>6, <2>2, <3>1 DEF Distinct
    <3>3. \A j \in DOMAIN accepts' : i # j => accepts[i].socket # accepts'[j].socket
      BY <1>0, <1>7, <2>2, <3>1, <3>2 DEF Distinct
    <3> QED BY <1>0, <1>1, <1>6, <2>2, <3>1, <3>2, <3>3 DEF Distinct
  <2> QED BY <1>0, <1>1, <1>6, <2>1, <2>2 DEF Distinct
<1>9. Youngest'
  BY <1>0, <1>1, <1>6 DEF Youngest
<1>10. DeadCounted'
  <2>1. Fetched \in Seq(Nat)
    BY <1>0 DEF ListenerTypes, Fetched
  <2>2. Cardinality(Dead(Fetched)) \in Nat /\ Cardinality(Aborted(accepts)) \in Nat
    BY <1>2, <2>1, CountsFinite
  <2>3. /\ Cardinality(Dead(Fetched)) + Cardinality(Aborted(accepts)) <= aborts
        /\ (DeadCounted)' <=> Cardinality(Dead(Fetched)) + Cardinality(Aborted(all)) <= aborts'
    BY <1>0, <1>1, <1>6 DEF DeadCounted, Dead, Aborted
  <2> QED BY <1>1, <1>2, <1>3, <2>2, <2>3
<1> QED BY <1>4, <1>5, <1>8, <1>9, <1>10 DEF ListenerInv

\* Fetching moves a socket from the queue to the application.
LEMMA GetPendingConnectionInv == ASSUME ListenerInv, GetPendingConnection PROVE ListenerInv'
<1>0. ListenerTypes /\ AcceptsOn /\ Distinct /\ Youngest /\ DeadCounted
  BY DEF ListenerInv
<1>1. /\ newConnections # <<>> /\ newConnections' = Tail(newConnections)
      /\ fetched' = Append(fetched, Head(newConnections))
      /\ UNCHANGED <<backlog, acceptOps, listening, accepts, peers, listens, aborts, failed>>
  BY DEF GetPendingConnection, acceptor
<1>2. newConnections \in Seq(Nat) /\ fetched \in Seq(Nat)
  BY <1>0 DEF ListenerTypes
<1>3. newConnections' \in Seq(Nat) /\ fetched' \in Seq(Nat)
  BY <1>1, <1>2
<1>4. ListenerTypes' /\ AcceptsOn'
  BY <1>0, <1>1, <1>3 DEF ListenerTypes, AcceptsOn
<1>5. Fetched' = Fetched
  <2> DEFINE x == Head(newConnections)
             rest == Tail(newConnections)
  <2>1. x \in Nat /\ rest \in Seq(Nat) /\ newConnections = <<x>> \o rest
    BY <1>1, <1>2, HeadAndTail
  <2> HIDE DEF x, rest
  <2>2. Append(fetched, x) = fetched \o <<x>> /\ <<x>> \in Seq(Nat)
    BY <1>2, <2>1
  <2>3. (fetched \o <<x>>) \o rest = fetched \o (<<x>> \o rest)
    BY <1>2, <2>1, <2>2, Joined
  <2> QED BY <1>1, <2>1, <2>2, <2>3 DEF x, rest, Fetched
<1>6. Distinct' /\ Youngest' /\ DeadCounted'
  BY <1>0, <1>1, <1>5, SameConnections
<1> QED BY <1>4, <1>6 DEF ListenerInv

\* The handler queues the socket of a completion and accepts again.
LEMMA AcceptHandlerInv ==
  ASSUME ListenerInv, NEW i \in 1..Len(accepts), AcceptHandler(i)
  PROVE  ListenerInv'
<1> DEFINE a == accepts[i]
           rest == RemoveAt(accepts, i)
           Place(j) == IF j < i THEN j ELSE j + 1
<1>0. ListenerTypes /\ AcceptsOn /\ Distinct /\ Youngest /\ DeadCounted
  BY DEF ListenerInv
<1>1. /\ accepts' = rest
      /\ newConnections' = IF Queues(a) THEN Append(newConnections, a.socket) ELSE newConnections
      /\ acceptOps' = IF listening /\ ~Ends(a) THEN acceptOps + 1 ELSE acceptOps
      /\ failed' = IF a.err = "other" THEN failed + 1 ELSE failed
      /\ UNCHANGED <<backlog, listening, peers, fetched, listens, aborts>>
  BY DEF AcceptHandler
<1>2. /\ accepts \in Seq(Accepts) /\ newConnections \in Seq(Nat) /\ fetched \in Seq(Nat)
      /\ acceptOps \in Nat /\ failed \in Nat /\ listens \in Nat /\ aborts \in Nat
      /\ peers \in Nat /\ listening \in BOOLEAN /\ backlog \in Seq(Nat)
  BY <1>0 DEF ListenerTypes
<1>3. /\ rest \in Seq(Accepts) /\ Len(rest) = Len(accepts) - 1
      /\ \A j \in 1..Len(accepts) - 1 : rest[j] = accepts[Place(j)]
  BY <1>2, Removed
<1>4. /\ a \in Accepts /\ a.socket \in Nat /\ a.err \in {"ok", "aborted", "reset", "other"}
      /\ Len(accepts) \in Nat /\ DOMAIN accepts = 1..Len(accepts)
  <2>1. a \in Accepts /\ Len(accepts) \in Nat /\ DOMAIN accepts = 1..Len(accepts)
    BY <1>2
  <2> HIDE DEF a
  <2> QED BY <2>1 DEF Accepts
<1>5. /\ \A j \in DOMAIN rest : Place(j) \in DOMAIN accepts /\ Place(j) # i
                               /\ rest[j] = accepts[Place(j)]
      /\ \A j, k \in DOMAIN rest : j # k => Place(j) # Place(k)
      /\ DOMAIN rest = 1..Len(accepts) - 1
  <2>1. DOMAIN rest = 1..Len(accepts) - 1
    <3>1. rest \in Seq(Accepts) /\ Len(rest) = Len(accepts) - 1
      BY <1>3
    <3> HIDE DEF rest
    <3>2. \A s \in Seq(Accepts) : DOMAIN s = 1..Len(s)
      OBVIOUS
    <3> QED BY <3>1, <3>2
  <2>2. \A j \in 1..Len(accepts) - 1 : Place(j) \in 1..Len(accepts) /\ Place(j) # i
    BY <1>4
  <2>3. \A j, k \in 1..Len(accepts) - 1 : j # k => Place(j) # Place(k)
    BY <1>4
  <2> QED BY <1>3, <1>4, <2>1, <2>2, <2>3
<1> HIDE DEF a, rest, Place
<1>6. Fetched \in Seq(Nat) /\ Fetched' = IF Queues(a) THEN Append(Fetched, a.socket) ELSE Fetched
  <2>1. fetched \o Append(newConnections, a.socket) = Append(fetched \o newConnections, a.socket)
    BY <1>2, <1>4
  <2>2. fetched \o newConnections \in Seq(Nat)
    BY <1>2
  <2> QED BY <1>1, <2>1, <2>2 DEF Fetched
<1>7. ListenerTypes'
  <2>1. /\ newConnections' \in Seq(Nat) /\ acceptOps' \in Nat /\ failed' \in Nat
        /\ accepts' \in Seq(Accepts)
    BY <1>1, <1>2, <1>3, <1>4
  <2> QED BY <1>1, <1>2, <2>1 DEF ListenerTypes
<1>8. AcceptsOn'
  <2>1. Len(accepts') = Len(accepts) - 1 /\ Len(accepts) > 0
    BY <1>1, <1>3, <1>4
  <2>2. acceptOps + Len(accepts) <= listens
    BY <1>0 DEF AcceptsOn
  <2>3. acceptOps' + Len(accepts') <= listens'
    BY <1>1, <1>2, <1>4, <2>1, <2>2
  <2>4. listening' => acceptOps' + Len(accepts') > 0 \/ failed' > 0
    <3>1. CASE Ends(a)
      BY <1>1, <1>2, <3>1 DEF Ends
    <3>2. CASE ~Ends(a)
      BY <1>1, <1>2, <1>4, <2>1, <3>2
    <3> QED BY <3>1, <3>2
  <2> QED BY <2>3, <2>4 DEF AcceptsOn
<1>9. a.err = "ok" =>
        /\ a.socket \in 1..peers /\ a.socket # 0
        /\ \A j \in DOMAIN Fetched : Fetched[j] # a.socket
        /\ \A j \in DOMAIN rest : a.socket # rest[j].socket
        /\ listens <= 1 => \A j \in DOMAIN Fetched : Fetched[j] < a.socket
  <2> SUFFICES ASSUME a.err = "ok"
               PROVE  /\ a.socket \in 1..peers
                      /\ \A j \in DOMAIN Fetched : Fetched[j] # a.socket
                      /\ \A j \in DOMAIN rest : a.socket # rest[j].socket
                      /\ listens <= 1 => \A j \in DOMAIN Fetched : Fetched[j] < a.socket
    BY <1>2
  <2>1. i \in DOMAIN accepts /\ accepts[i] = a
    BY <1>4 DEF a
  <2>2. /\ a.socket \in 1..peers
        /\ \A j \in DOMAIN Fetched : Fetched[j] # a.socket
        /\ \A j \in DOMAIN accepts : i # j => a.socket # accepts[j].socket
        /\ listens <= 1 => \A j \in DOMAIN Fetched : Fetched[j] < a.socket
    BY <1>0, <2>1 DEF Distinct
  <2> QED BY <1>5, <2>2
<1>10. a.err # "ok" => a.socket = 0
  BY <1>0, <1>4 DEF Distinct, a
<1>11. Queues(a) <=> a.err \in {"ok", "aborted"}
  BY DEF Queues
<1> DEFINE n == Len(Fetched)
<1>12. /\ n \in Nat /\ DOMAIN Fetched = 1..n
       /\ \A j \in DOMAIN Fetched' : \/ j \in DOMAIN Fetched /\ Fetched'[j] = Fetched[j]
                                     \/ Queues(a) /\ j = n + 1 /\ Fetched'[j] = a.socket
  <2>1. n \in Nat /\ DOMAIN Fetched = 1..n
    BY <1>6
  <2>2. CASE Queues(a)
    <3>1. Fetched' = Append(Fetched, a.socket)
      BY <1>6, <2>2
    <3>2. /\ DOMAIN Append(Fetched, a.socket) = 1..n + 1
          /\ Append(Fetched, a.socket)[n + 1] = a.socket
          /\ \A j \in 1..n : Append(Fetched, a.socket)[j] = Fetched[j]
      BY <1>4, <1>6
    <3>3. \A j \in 1..n + 1 : j \in 1..n \/ j = n + 1
      BY <2>1
    <3> HIDE DEF n
    <3> QED BY Zenon, <2>1, <2>2, <3>1, <3>2, <3>3
  <2>3. CASE ~Queues(a)
    BY <1>6, <2>1, <2>3
  <2> QED BY <2>2, <2>3
<1> HIDE DEF n
<1>13. Distinct'
  <2>1. ASSUME NEW j \in DOMAIN rest
        PROVE  /\ rest[j].err # "ok" => rest[j].socket = 0
               /\ rest[j].err = "ok" =>
                    /\ rest[j].socket \in 1..peers
                    /\ \A k \in DOMAIN Fetched : Fetched[k] # rest[j].socket
                    /\ \A k \in DOMAIN rest : j # k => rest[j].socket # rest[k].socket
                    /\ listens <= 1 => \A k \in DOMAIN Fetched : Fetched[k] < rest[j].socket
    <3>1. Place(j) \in DOMAIN accepts /\ rest[j] = accepts[Place(j)]
      BY <1>5
    <3>2. \A k \in DOMAIN rest : j # k =>
            Place(k) \in DOMAIN accepts /\ rest[k] = accepts[Place(k)] /\ Place(j) # Place(k)
      BY <1>5
    <3> QED BY <1>0, <3>1, <3>2 DEF Distinct
  <2>2. ASSUME NEW j \in DOMAIN rest, rest[j].err = "ok", Queues(a)
        PROVE  a.socket # rest[j].socket /\ (listens <= 1 => a.socket < rest[j].socket)
    <3>1. a.socket # rest[j].socket
      <4>1. CASE a.err = "ok"
        BY <1>9, <4>1
      <4>2. CASE a.err # "ok"
        <5>1. rest[j].socket \in 1..peers
          BY <2>1, <2>2
        <5> QED BY <1>2, <1>10, <4>2, <5>1
      <4> QED BY <4>1, <4>2
    <3>2. ~(listens <= 1)
      <4>1. acceptOps + Len(accepts) <= listens /\ Len(accepts) >= 2
        BY <1>0, <1>4, <1>5 DEF AcceptsOn
      <4> QED BY <1>2, <1>4, <4>1
    <3> QED BY <3>1, <3>2
  <2>3. ASSUME NEW j \in DOMAIN rest, rest[j].err = "ok", NEW k \in DOMAIN Fetched'
        PROVE  Fetched'[k] # rest[j].socket /\ (listens <= 1 => Fetched'[k] < rest[j].socket)
    <3>1. CASE k \in DOMAIN Fetched /\ Fetched'[k] = Fetched[k]
      BY <2>1, <2>3, <3>1
    <3>2. CASE Queues(a) /\ k = n + 1 /\ Fetched'[k] = a.socket
      BY <2>2, <2>3, <3>2
    <3> QED BY <1>12, <3>1, <3>2
  <2>4. ASSUME NEW j \in DOMAIN Fetched', NEW k \in DOMAIN Fetched',
               j < k, Fetched'[j] # 0, Fetched'[k] # 0
        PROVE  Fetched'[j] # Fetched'[k] /\ (listens <= 1 => Fetched'[j] < Fetched'[k])
    <3>1. CASE k \in DOMAIN Fetched /\ Fetched'[k] = Fetched[k]
      <4>1. j \in DOMAIN Fetched /\ Fetched'[j] = Fetched[j]
        BY <1>12, <2>4, <3>1
      <4> QED BY <1>0, <2>4, <3>1, <4>1 DEF Distinct
    <3>2. CASE Queues(a) /\ k = n + 1 /\ Fetched'[k] = a.socket
      <4>1. j \in DOMAIN Fetched /\ Fetched'[j] = Fetched[j]
        BY <1>12, <2>4, <3>2
      <4>2. a.err = "ok"
        BY <1>10, <2>4, <3>2
      <4> QED BY <1>9, <3>2, <4>1, <4>2
    <3> QED BY <1>12, <3>1, <3>2
  <2>5. accepts' = rest /\ peers' = peers /\ listens' = listens
    BY <1>1
  <2>6. \A j \in DOMAIN accepts' : accepts'[j].err # "ok" => accepts'[j].socket = 0
    BY <2>1, <2>5
  <2>7. ASSUME NEW j \in DOMAIN accepts', accepts'[j].err = "ok"
        PROVE  /\ accepts'[j].socket \in 1..peers'
               /\ \A k \in DOMAIN Fetched' : Fetched'[k] # accepts'[j].socket
               /\ \A k \in DOMAIN accepts' : j # k => accepts'[j].socket # accepts'[k].socket
               /\ listens' <= 1 => \A k \in DOMAIN Fetched' : Fetched'[k] < accepts'[j].socket
    BY <2>1, <2>3, <2>5, <2>7
  <2> QED BY <2>4, <2>5, <2>6, <2>7 DEF Distinct
<1>14. Youngest'
  <2>1. ASSUME NEW k \in DOMAIN backlog
        PROVE  /\ \A j \in DOMAIN rest : rest[j].socket < backlog[k]
               /\ \A j \in DOMAIN Fetched' : Fetched'[j] < backlog[k]
    <3>1. /\ \A j \in DOMAIN accepts : accepts[j].socket < backlog[k]
          /\ \A j \in DOMAIN Fetched : Fetched[j] < backlog[k]
      BY <1>0 DEF Youngest
    <3>2. \A j \in DOMAIN rest : rest[j].socket < backlog[k]
      BY <1>5, <3>1
    <3>3. a.socket < backlog[k]
      BY <1>4, <3>1 DEF a
    <3> QED BY <1>12, <3>1, <3>2, <3>3
  <2>2. a.socket <= peers
    <3>1. CASE a.err = "ok"
      BY <1>2, <1>9, <3>1
    <3>2. CASE a.err # "ok"
      BY <1>2, <1>10, <3>2
    <3> QED BY <3>1, <3>2
  <2>3. \A j \in DOMAIN Fetched' : Fetched'[j] <= peers
    <3>1. \A j \in DOMAIN Fetched : Fetched[j] <= peers
      BY <1>0 DEF Youngest
    <3> QED BY <1>12, <2>2, <3>1
  <2>4. accepts' = rest /\ peers' = peers /\ backlog' = backlog
    BY <1>1
  <2>5. \A k \in DOMAIN backlog : /\ backlog[k] \in 1..peers
                                  /\ \A l \in DOMAIN backlog : k < l => backlog[k] < backlog[l]
    BY <1>0 DEF Youngest
  <2> QED BY <2>1, <2>3, <2>4, <2>5 DEF Youngest
<1>15. DeadCounted'
  <2> DEFINE aborted == Cardinality(Aborted(accepts))
             now == Cardinality(Aborted(rest))
             dead == Cardinality(Dead(Fetched))
  <2>1. aborted = now + (IF a.err = "aborted" THEN 1 ELSE 0)
    BY <1>2, AbortedRemove DEF a, rest
  <2>2. aborted \in Nat /\ now \in Nat /\ dead \in Nat
    BY <1>2, <1>3, <1>6, CountsFinite
  <2>3. dead + aborted <= aborts
    BY <1>0 DEF DeadCounted
  <2>4. Cardinality(Dead(Fetched')) = dead + (IF a.err = "aborted" THEN 1 ELSE 0)
    <3>1. CASE Queues(a)
      <4>1. Cardinality(Dead(Append(Fetched, a.socket))) = dead + (IF a.socket = 0 THEN 1 ELSE 0)
        BY <1>4, <1>6, DeadAppend
      <4>2. a.socket = 0 <=> a.err = "aborted"
        BY <1>9, <1>10, <1>11, <3>1
      <4>3. Fetched' = Append(Fetched, a.socket)
        BY <1>6, <3>1
      <4> QED BY <4>1, <4>2, <4>3
    <3>2. CASE ~Queues(a)
      <4>1. Fetched' = Fetched /\ a.err # "aborted"
        BY <1>6, <1>11, <3>2
      <4> QED BY <2>2, <4>1
    <3> QED BY <3>1, <3>2
  <2>5. /\ Dead(Fetched)' = Dead(Fetched') /\ Aborted(accepts)' = Aborted(rest)
        /\ aborts' = aborts
    BY <1>1 DEF Dead, Aborted
  <2> HIDE DEF aborted, now, dead
  <2>6. (dead + (IF a.err = "aborted" THEN 1 ELSE 0)) + now <= aborts
    BY <1>2, <2>1, <2>2, <2>3
  <2> QED BY <2>4, <2>5, <2>6 DEF DeadCounted, now
<1> QED BY <1>7, <1>8, <1>13, <1>14, <1>15 DEF ListenerInv

\* A peer's connection is the youngest.
LEMMA PeerConnectsInv == ASSUME ListenerInv, PeerConnects PROVE ListenerInv'
<1> DEFINE last == Len(backlog) + 1
<1>0. ListenerTypes /\ AcceptsOn /\ Distinct /\ Youngest /\ DeadCounted
  BY DEF ListenerInv
<1>1. /\ peers' = peers + 1 /\ backlog' = Append(backlog, peers + 1)
      /\ UNCHANGED <<acceptOps, listening, newConnections, accepts, fetched, listens, aborts,
                     failed>>
  BY DEF PeerConnects
<1>2. /\ backlog \in Seq(Nat) /\ peers \in Nat /\ peers + 1 \in Nat /\ Fetched' = Fetched
      /\ accepts \in Seq(Accepts) /\ Fetched \in Seq(Nat)
  BY <1>0, <1>1 DEF ListenerTypes, Fetched
<1>3. /\ backlog' \in Seq(Nat) /\ DOMAIN backlog = 1..Len(backlog) /\ DOMAIN backlog' = 1..last
      /\ backlog'[last] = peers + 1 /\ Len(backlog) \in Nat
      /\ \A k \in 1..Len(backlog) : backlog'[k] = backlog[k]
  BY <1>1, <1>2
<1>4. ListenerTypes' /\ AcceptsOn'
  BY <1>0, <1>1, <1>2, <1>3 DEF ListenerTypes, AcceptsOn
<1>5. \A i \in DOMAIN accepts : accepts[i].socket \in Nat /\ accepts[i].socket <= peers
  <2> SUFFICES ASSUME NEW i \in DOMAIN accepts
               PROVE  accepts[i].socket \in Nat /\ accepts[i].socket <= peers
    OBVIOUS
  <2>1. CASE accepts[i].err = "ok"
    BY <1>0, <1>2, <2>1 DEF Distinct
  <2>2. CASE accepts[i].err # "ok"
    BY <1>0, <1>2, <2>2 DEF Distinct
  <2> QED BY <2>1, <2>2
<1>6. \A j \in DOMAIN Fetched : Fetched[j] \in Nat /\ Fetched[j] <= peers
  BY <1>0, <1>2 DEF Youngest
<1>7. Distinct'
  <2>1. ASSUME NEW i \in DOMAIN accepts, accepts[i].err = "ok" PROVE accepts[i].socket \in 1..peers'
    BY <1>0, <1>1, <1>2, <2>1 DEF Distinct
  <2>2. accepts' = accepts /\ listens' = listens
    BY <1>1
  <2> QED BY <1>0, <1>2, <2>1, <2>2 DEF Distinct
<1>8. Youngest'
  <2>1. ASSUME NEW k \in DOMAIN backlog
        PROVE  /\ backlog[k] \in 1..peers /\ backlog[k] <= peers /\ backlog[k] \in 1..peers + 1
               /\ \A l \in DOMAIN backlog : k < l => backlog[k] < backlog[l]
               /\ \A i \in DOMAIN accepts : accepts[i].socket < backlog[k]
               /\ \A j \in DOMAIN Fetched : Fetched[j] < backlog[k]
    <3>1. backlog[k] \in 1..peers
      BY <1>0 DEF Youngest
    <3>2. backlog[k] <= peers /\ backlog[k] \in 1..peers + 1
      BY <1>2, <3>1
    <3> QED BY <1>0, <3>1, <3>2 DEF Youngest
  <2>2. ASSUME NEW k \in DOMAIN backlog'
        PROVE  /\ backlog'[k] \in 1..peers'
               /\ \A l \in DOMAIN backlog' : k < l => backlog'[k] < backlog'[l]
               /\ \A i \in DOMAIN accepts : accepts[i].socket < backlog'[k]
               /\ \A j \in DOMAIN Fetched : Fetched[j] < backlog'[k]
    <3>1. CASE k = last
      <4>1. backlog'[k] = peers + 1 /\ \A l \in DOMAIN backlog' : ~(k < l)
        BY <1>3, <3>1
      <4> QED BY <1>1, <1>2, <1>5, <1>6, <4>1
    <3>2. CASE k # last
      <4>1. k \in DOMAIN backlog /\ backlog'[k] = backlog[k]
        BY <1>3, <3>2
      <4>2. ASSUME NEW l \in DOMAIN backlog', k < l PROVE backlog[k] < backlog'[l]
        <5>1. CASE l = last
          BY <1>2, <1>3, <2>1, <4>1, <5>1
        <5>2. CASE l # last
          <6>1. l \in DOMAIN backlog /\ backlog'[l] = backlog[l]
            BY <1>3, <5>2
          <6> QED BY <2>1, <4>1, <4>2, <6>1
        <5> QED BY <5>1, <5>2
      <4> QED BY <1>1, <2>1, <4>1, <4>2
    <3> QED BY <3>1, <3>2
  <2>3. \A j \in DOMAIN Fetched : Fetched[j] <= peers'
    BY <1>1, <1>2, <1>6
  <2>4. accepts' = accepts
    BY <1>1
  <2> QED BY <1>2, <2>2, <2>3, <2>4 DEF Youngest
<1>9. DeadCounted'
  BY <1>0, <1>1, <1>2 DEF DeadCounted, Dead, Aborted
<1> QED BY <1>4, <1>7, <1>8, <1>9 DEF ListenerInv

\* An accept completes; b is the backlog it leaves, without connections it had not.
LEMMA AcceptCompletes ==
  ASSUME ListenerInv, acceptOps > 0, NEW a \in Accepts, NEW b \in Seq(Nat),
         a.err # "aborted", acceptOps' = acceptOps - 1, accepts' = Append(accepts, a),
         backlog' = b, UNCHANGED <<listening, newConnections, peers, fetched, listens, aborts, failed>>,
         a.err # "ok" => a.socket = 0,
         a.err = "ok" => backlog # <<>> /\ a.socket = Head(backlog),
         b = backlog \/ (backlog # <<>> /\ b = Tail(backlog)),
         a.err = "ok" => b = Tail(backlog)
  PROVE  ListenerInv'
<1> DEFINE n == Len(accepts) + 1
<1>0. ListenerTypes /\ AcceptsOn /\ Distinct /\ Youngest /\ DeadCounted
  BY DEF ListenerInv
<1>1. /\ backlog \in Seq(Nat) /\ accepts \in Seq(Accepts) /\ acceptOps \in Nat /\ listens \in Nat
      /\ Fetched' = Fetched /\ peers \in Nat
  BY <1>0 DEF ListenerTypes, Fetched
<1>2. /\ accepts' \in Seq(Accepts) /\ Len(accepts') = n /\ DOMAIN accepts' = 1..n
      /\ DOMAIN accepts = 1..Len(accepts) /\ Len(accepts) \in Nat /\ accepts'[n] = a
      /\ \A i \in 1..Len(accepts) : accepts'[i] = accepts[i]
  BY <1>1
<1>3. \A i \in DOMAIN accepts' : \/ i \in DOMAIN accepts /\ accepts'[i] = accepts[i] /\ i # n
                                 \/ i = n /\ accepts'[i] = a
  BY <1>2
<1>4. ListenerTypes'
  <2>1. acceptOps' \in Nat
    BY <1>1
  <2> QED BY <1>0, <1>2, <2>1 DEF ListenerTypes
<1>5. AcceptsOn'
  <2>1. acceptOps' + Len(accepts') = acceptOps + Len(accepts)
    BY <1>1, <1>2
  <2> QED BY <1>0, <2>1 DEF AcceptsOn
<1>6. \A k \in DOMAIN b : \E l \in DOMAIN backlog :
        /\ b[k] = backlog[l] /\ (b # backlog => l = k + 1) /\ (b = backlog => l = k)
        /\ (a.err = "ok" => l = k + 1)
  <2>1. CASE b = backlog /\ a.err # "ok"
    BY <2>1
  <2>2. CASE b = Tail(backlog) /\ backlog # <<>>
    <3>1. /\ DOMAIN b = 1..Len(backlog) - 1 /\ DOMAIN backlog = 1..Len(backlog)
          /\ \A k \in 1..Len(backlog) - 1 : b[k] = backlog[k + 1]
          /\ Len(backlog) \in Nat \ {0}
      BY <1>1, <2>2
    <3>2. b # backlog
      <4>1. Len(b) = Len(backlog) - 1 /\ Len(backlog) \in Nat
        BY <1>1, <2>2
      <4> QED BY <4>1
    <3>3. \A k \in 1..Len(backlog) - 1 : k + 1 \in 1..Len(backlog)
      BY <3>1
    <3> QED BY <3>1, <3>2, <3>3
  <2> QED BY <2>1, <2>2
<1>7. /\ \A k \in DOMAIN b : /\ b[k] \in 1..peers
                             /\ \A i \in DOMAIN accepts : accepts[i].socket < b[k]
                             /\ \A j \in DOMAIN Fetched : Fetched[j] < b[k]
                             /\ a.err = "ok" => a.socket < b[k]
      /\ \A k, l \in DOMAIN b : k < l => b[k] < b[l]
  <2>1. ASSUME NEW k \in DOMAIN b
        PROVE  /\ b[k] \in 1..peers
               /\ \A i \in DOMAIN accepts : accepts[i].socket < b[k]
               /\ \A j \in DOMAIN Fetched : Fetched[j] < b[k]
               /\ a.err = "ok" => a.socket < b[k]
    <3>1. PICK l \in DOMAIN backlog : b[k] = backlog[l] /\ (a.err = "ok" => l = k + 1)
      BY <1>6
    <3>2. ASSUME a.err = "ok" PROVE a.socket < b[k]
      <4>1. 1 \in DOMAIN backlog /\ backlog[1] = a.socket
        BY <1>1, <3>2
      <4>2. 1 < l
        <5>1. k \in 1..Len(b) /\ Len(b) \in Nat
          OBVIOUS
        <5> QED BY <3>1, <3>2, <5>1
      <4> QED BY <1>0, <3>1, <4>1, <4>2 DEF Youngest
    <3> QED BY <1>0, <3>1, <3>2 DEF Youngest
  <2>2. ASSUME NEW k \in DOMAIN b, NEW l \in DOMAIN b, k < l PROVE b[k] < b[l]
    <3>1. PICK m \in DOMAIN backlog : b[k] = backlog[m] /\ (b # backlog => m = k + 1)
                                      /\ (b = backlog => m = k)
      BY <1>6
    <3>2. PICK o \in DOMAIN backlog : b[l] = backlog[o] /\ (b # backlog => o = l + 1)
                                      /\ (b = backlog => o = l)
      BY <1>6
    <3>3. m < o
      <4>1. k \in Int /\ l \in Int
        OBVIOUS
      <4> QED BY <2>2, <3>1, <3>2, <4>1
    <3> QED BY <1>0, <3>1, <3>2, <3>3 DEF Youngest
  <2> QED BY <2>1, <2>2
<1>8. a.err = "ok" =>
        /\ a.socket \in 1..peers
        /\ \A i \in DOMAIN accepts : accepts[i].socket < a.socket
        /\ \A j \in DOMAIN Fetched : Fetched[j] < a.socket
  <2> SUFFICES ASSUME a.err = "ok"
               PROVE  /\ a.socket \in 1..peers
                      /\ \A i \in DOMAIN accepts : accepts[i].socket < a.socket
                      /\ \A j \in DOMAIN Fetched : Fetched[j] < a.socket
    OBVIOUS
  <2>1. 1 \in DOMAIN backlog /\ backlog[1] = a.socket
    BY <1>1
  <2> QED BY <1>0, <2>1 DEF Youngest
<1>9. \A i \in DOMAIN accepts : accepts[i].socket \in Nat
  <2>1. \A i \in DOMAIN accepts : accepts[i] \in Accepts
    BY <1>1
  <2> QED BY <2>1 DEF Accepts
<1>10. Fetched \in Seq(Nat) /\ \A j \in DOMAIN Fetched : Fetched[j] \in Nat
  <2>1. Fetched \in Seq(Nat)
    BY <1>0 DEF ListenerTypes, Fetched
  <2> QED BY <2>1
<1> HIDE DEF n
<1>11. Distinct'
  <2>1. ASSUME NEW i \in DOMAIN accepts', accepts'[i].err # "ok" PROVE accepts'[i].socket = 0
    BY <1>0, <1>3, <2>1 DEF Distinct
  <2>2. ASSUME NEW i \in DOMAIN accepts', accepts'[i].err = "ok"
        PROVE  /\ accepts'[i].socket \in 1..peers
               /\ \A j \in DOMAIN Fetched : Fetched[j] # accepts'[i].socket
               /\ \A j \in DOMAIN accepts' : i # j => accepts'[i].socket # accepts'[j].socket
               /\ listens <= 1 => \A j \in DOMAIN Fetched : Fetched[j] < accepts'[i].socket
    <3>1. CASE i = n /\ accepts'[i] = a
      <4>1. \A j \in DOMAIN accepts' : i # j => accepts'[j].socket < a.socket /\ accepts'[j].socket \in Nat
        BY <1>3, <1>8, <1>9, <2>2, <3>1
      <4>2. a.socket \in Nat
        BY DEF Accepts
      <4>3. \A j \in DOMAIN accepts' : i # j => a.socket # accepts'[j].socket
        BY <4>1, <4>2
      <4>4. \A j \in DOMAIN Fetched : Fetched[j] # a.socket /\ Fetched[j] < a.socket
        BY <1>8, <1>10, <2>2, <3>1, <4>2
      <4> QED BY <1>8, <2>2, <3>1, <4>3, <4>4
    <3>2. CASE i \in DOMAIN accepts /\ accepts'[i] = accepts[i] /\ i # n
      <4>1. accepts[i].socket \in 1..peers /\ accepts[i].socket \in Nat /\ accepts[i].socket # 0
        BY <1>0, <1>1, <2>2, <3>2 DEF Distinct
      <4>2. a.socket # accepts[i].socket
        <5>1. a.socket \in Nat
          BY DEF Accepts
        <5>2. CASE a.err = "ok"
          BY <1>8, <3>2, <4>1, <5>1, <5>2
        <5>3. CASE a.err # "ok"
          BY <4>1, <5>3
        <5> QED BY <5>2, <5>3
      <4>3. \A j \in DOMAIN accepts' : i # j => accepts[i].socket # accepts'[j].socket
        BY <1>0, <1>3, <2>2, <3>2, <4>2 DEF Distinct
      <4> QED BY <1>0, <2>2, <3>2, <4>1, <4>3 DEF Distinct
    <3> QED BY <1>3, <3>1, <3>2
  <2>3. peers' = peers /\ listens' = listens /\ Fetched' = Fetched
    BY <1>1
  <2>4. \A i, j \in DOMAIN Fetched :
          i < j /\ Fetched[i] # 0 /\ Fetched[j] # 0
          => Fetched[i] # Fetched[j] /\ (listens <= 1 => Fetched[i] < Fetched[j])
    BY <1>0 DEF Distinct
  <2> QED BY <2>1, <2>2, <2>3, <2>4 DEF Distinct
<1>12. Youngest'
  <2>1. ASSUME NEW k \in DOMAIN b, NEW i \in DOMAIN accepts' PROVE accepts'[i].socket < b[k]
    <3>1. a.socket < b[k]
      <4>1. b[k] \in 1..peers
        BY <1>7
      <4>2. a.socket = 0 \/ a.socket < b[k]
        BY <1>1, <1>7
      <4> QED BY <4>1, <4>2
    <3> QED BY <1>3, <1>7, <3>1
  <2>2. peers' = peers
    OBVIOUS
  <2> QED BY <1>0, <1>1, <1>7, <2>1, <2>2 DEF Youngest
<1>13. DeadCounted'
  <2>1. Aborted(accepts') = Aborted(accepts)
    BY <1>1, AbortedAppend
  <2>2. Aborted(accepts)' = Aborted(accepts') /\ Dead(Fetched)' = Dead(Fetched) /\ aborts' = aborts
    BY <1>1 DEF Aborted, Dead
  <2> QED BY <1>0, <2>1, <2>2 DEF DeadCounted
<1> QED BY <1>4, <1>5, <1>11, <1>12, <1>13 DEF ListenerInv

\* The kernel accepts the oldest connection of the backlog.
LEMMA KernelAcceptsInv == ASSUME ListenerInv, KernelAccepts PROVE ListenerInv'
<1> DEFINE a == Accept("ok", Head(backlog))
           b == Tail(backlog)
<1>1. /\ acceptOps > 0 /\ acceptOps' = acceptOps - 1 /\ backlog # <<>> /\ backlog' = b
      /\ accepts' = Append(accepts, a)
      /\ UNCHANGED <<listening, newConnections, peers, fetched, listens, aborts, failed>>
  BY DEF KernelAccepts, listenerHistory
<1>2. backlog \in Seq(Nat)
  BY DEF ListenerInv, ListenerTypes
<1>3. b \in Seq(Nat) /\ Head(backlog) \in Nat
  BY <1>1, <1>2
<1>4. a \in Accepts /\ a.err = "ok" /\ a.socket = Head(backlog)
  BY <1>3 DEF Accept, Accepts
<1>5. /\ a.err # "ok" => a.socket = 0
      /\ a.err = "ok" => backlog # <<>> /\ a.socket = Head(backlog)
      /\ b = backlog \/ (backlog # <<>> /\ b = Tail(backlog))
      /\ a.err = "ok" => b = Tail(backlog)
  BY <1>1, <1>4
<1>6. a.err # "aborted"
  BY <1>4
<1> HIDE DEF a, b
<1> QED BY <1>1, <1>3, <1>4, <1>5, <1>6, AcceptCompletes

\* An accept fails; if the peer is gone its connection is, too.
LEMMA KernelAcceptFailsInv ==
  ASSUME ListenerInv, NEW err \in {"reset", "other"}, KernelAcceptFails(err)
  PROVE  ListenerInv'
<1> DEFINE a == Accept(err, 0)
           b == IF err = "reset" THEN Tail(backlog) ELSE backlog
<1>1. /\ acceptOps > 0 /\ acceptOps' = acceptOps - 1 /\ backlog # <<>> /\ backlog' = b
      /\ accepts' = Append(accepts, a)
      /\ UNCHANGED <<listening, newConnections, peers, fetched, listens, aborts, failed>>
  <2>1. CASE err = "reset"
    BY <2>1 DEF KernelAcceptFails
  <2>2. CASE err # "reset"
    BY <2>2 DEF KernelAcceptFails
  <2> QED BY <2>1, <2>2
<1>2. backlog \in Seq(Nat)
  BY DEF ListenerInv, ListenerTypes
<1>3. b \in Seq(Nat)
  BY <1>1, <1>2
<1>4. a \in Accepts /\ a.err # "ok" /\ a.socket = 0 /\ a.err # "aborted"
  BY DEF Accept, Accepts
<1>5. b = backlog \/ (backlog # <<>> /\ b = Tail(backlog))
  BY <1>1
<1> HIDE DEF a, b
<1> QED BY <1>1, <1>3, <1>4, <1>5, AcceptCompletes

-----------------------------------------------------------------------------
(* The theorems.                                                           *)

ResourceInv == UdpInv /\ ListenerInv

\* A socket that was only constructed.
LEMMA InitResource == Init => ResourceInv
<1> SUFFICES ASSUME Init PROVE UdpInv /\ ListenerInv
  BY DEF ResourceInv
<1>1. UdpInv
  <2>1. /\ sock = "closed" /\ inbox = <<>> /\ recvOp = FALSE
        /\ buffer = [e \in Senders |-> <<>>] /\ pending = 0 /\ receiving = FALSE
        /\ ready = <<>>
        /\ sent = [e \in Senders |-> 0] /\ delivered = [e \in Senders |-> <<>>]
        /\ cleared = FALSE /\ ended = FALSE /\ dropped = {}
    BY DEF Init, UdpInit
  <2>2. UdpTypes
    <3>1. recvOp \in BOOLEAN /\ receiving \in BOOLEAN /\ cleared \in BOOLEAN /\ ended \in BOOLEAN
      BY Zenon, <2>1
    <3> QED BY <2>1, <3>1 DEF UdpTypes
  <2>3. OneReceive
    BY <2>1 DEF OneReceive
  <2>4. Counted
    <3>1. Places(buffer) = {}
      <4>1. \A e \in Senders : DOMAIN buffer[e] = {}
        BY <2>1
      <4>2. ASSUME NEW p \in Places(buffer) PROVE FALSE
        BY <4>1, <4>2, PlacesAre
      <4> QED BY <4>2
    <3>2. IsFiniteSet(Places(buffer)) /\ Buffered = 0
      BY <3>1, FS_EmptySet DEF Buffered
    <3> QED BY <2>1, <3>2, UdpAssumption DEF Counted
  <2>5. InOrder
    <3>1. Waiting = <<>>
      BY <2>1 DEF Waiting, Received
    <3>2. ASSUME NEW e \in Senders PROVE Got(e) = <<>> /\ sent[e] = 0
      BY <2>1 DEF Got
    <3>3. ASSUME NEW e \in Senders PROVE Ordered(<<>>, <<>>, 0, e) /\ Complete(<<>>, <<>>, 0, e)
      BY DEF Ordered, Complete, Increasing
    <3> QED BY <3>1, <3>2, <3>3 DEF InOrder
  <2> QED BY <2>2, <2>3, <2>4, <2>5 DEF UdpInv
<1>2. ListenerInv
  <2>1. /\ backlog = <<>> /\ acceptOps = 0
        /\ listening = FALSE /\ newConnections = <<>> /\ accepts = <<>>
        /\ peers = 0 /\ fetched = <<>> /\ listens = 0 /\ aborts = 0 /\ failed = 0
    BY DEF Init, ListenerInit
  <2>2. Fetched = <<>>
    BY <2>1 DEF Fetched
  <2>3. ListenerTypes
    <3>1. listening \in BOOLEAN
      BY Zenon, <2>1
    <3> QED BY <2>1, <3>1 DEF ListenerTypes
  <2>4. AcceptsOn
    BY <2>1 DEF AcceptsOn
  <2>5. Distinct /\ Youngest
    BY <2>1, <2>2 DEF Distinct, Youngest
  <2>6. DeadCounted
    <3>1. Dead(Fetched) = {} /\ Aborted(accepts) = {}
      BY <2>1, <2>2 DEF Dead, Aborted
    <3> QED BY <2>1, <3>1, FS_EmptySet DEF DeadCounted
  <2> QED BY <2>3, <2>4, <2>5, <2>6 DEF ListenerInv
<1> QED BY <1>1, <1>2

\* No step of the io threads, the application or the system breaks either.
LEMMA NextResource == ResourceInv /\ [Next]_vars => ResourceInv'
<1> SUFFICES ASSUME ResourceInv, [Next]_vars PROVE UdpInv' /\ ListenerInv'
  BY DEF ResourceInv
<1>1. UdpInv /\ ListenerInv
  BY DEF ResourceInv
<1>2. CASE UNCHANGED <<udpVars, listenerVars>>
  BY <1>1, <1>2, IdleUdp, IdleListener
<1>3. ASSUME OnlyUdp, ReceiveHandler \/ UdpCalls \/ UdpKernel PROVE UdpInv' /\ ListenerInv'
  <2>1. UNCHANGED listenerVars
    BY <1>3 DEF OnlyUdp
  <2>2. ListenerInv'
    BY <1>1, <2>1, IdleListener
  <2>3. UdpInv'
    <3>1. CASE ReceiveHandler
      BY <1>1, <3>1, UdpReceiveHandlerInv
    <3>2. CASE UdpCalls
      BY <1>1, <3>2, BindInv, BindFailsInv, SendToInv, UdpCloseInv, UdpClearBuffersInv, ReceiveFromInv
         DEF UdpCalls
    <3>3. CASE UdpKernel
      BY <1>1, <3>3, UdpKernelReceivesInv, KernelReceiveFailsInv, ArriveInv DEF UdpKernel
    <3> QED BY <1>3, <3>1, <3>2, <3>3
  <2> QED BY <2>2, <2>3
<1>4. ASSUME OnlyListener,
             \/ \E i \in 1..threads : i <= Len(accepts) /\ AcceptHandler(i)
             \/ ListenerCalls \/ ListenerKernel
      PROVE  UdpInv' /\ ListenerInv'
  <2>1. UNCHANGED udpVars
    BY <1>4 DEF OnlyListener
  <2>2. UdpInv'
    BY <1>1, <2>1, IdleUdp
  <2>3. ListenerInv'
    <3>1. ASSUME NEW i \in 1..threads, i <= Len(accepts), AcceptHandler(i) PROVE ListenerInv'
      <4>1. accepts \in Seq(Accepts)
        BY <1>1 DEF ListenerInv, ListenerTypes
      <4>2. i \in 1..Len(accepts)
        BY <3>1, <4>1
      <4> QED BY <1>1, <3>1, <4>2, AcceptHandlerInv
    <3>2. CASE ListenerCalls
      BY <1>1, <3>2, ListenInv, ListenFailsInv, ListenerCloseInv, GetPendingConnectionInv
         DEF ListenerCalls
    <3>3. CASE ListenerKernel
      BY <1>1, <3>3, PeerConnectsInv, KernelAcceptsInv, KernelAcceptFailsInv DEF ListenerKernel
    <3> QED BY <1>4, <3>1, <3>2, <3>3
  <2> QED BY <2>2, <2>3
<1>5. CASE Start \/ Stop \/ ThreadReturns \/ StopReturns
  BY <1>2, <1>5 DEF Start, Stop, ThreadReturns, StopReturns
<1>6. CASE RunHandler
  BY <1>3, <1>4, <1>6 DEF RunHandler
<1>7. CASE Call
  BY <1>3, <1>4, <1>7 DEF Call
<1>8. CASE System
  BY <1>3, <1>4, <1>8 DEF System
<1>9. CASE UNCHANGED vars
  BY <1>2, <1>9 DEF vars
<1> QED BY <1>5, <1>6, <1>7, <1>8, <1>9 DEF Next

\* The conjunction of both objects' invariants is inductive: whatever the
\* io threads, the application and the system do, in any order.
THEOREM ResourceInvariance == Spec => []ResourceInv
<1>1. Init => ResourceInv
  BY InitResource
<1>2. ResourceInv /\ [Next]_vars => ResourceInv'
  BY NextResource
<1> QED BY <1>1, <1>2, PTL DEF Spec

\* ReceiveFrom() returns a sender's bytes in their order, none twice and, unless
\* Close() or ClearBuffers() threw away some of this sender's, none missing, over
\* errors and any Close() and Bind(); and less than one datagram waits above the
\* limit of the receive buffer.
THEOREM UdpInOrder == Spec => []BytesInOrder
<1>1. ResourceInv => BytesInOrder
  <2> SUFFICES ASSUME ResourceInv PROVE BytesInOrder
    OBVIOUS
  <2>0. UdpTypes /\ Counted /\ InOrder
    BY DEF ResourceInv, UdpInv
  <2>1. ASSUME NEW e \in Senders
        PROVE  /\ Increasing(delivered[e] \o buffer[e])
               /\ e \notin dropped => delivered[e] \o buffer[e]
                                   = [i \in DOMAIN (delivered[e] \o buffer[e]) |-> i]
    <3> DEFINE got == delivered[e] \o buffer[e]
    <3>1. /\ Increasing(got)
          /\ e \notin dropped => \A i \in DOMAIN got : got[i] = i
      BY <2>0 DEF InOrder, Ordered, Complete, Got
    <3>2. got \in Seq(Nat)
      BY <2>0 DEF UdpTypes
    <3> HIDE DEF got
    <3>3. got = [i \in DOMAIN got |-> got[i]]
      BY <3>2
    <3>4. e \notin dropped => got = [i \in DOMAIN got |-> i]
      BY <3>1, <3>3
    <3> QED BY <3>1, <3>4 DEF got
  <2>2. Buffered < MaxBlockSize + MaxDatagram
    <3>1. Buffered \in Nat
      BY <2>0, FS_CardinalityType DEF Counted, Buffered
    <3> QED BY <2>0, <3>1, UdpAssumption DEF Counted, UdpTypes
  <2> QED BY <2>1, <2>2 DEF BytesInOrder
<1> QED BY <1>1, ResourceInvariance, PTL

\* A bound socket is receiving or its reader will resume it, over any Close()
\* and Bind(), for any block size and any size of the datagrams.
THEOREM UdpResumes == Spec => []UdpNeverStalls
<1>1. ResourceInv => UdpNeverStalls
  BY DEF ResourceInv, UdpInv, OneReceive, Counted, UdpNeverStalls
<1> QED BY <1>1, ResourceInvariance, PTL

\* Every accepted connection is fetched at most once, in order while Listen()
\* was called once, and dead sockets only for aborted accepts, although any
\* number of io threads runs the handlers in any order.
THEOREM ListenerFetchesOnce == Spec => []FetchedOnce
<1>1. ResourceInv => FetchedOnce
  <2> SUFFICES ASSUME ResourceInv PROVE FetchedOnce
    OBVIOUS
  <2>1. ListenerTypes /\ Distinct /\ DeadCounted
    BY DEF ResourceInv, ListenerInv
  <2>2. Cardinality(Dead(Fetched)) <= aborts
    <3>1. Fetched \in Seq(Nat) /\ accepts \in Seq(Accepts) /\ aborts \in Nat
      BY <2>1 DEF ListenerTypes, Fetched
    <3>2. Cardinality(Dead(Fetched)) \in Nat /\ Cardinality(Aborted(accepts)) \in Nat
      BY <3>1, CountsFinite
    <3> QED BY <2>1, <3>1, <3>2 DEF DeadCounted
  <2> QED BY <2>1, <2>2 DEF FetchedOnce, Distinct, Dead, Fetched
<1> QED BY <1>1, ResourceInvariance, PTL

\* A listening socket has an accept outstanding or completed unless one failed
\* for good, and never more chains of accepts than calls of Listen().
THEOREM ListenerAccepts == Spec => []AcceptsOn
<1>1. ResourceInv => AcceptsOn
  BY DEF ResourceInv, ListenerInv
<1> QED BY <1>1, ResourceInvariance, PTL
=============================================================================

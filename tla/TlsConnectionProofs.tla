-------------------------- MODULE TlsConnectionProofs --------------------------
(***************************************************************************)
(* Two TlsConnections hand each other's data on in order, once and         *)
(* whole, whatever the limits, and a server that is not trusted gets none. *)
(* The invariant says where in the handshake each side can be, what can be *)
(* under way to a side that has not finished it, and that a listening      *)
(* side's received blocks, those under way to it and those queued for it   *)
(* are what the other side accepted.  The states that a side passes        *)
(* through within a piece satisfy all of it but what the end of the piece  *)
(* settles: Exchange, of which Inv is the rest.                            *)
(***************************************************************************)
EXTENDS TlsConnection, SequenceTheorems, WellFoundedInduction, TLAPS

Endpoints == {"idle", "hello", "keys", "active", "closed", "failed", "reset"}
RecordKinds == {"hello", "keys", "data", "close", "garbage"}

\* Only data carries blocks.
Record ==
  {r \in [kind : RecordKinds, blocks : Seq(Nat)] :
     r.kind # "data" => r.blocks = <<>>}

Connection ==
  [endpoint : Endpoints, queued : Seq(Nat), received : Seq(Nat),
   asked : BOOLEAN, localClosed : BOOLEAN, out : Seq(Record), shut : BOOLEAN,
   accepted : Nat, closedAt : Nat, hole : BOOLEAN]

\* The blocks b are those after the first "from", up to "to".
Run(b, from, to) ==
  from <= to /\ Len(b) = to - from /\ \A i \in 1..Len(b) : b[i] = from + i

\* The records r carry the blocks after the first "from", up to "to": pos[k]
\* blocks come before record k.
Carries(r, pos) == \A k \in 1..Len(r) : Run(r[k].blocks, pos[k], pos[k + 1])

Carried(r, from, to) ==
  \E pos \in [1..Len(r) + 1 -> Nat] :
    Carries(r, pos) /\ pos[1] = from /\ pos[Len(r) + 1] = to

NoData(r) == \A k \in 1..Len(r) : r[k].kind # "data"

\* The states in which a side takes data or still will.
Listens(d) == d.endpoint \in {"idle", "hello", "keys", "active"}

\* What is accepted is received, under way or queued, while the channel of the
\* sender c is not closed; at its own closing nothing was queued.
Accounts(c, last) ==
  /\ ~c.hole /\ Listens(c) => Run(c.queued, last, c.accepted)
  /\ ~c.hole /\ c.endpoint = "closed" /\ c.localClosed => last = c.closedAt

Direction(c, d) ==
  Listens(d) =>
    \E last \in Nat : Carried(c.out, Len(d.received), last) /\ Accounts(c, last)

\* The client cl and the server sv before and during the handshake, with the
\* bytes pre that came before the certificate.
BeforeHello(cl, sv, pre) ==
  /\ cl.endpoint = "idle" =>
       /\ cl.out = <<>> /\ sv.out = <<>> /\ pre = <<>> /\ ~cl.hole
       /\ sv.endpoint \in {"idle", "hello", "reset"}
  /\ sv.endpoint \in {"idle", "hello"} =>
       /\ sv.out = <<>> /\ ~sv.hole
       /\ cl.endpoint \in {"idle", "hello", "reset"}
       /\ cl.out = <<>> \/ (cl.out = <<Plain("hello")>> /\ pre = <<>>)
  /\ pre # <<>> =>
       /\ pre = <<Plain("hello")>> /\ cl.out = <<>> /\ sv.out = <<>>
       /\ cl.endpoint \in {"hello", "reset"}
       /\ sv.endpoint \in {"hello", "reset"} /\ ~sv.localClosed

ClientHello(cl, sv) ==
  cl.endpoint = "hello" =>
    /\ sv.endpoint \notin {"active", "closed"}
    /\ sv.out \in {<<>>, <<Plain("hello")>>}
    /\ cl.out \in {<<>>, <<Plain("hello")>>}

ServerKeys(cl, sv) ==
  sv.endpoint = "keys" =>
    /\ cl.endpoint \notin {"idle", "active", "closed"}
    /\ sv.out \in {<<>>, <<Plain("hello")>>} /\ NoData(cl.out)
    /\ cl.endpoint = "keys" => sv.out = <<>>

ClientKeys(cl, sv) ==
  cl.endpoint = "keys" =>
    /\ NoData(cl.out)
    /\ NoData(sv.out) \/ sv.out[1].kind = "keys"
    /\ sv.endpoint \in {"active", "closed"} /\ ~sv.hole =>
         sv.out # <<>> /\ sv.out[1].kind = "keys"

Handshake(cl, sv, pre) ==
  BeforeHello(cl, sv, pre) /\ ClientHello(cl, sv) /\ ServerKeys(cl, sv) /\ ClientKeys(cl, sv)

\* What holds of one side alone.
Sound(c) ==
  /\ c \in Connection
  /\ Run(c.received, 0, Len(c.received))
  /\ c.localClosed => c.endpoint \in {"closed", "reset"}

\* What a mistrusted server gets.
Nothing(cl, sv, trusted) == ~trusted => NoData(cl.out) /\ sv.received = <<>>

Exchange(cl, sv, pre, trusted) ==
  /\ Sound(cl) /\ Sound(sv) /\ trusted \in BOOLEAN
  /\ Direction(cl, sv) /\ Direction(sv, cl)
  /\ Handshake(cl, sv, pre)
  /\ Nothing(cl, sv, trusted)

\* Exchange, seen from the side s with the state c.
Pair(s, c, d, pre, trusted) ==
  IF s = "client" THEN Exchange(c, d, pre, trusted) ELSE Exchange(d, c, pre, trusted)

\* At the end of a piece nothing is queued on an active channel, and the
\* client has looked at the certificate.
Settled(s, c, trusted) ==
  c.endpoint = "active" => c.queued = <<>> /\ (s = "client" => trusted)

Inv ==
  /\ conn \in [Sides -> Connection]
  /\ Exchange(conn["client"], conn["server"], preCert, verified)
  /\ \A s \in Sides : Settled(s, conn[s], verified)

-----------------------------------------------------------------------------
(* Runs of blocks, and records that carry them.                            *)

\* No blocks are a run that goes nowhere, and the only one.
LEMMA EmptyRun == ASSUME NEW from \in Nat, NEW to \in Nat
                  PROVE  Run(<<>>, from, to) <=> to = from
BY EmptySeq DEF Run

\* A run continued by another.
LEMMA RunOn ==
  ASSUME NEW a \in Seq(Nat), NEW b \in Seq(Nat),
         NEW x \in Nat, NEW y \in Nat, NEW z \in Nat, Run(a, x, y), Run(b, y, z)
  PROVE  Run(a \o b, x, z)
<1>1. /\ Len(a) = y - x /\ Len(b) = z - y /\ x <= y /\ y <= z
      /\ \A i \in 1..Len(a) : a[i] = x + i
      /\ \A i \in 1..Len(b) : b[i] = y + i
  BY DEF Run
<1>a. /\ a \o b \in Seq(Nat) /\ Len(a \o b) = Len(a) + Len(b)
      /\ \A i \in 1..Len(a) + Len(b) :
           (a \o b)[i] = IF i <= Len(a) THEN a[i] ELSE b[i - Len(a)]
  BY ConcatProperties
<1>2. Len(a \o b) = z - x
  BY <1>1, <1>a
<1>3. ASSUME NEW i \in 1..Len(a \o b) PROVE (a \o b)[i] = x + i
  <2>1. CASE i <= Len(a)  BY <2>1, <1>1, <1>2, <1>a
  <2>2. CASE i > Len(a)
    <3>1. i - Len(a) \in 1..Len(b)  BY <2>2, <1>1, <1>2
    <3>2. (a \o b)[i] = b[i - Len(a)]  BY <2>2, <1>1, <1>2, <1>a
    <3>3. QED  BY <3>1, <3>2, <1>1
  <2>3. QED  BY <2>1, <2>2, <1>2, <1>1
<1>4. QED  BY <1>1, <1>2, <1>3 DEF Run

\* One more block.
LEMMA RunAppend ==
  ASSUME NEW a \in Seq(Nat), NEW x \in Nat, NEW y \in Nat, Run(a, x, y)
  PROVE  Run(Append(a, y + 1), x, y + 1)
<1>1. Len(a) = y - x /\ x <= y /\ \A i \in 1..Len(a) : a[i] = x + i
  BY DEF Run
<1>2. Len(Append(a, y + 1)) = y + 1 - x
  BY <1>1, AppendProperties
<1>3. ASSUME NEW i \in 1..Len(Append(a, y + 1)) PROVE Append(a, y + 1)[i] = x + i
  <2>1. CASE i = Len(a) + 1
    <3>1. Append(a, y + 1)[Len(a) + 1] = y + 1  BY AppendProperties
    <3>2. Len(a) + 1 = y + 1 - x  BY <1>1
    <3>3. QED  BY <2>1, <3>1, <3>2
  <2>2. CASE i # Len(a) + 1
    <3>1. i \in 1..Len(a)  BY <2>2, <1>1, <1>2
    <3>2. QED  BY <3>1, <1>1, AppendProperties
  <2>3. QED  BY <2>1, <2>2
<1>4. QED  BY <1>1, <1>2, <1>3 DEF Run

LEMMA RecordBlocks == ASSUME NEW r \in Record
                      PROVE  r.blocks \in Seq(Nat) /\ (r.kind # "data" => r.blocks = <<>>)
BY DEF Record

\* No records carry nothing.
LEMMA CarriedNone == ASSUME NEW n \in Nat PROVE Carried(<<>>, n, n)
<1> DEFINE pos == [k \in 1..1 |-> n]
<1>1. Len(<<>>) = 0  OBVIOUS
<1>2. pos \in [1..Len(<<>>) + 1 -> Nat] /\ pos[1] = n /\ pos[Len(<<>>) + 1] = n
  BY <1>1
<1>3. Carries(<<>>, pos)  BY <1>1 DEF Carries
<1>4. QED  BY <1>2, <1>3 DEF Carried

\* One more record.
LEMMA CarriedAppend ==
  ASSUME NEW r \in Seq(Record), NEW e \in Record, NEW x \in Nat, NEW y \in Nat,
         NEW z \in Nat, Carried(r, x, y), Run(e.blocks, y, z)
  PROVE  Carried(Append(r, e), x, z)
<1>1. PICK pos \in [1..Len(r) + 1 -> Nat] :
             Carries(r, pos) /\ pos[1] = x /\ pos[Len(r) + 1] = y
  BY DEF Carried
<1> DEFINE n == Len(r) + 1
           new == [k \in 1..n + 1 |-> IF k = n + 1 THEN z ELSE pos[k]]
<1>2. n \in Nat /\ n >= 1 /\ Len(Append(r, e)) = n
  BY AppendProperties, LenProperties
<1> HIDE DEF n
<1>3. \A k \in 1..n : pos[k] \in Nat  BY <1>1, <1>2 DEF n
<1>4. new \in [1..n + 1 -> Nat] /\ new[1] = x /\ new[n + 1] = z
  BY <1>1, <1>2, <1>3
<1>5. \A k \in 1..n : new[k] = pos[k]  BY <1>2
<1>6. new[n + 1] = z  BY <1>2
<1> HIDE DEF new
<1>7. ASSUME NEW k \in 1..n PROVE Run(Append(r, e)[k].blocks, new[k], new[k + 1])
  <2>1. CASE k = n
    <3>1. Append(r, e)[k] = e  BY <2>1, AppendProperties DEF n
    <3>2. new[k] = y /\ new[k + 1] = z  BY <2>1, <1>1, <1>5, <1>6, <1>2 DEF n
    <3>3. QED  BY <3>1, <3>2
  <2>2. CASE k # n
    <3>1. k \in 1..Len(r) /\ k + 1 \in 1..n  BY <2>2, <1>2 DEF n
    <3>2. Append(r, e)[k] = r[k]  BY <3>1, AppendProperties
    <3>3. new[k] = pos[k] /\ new[k + 1] = pos[k + 1]  BY <3>1, <1>5
    <3>4. Run(r[k].blocks, pos[k], pos[k + 1])  BY <1>1, <3>1 DEF Carries
    <3>5. QED  BY <3>2, <3>3, <3>4
  <2>3. QED  BY <2>1, <2>2
<1>8. Carries(Append(r, e), new)  BY <1>2, <1>7 DEF Carries
<1>9. QED  BY <1>2, <1>4, <1>8 DEF Carried

\* The first record is taken.
LEMMA CarriedTail ==
  ASSUME NEW r \in Seq(Record), r # <<>>, NEW x \in Nat, NEW z \in Nat,
         Carried(r, x, z)
  PROVE  \E y \in Nat : Run(r[1].blocks, x, y) /\ Carried(Tail(r), y, z)
<1>1. PICK pos \in [1..Len(r) + 1 -> Nat] :
             Carries(r, pos) /\ pos[1] = x /\ pos[Len(r) + 1] = z
  BY DEF Carried
<1> DEFINE n == Len(r)
           new == [k \in 1..n |-> pos[k + 1]]
<1>2. n \in Nat /\ n >= 1 /\ Len(Tail(r)) = n - 1 /\ n - 1 \in Nat
      /\ \A k \in 1..n - 1 : Tail(r)[k] = r[k + 1]
  BY EmptySeq, HeadTailProperties
<1>3. \A k \in 1..n + 1 : pos[k] \in Nat  BY <1>1
<1>4. \A k \in 1..n : Run(r[k].blocks, pos[k], pos[k + 1])  BY <1>1 DEF Carries
<1>5. pos[1] = x /\ pos[n + 1] = z  BY <1>1
<1> HIDE DEF n
<1>6. new \in [1..n -> Nat] /\ new[1] = pos[2] /\ new[n] = z /\ pos[2] \in Nat
  BY <1>2, <1>3, <1>5
<1>7. \A k \in 1..n : new[k] = pos[k + 1]  OBVIOUS
<1> HIDE DEF new
<1>8. ASSUME NEW k \in 1..n - 1 PROVE Run(Tail(r)[k].blocks, new[k], new[k + 1])
  <2>1. k \in 1..n /\ k + 1 \in 1..n  BY <1>2
  <2>2. QED  BY <2>1, <1>2, <1>4, <1>7
<1>9. Carries(Tail(r), new)  BY <1>2, <1>8 DEF Carries
<1>10. Carried(Tail(r), pos[2], z)
  <2>1. Len(Tail(r)) + 1 = n  BY <1>2
  <2>2. QED  BY <1>6, <1>9, <2>1 DEF Carried
<1>11. Run(r[1].blocks, x, pos[2])
  <2>1. 1 \in 1..n /\ 1 + 1 = 2  BY <1>2
  <2>2. QED  BY <2>1, <1>4, <1>5
<1>12. QED  BY <1>6, <1>10, <1>11

\* A connection that is closed loses the last records.
LEMMA CarriedPrefix ==
  ASSUME NEW r \in Seq(Record), NEW n \in 0..Len(r), NEW x \in Nat, NEW z \in Nat,
         Carried(r, x, z)
  PROVE  \E y \in Nat : Carried(SubSeq(r, 1, n), x, y)
<1>1. PICK pos \in [1..Len(r) + 1 -> Nat] :
             Carries(r, pos) /\ pos[1] = x /\ pos[Len(r) + 1] = z
  BY DEF Carried
<1> DEFINE p == SubSeq(r, 1, n)
           new == [k \in 1..n + 1 |-> pos[k]]
<1>2. Len(r) \in Nat /\ n \in Nat /\ n <= Len(r)  BY LenProperties
<1>3. Len(p) = n /\ \A k \in 1..n : p[k] = r[k]
  <2>1. \A k \in 1..n : r[k] \in Record  BY <1>2, ElementOfSeq
  <2>2. Len(p) = IF 1 <= n THEN n - 1 + 1 ELSE 0
    BY <1>2, <2>1, SubSeqProperties
  <2>3. \A k \in 1..n - 1 + 1 : p[k] = r[1 + k - 1]
    BY <1>2, <2>1, SubSeqProperties
  <2>4. Len(p) = n  BY <2>2, <1>2
  <2>5. QED  BY <2>3, <2>4, <1>2
<1> HIDE DEF p
<1>4. \A k \in 1..n + 1 : pos[k] \in Nat  BY <1>1, <1>2
<1>5. new \in [1..n + 1 -> Nat] /\ new[1] = x /\ new[n + 1] \in Nat
  BY <1>1, <1>2, <1>4
<1>6. \A k \in 1..n + 1 : new[k] = pos[k]  OBVIOUS
<1> HIDE DEF new
<1>7. ASSUME NEW k \in 1..n PROVE Run(p[k].blocks, new[k], new[k + 1])
  <2>1. k \in 1..Len(r) /\ k \in 1..n + 1 /\ k + 1 \in 1..n + 1  BY <1>2
  <2>2. QED  BY <2>1, <1>1, <1>3, <1>6 DEF Carries
<1>8. Carries(p, new)  BY <1>3, <1>7 DEF Carries
<1>9. Carried(p, x, new[n + 1])  BY <1>3, <1>5, <1>8 DEF Carried
<1>10. QED  BY <1>5, <1>9 DEF p

-----------------------------------------------------------------------------
(* What one side does, as a relation between its state c before and x      *)
(* after.                                                                  *)

\* A record e is handed over: appended, or garbage after a hole, or refused.
Sends(c, x, e) ==
  \/ ~c.hole /\ ~x.hole /\ x.out = Append(c.out, e)
  \/ c.hole /\ x.hole /\ x.out = Append(c.out, Plain("garbage"))
  \/ x.hole /\ x.out = c.out

SendsNothing(c, x) == x.hole = c.hole /\ x.out = c.out

\* The rest of its state stays.
Keeps(c, x) ==
  /\ x.queued = c.queued /\ x.localClosed = c.localClosed
  /\ x.accepted = c.accepted

Still(c, x) == Keeps(c, x) /\ x.received = c.received /\ x.closedAt = c.closedAt

\* A record is not the next of the handshake, or nobody listens.
Ignores(c, r) ==
  /\ ~(c.endpoint = "hello" /\ r.kind \in {"hello", "garbage"})
  /\ ~(c.endpoint = "keys" /\ r.kind \in {"keys", "garbage"})
  /\ ~(c.endpoint = "active" /\ r.kind \in {"data", "close", "garbage"})

\* It takes the record r.
TakesHello(s, c, r, x) ==
  /\ c.endpoint = "hello" /\ r.kind = "hello" /\ x.endpoint = "keys" /\ Still(c, x)
  /\ Sends(c, x, Plain(IF s = "server" THEN "hello" ELSE "keys"))

TakesKeys(s, c, r, x) ==
  /\ c.endpoint = "keys" /\ r.kind = "keys" /\ x.endpoint = "active" /\ Still(c, x)
  /\ IF s = "server" THEN Sends(c, x, Plain("keys")) ELSE SendsNothing(c, x)

TakesData(c, r, x) ==
  /\ c.endpoint = "active" /\ r.kind = "data" /\ x.endpoint = "active"
  /\ Keeps(c, x) /\ x.closedAt = c.closedAt /\ x.received = c.received \o r.blocks
  /\ SendsNothing(c, x)

TakesClose(c, r, x) ==
  /\ c.endpoint = "active" /\ r.kind = "close" /\ x.endpoint = "closed"
  /\ Keeps(c, x) /\ x.received = c.received
  /\ Sends(c, x, Plain("close"))

TakesGarbage(c, r, x) ==
  /\ c.endpoint \in {"hello", "keys", "active"} /\ r.kind = "garbage"
  /\ x.endpoint = "failed" /\ Still(c, x) /\ SendsNothing(c, x)

Takes(s, c, r, x) ==
  \/ TakesHello(s, c, r, x) \/ TakesKeys(s, c, r, x) \/ TakesData(c, r, x)
  \/ TakesClose(c, r, x) \/ TakesGarbage(c, r, x)
  \/ Ignores(c, r) /\ x = c

LEMMA PlainRecord == ASSUME NEW k \in RecordKinds, k # "data"
                     PROVE  Plain(k) \in Record /\ Plain(k).kind = k
BY EmptySeq DEF Plain, Record

LEMMA DataRecord == ASSUME NEW b \in Seq(Nat)
                    PROVE  Data(b) \in Record /\ Data(b).kind = "data" /\ Data(b).blocks = b
BY DEF Data, Record, RecordKinds

\* OutputCallback (TlsConnection.inl:36-39).
LEMMA OutputSends ==
  ASSUME NEW c \in Connection, NEW e \in Record, NEW x, x = Output(c, e)
  PROVE  /\ x \in Connection /\ Sends(c, x, e) /\ Still(c, x)
         /\ x.endpoint = c.endpoint
<1>1. CASE c.shut \/ Len(c.out) >= MaxRecords
  <2>1. x = [c EXCEPT !.hole = TRUE]  BY <1>1 DEF Output
  <2>2. QED  BY <2>1 DEF Sends, Still, Keeps, Connection
<1>2. CASE ~(c.shut \/ Len(c.out) >= MaxRecords)
  <2>1. PICK r \in Record : /\ r = IF c.hole THEN Plain("garbage") ELSE e
    BY PlainRecord DEF RecordKinds
  <2>2. x = [c EXCEPT !.out = Append(c.out, r)]  BY <1>2, <2>1 DEF Output
  <2>3. c.out \in Seq(Record) /\ c.hole \in BOOLEAN  BY DEF Connection
  <2>4. Append(c.out, r) \in Seq(Record)  BY <2>3, AppendProperties
  <2>5. x \in Connection  BY <2>2, <2>4 DEF Connection
  <2>6. x.out = Append(c.out, r) /\ x.hole = c.hole /\ Still(c, x) /\ x.endpoint = c.endpoint
    BY <2>2 DEF Still, Keeps, Connection
  <2>7. QED  BY <2>1, <2>3, <2>5, <2>6 DEF Sends
<1>3. QED  BY <1>1, <1>2

\* A change of fields keeps a connection a connection.
LEMMA EndpointSet ==
  ASSUME NEW c \in Connection, NEW e \in Endpoints, NEW x, x = [c EXCEPT !.endpoint = e]
  PROVE  /\ x \in Connection /\ x.endpoint = e /\ Still(c, x) /\ SendsNothing(c, x)
BY DEF Connection, Still, Keeps, SendsNothing

\* CloseEndpoint().
LEMMA ClosedIs ==
  ASSUME NEW c \in Connection, NEW x, x = Closed(c)
  PROVE  /\ x \in Connection /\ Keeps(c, x) /\ x.received = c.received
         /\ x.endpoint = "closed" /\ x.closedAt = c.accepted
         /\ Sends(c, x, Plain("close"))
<1>1. PICK y : y = Output(c, Plain("close"))  OBVIOUS
<1>2. y \in Connection /\ Sends(c, y, Plain("close")) /\ Still(c, y)
  BY <1>1, OutputSends, PlainRecord DEF RecordKinds
<1>3. x = [y EXCEPT !.endpoint = "closed", !.closedAt = c.accepted]
  BY <1>1 DEF Closed
<1>4. c.accepted \in Nat /\ "closed" \in Endpoints  BY DEF Connection, Endpoints
<1>5. x \in Connection  BY <1>2, <1>3, <1>4 DEF Connection
<1>6. /\ x.out = y.out /\ x.hole = y.hole /\ x.received = y.received
      /\ x.endpoint = "closed" /\ x.closedAt = c.accepted /\ Keeps(y, x)
  BY <1>2, <1>3 DEF Connection, Keeps
<1>7. QED  BY <1>2, <1>5, <1>6 DEF Sends, Still, Keeps

\* One record is processed.
LEMMA ProcessTakes ==
  ASSUME NEW s \in Sides, NEW c \in Connection, NEW r \in Record, NEW x,
         x = Process(s, c, r)
  PROVE  x \in Connection /\ Takes(s, c, r, x)
<1>1. CASE c.endpoint = "hello" /\ r.kind = "hello"
  <2>1. PICK k \in {"hello", "keys"} : k = IF s = "server" THEN "hello" ELSE "keys"
    OBVIOUS
  <2>2. Plain(k) \in Record  BY PlainRecord DEF RecordKinds
  <2>3. PICK y : y = Output(c, Plain(k))  OBVIOUS
  <2>4. y \in Connection /\ Sends(c, y, Plain(k)) /\ Still(c, y)
    BY <2>2, <2>3, OutputSends
  <2>5. x = [y EXCEPT !.endpoint = "keys"]  BY <1>1, <2>1, <2>3 DEF Process
  <2>6. x \in Connection /\ x.endpoint = "keys" /\ Still(y, x) /\ SendsNothing(y, x)
    BY <2>4, <2>5, EndpointSet DEF Endpoints
  <2>7. TakesHello(s, c, r, x)
    BY <1>1, <2>1, <2>4, <2>6 DEF TakesHello, Sends, SendsNothing, Still, Keeps
  <2>8. QED  BY <2>6, <2>7 DEF Takes
<1>2. CASE c.endpoint = "keys" /\ r.kind = "keys"
  <2>1. PICK y : y = IF s = "server" THEN Output(c, Plain("keys")) ELSE c  OBVIOUS
  <2>2. /\ y \in Connection /\ Still(c, y)
        /\ IF s = "server" THEN Sends(c, y, Plain("keys")) ELSE SendsNothing(c, y)
    BY <2>1, OutputSends, PlainRecord DEF RecordKinds, SendsNothing, Still, Keeps
  <2>3. x = [y EXCEPT !.endpoint = "active"]  BY <1>2, <2>1 DEF Process
  <2>4. x \in Connection /\ x.endpoint = "active" /\ Still(y, x) /\ SendsNothing(y, x)
    BY <2>2, <2>3, EndpointSet DEF Endpoints
  <2>5. TakesKeys(s, c, r, x)
    BY <1>2, <2>2, <2>4 DEF TakesKeys, Sends, SendsNothing, Still, Keeps
  <2>6. QED  BY <2>4, <2>5 DEF Takes
<1>3. CASE c.endpoint = "active" /\ r.kind = "data"
  <2>1. x = [c EXCEPT !.received = c.received \o r.blocks]  BY <1>3 DEF Process
  <2>2. c.received \o r.blocks \in Seq(Nat)
    BY RecordBlocks, ConcatProperties DEF Connection
  <2>3. x \in Connection  BY <2>1, <2>2 DEF Connection
  <2>4. TakesData(c, r, x)  BY <1>3, <2>1 DEF TakesData, SendsNothing, Keeps, Connection
  <2>5. QED  BY <2>3, <2>4 DEF Takes
<1>4. CASE c.endpoint = "active" /\ r.kind = "close"
  <2>1. x = Closed(c)  BY <1>4 DEF Process
  <2>2. QED  BY <1>4, <2>1, ClosedIs DEF Takes, TakesClose
<1>5. CASE c.endpoint \in {"hello", "keys", "active"} /\ r.kind = "garbage"
  <2>1. x = [c EXCEPT !.endpoint = "failed"]  BY <1>5 DEF Process
  <2>2. QED  BY <1>5, <2>1, EndpointSet DEF Takes, TakesGarbage, Endpoints
<1>6. CASE Ignores(c, r)
  <2>1. x = c  BY <1>6 DEF Process, Ignores
  <2>2. QED  BY <1>6, <2>1 DEF Takes
<1>7. QED  BY <1>1, <1>2, <1>3, <1>4, <1>5, <1>6 DEF Ignores

-----------------------------------------------------------------------------
(* One record through both directions.                                     *)

\* What a record without data, or none, leaves of the records under way.
PlainSends(c, x) ==
  \/ SendsNothing(c, x)
  \/ \E k \in RecordKinds \ {"data"} : Sends(c, x, Plain(k))

LEMMA PlainSendsCarried ==
  ASSUME NEW c \in Connection, NEW x \in Connection, PlainSends(c, x),
         NEW a \in Nat, NEW b \in Nat, Carried(c.out, a, b)
  PROVE  Carried(x.out, a, b) /\ (c.hole => x.hole)
<1>1. CASE SendsNothing(c, x)  BY <1>1 DEF SendsNothing
<1>2. CASE \E k \in RecordKinds \ {"data"} : Sends(c, x, Plain(k))
  <2>1. PICK k \in RecordKinds \ {"data"} : Sends(c, x, Plain(k))  BY <1>2
  <2>2. PICK e \in Record : /\ e.kind # "data"
                            /\ x.out = Append(c.out, e) \/ x.out = c.out
    <3>1. /\ Plain(k) \in Record /\ Plain(k).kind # "data"
          /\ Plain("garbage") \in Record /\ Plain("garbage").kind # "data"
      BY PlainRecord DEF RecordKinds
    <3>2. \/ x.out = Append(c.out, Plain(k)) \/ x.out = Append(c.out, Plain("garbage"))
          \/ x.out = c.out
      BY <2>1 DEF Sends
    <3>3. CASE x.out = Append(c.out, Plain(k))  BY <3>1, <3>3
    <3>4. CASE x.out = Append(c.out, Plain("garbage"))  BY <3>1, <3>4
    <3>5. CASE x.out = c.out  BY <3>1, <3>5
    <3>6. QED  BY <3>2, <3>3, <3>4, <3>5
  <2>3. Run(e.blocks, b, b)
    <3>1. e.blocks = <<>>  BY <2>2, RecordBlocks
    <3>2. Run(<<>>, b, b)  BY EmptyRun
    <3>3. QED  BY <3>1, <3>2
  <2>4. c.out \in Seq(Record)  BY DEF Connection
  <2>5. Carried(Append(c.out, e), a, b)  BY <2>3, <2>4, CarriedAppend
  <2>6. QED  BY <2>1, <2>2, <2>5 DEF Sends
<1>3. QED  BY <1>1, <1>2 DEF PlainSends

\* NoData, and the first record, of what is under way.
LEMMA PlainSendsNoData ==
  ASSUME NEW c \in Connection, NEW x \in Connection, PlainSends(c, x)
  PROVE  /\ NoData(c.out) => NoData(x.out)
         /\ c.out # <<>> => x.out # <<>> /\ x.out[1] = c.out[1]
<1>0. c.out \in Seq(Record)  BY DEF Connection
<1>1. CASE x.out = c.out  BY <1>1
<1>2. CASE x.out # c.out
  <2>1. PICK e \in Record : e.kind # "data" /\ x.out = Append(c.out, e)
    BY <1>2, PlainRecord DEF PlainSends, Sends, SendsNothing, RecordKinds
  <2>2. /\ Len(x.out) = Len(c.out) + 1 /\ x.out[Len(c.out) + 1] = e
        /\ \A k \in 1..Len(c.out) : x.out[k] = c.out[k]
    BY <1>0, <2>1, AppendProperties
  <2>3. NoData(c.out) => NoData(x.out)
    <3>1. SUFFICES ASSUME NoData(c.out), NEW k \in 1..Len(x.out) PROVE x.out[k].kind # "data"
      BY DEF NoData
    <3>2. CASE k = Len(c.out) + 1  BY <3>2, <2>1, <2>2
    <3>3. CASE k # Len(c.out) + 1
      <4>1. k \in 1..Len(c.out)  BY <3>3, <2>2, <1>0, LenProperties
      <4>2. QED  BY <4>1, <3>1, <2>2 DEF NoData
    <3>4. QED  BY <3>2, <3>3
  <2>4. c.out # <<>> => x.out # <<>> /\ x.out[1] = c.out[1]
    BY <1>0, <2>2, EmptySeq
  <2>5. QED  BY <2>3, <2>4
<1>3. QED  BY <1>1, <1>2

\* What is accepted and queued by the sender x is what was by c, and x is not
\* further.
Owes(c, x) ==
  /\ Listens(x) => Listens(c) /\ x.queued = c.queued /\ x.accepted = c.accepted
  /\ x.endpoint = "closed" /\ x.localClosed =>
       c.endpoint = "closed" /\ c.localClosed /\ x.closedAt = c.closedAt

\* A sender hands over no data.
LEMMA DirectionKept ==
  ASSUME NEW c \in Connection, NEW x \in Connection, NEW d \in Connection,
         NEW y \in Connection, Direction(c, d), PlainSends(c, x), Owes(c, x),
         Listens(y) => Listens(d) /\ y.received = d.received
  PROVE  Direction(x, y)
<1> SUFFICES ASSUME Listens(y)
             PROVE  \E last \in Nat : Carried(x.out, Len(y.received), last) /\ Accounts(x, last)
  BY DEF Direction
<1>1. PICK last \in Nat : Carried(c.out, Len(d.received), last) /\ Accounts(c, last)
  BY DEF Direction
<1>2. Len(d.received) \in Nat  BY LenProperties DEF Connection
<1>3. Carried(x.out, Len(d.received), last) /\ (c.hole => x.hole)
  BY <1>1, <1>2, PlainSendsCarried
<1>4. Accounts(x, last)  BY <1>1, <1>3 DEF Accounts, Owes
<1>5. QED  BY <1>1, <1>3, <1>4

\* The first record leaves what is under way from c.
LosesFirst(c, x) == x = [c EXCEPT !.out = Tail(c.out)]

\* The receiver takes the first record.
LEMMA DirectionTaken ==
  ASSUME NEW s \in Sides, NEW c \in Connection, NEW x \in Connection,
         NEW d \in Connection, NEW y \in Connection, c.out # <<>>,
         LosesFirst(c, x), Direction(c, d), Takes(s, d, c.out[1], y),
         Listens(d) /\ c.out[1].kind = "data" => d.endpoint = "active"
  PROVE  Direction(x, y)
<1> SUFFICES ASSUME Listens(y)
             PROVE  \E last \in Nat : Carried(x.out, Len(y.received), last) /\ Accounts(x, last)
  BY DEF Direction
<1>1. Listens(d)
  BY DEF Takes, TakesHello, TakesKeys, TakesData, TakesClose, TakesGarbage, Listens
<1>2. PICK last \in Nat : Carried(c.out, Len(d.received), last) /\ Accounts(c, last)
  BY <1>1 DEF Direction
<1>3. PICK r : r = c.out[1]  OBVIOUS
<1>4. /\ c.out \in Seq(Record) /\ d.received \in Seq(Nat) /\ y.received \in Seq(Nat)
      /\ r \in Record
  <2>1. /\ c.out \in Seq(Record) /\ d.received \in Seq(Nat) /\ y.received \in Seq(Nat)
    BY DEF Connection
  <2>2. 1 \in 1..Len(c.out)  BY <2>1, EmptySeq
  <2>3. c.out[1] \in Record  BY <2>1, <2>2, ElementOfSeq
  <2>4. QED  BY <2>1, <2>3, <1>3
<1>5. Len(d.received) \in Nat  BY <1>4, LenProperties
<1>6. PICK mid \in Nat : Run(r.blocks, Len(d.received), mid) /\ Carried(Tail(c.out), mid, last)
  BY <1>2, <1>3, <1>4, <1>5, CarriedTail
<1>7. x.out = Tail(c.out) /\ Accounts(x, last)
  BY <1>2 DEF Accounts, Connection, Listens, LosesFirst
<1>8. Len(y.received) = mid
  <2>1. CASE r.kind = "data"
    <3>1. y.received = d.received \o r.blocks
      BY <1>1, <1>3, <2>1 DEF Takes, TakesHello, TakesKeys, TakesData, TakesClose,
                              TakesGarbage, Ignores
    <3>2. Len(y.received) = Len(d.received) + Len(r.blocks)
      BY <3>1, <1>4, RecordBlocks, ConcatProperties
    <3>3. QED  BY <3>2, <1>5, <1>6 DEF Run
  <2>2. CASE r.kind # "data"
    <3>1. y.received = d.received
      BY <1>3, <2>2 DEF Takes, TakesHello, TakesKeys, TakesData, TakesClose,
                        TakesGarbage, Still
    <3>2. r.blocks = <<>>  BY <2>2, <1>4, RecordBlocks
    <3>3. Run(<<>>, Len(d.received), mid)  BY <3>2, <1>6
    <3>4. mid = Len(d.received)  BY <3>3, <1>5, EmptyRun
    <3>5. QED  BY <3>1, <3>4
  <2>3. QED  BY <2>1, <2>2
<1>9. QED  BY <1>6, <1>7, <1>8

\* What the receiver y of a record sends in answer, and that it owes no more.
LEMMA TakesAnswers ==
  ASSUME NEW s \in Sides, NEW d \in Connection, NEW y \in Connection,
         NEW r, Takes(s, d, r, y), Sound(d)
  PROVE  /\ PlainSends(d, y) /\ Owes(d, y)
         /\ y.localClosed = d.localClosed
         /\ y.localClosed => y.endpoint \in {"closed", "reset"}
<1>1. d.localClosed => d.endpoint \in {"closed", "reset"}  BY DEF Sound
<1>2. /\ "hello" \in RecordKinds \ {"data"} /\ "keys" \in RecordKinds \ {"data"}
      /\ "close" \in RecordKinds \ {"data"}
  BY DEF RecordKinds
<1>3. CASE TakesHello(s, d, r, y)
  BY <1>1, <1>2, <1>3 DEF TakesHello, PlainSends, Owes, Listens, Still, Keeps
<1>4. CASE TakesKeys(s, d, r, y)
  BY <1>1, <1>2, <1>4 DEF TakesKeys, PlainSends, Owes, Listens, Still, Keeps
<1>5. CASE TakesData(d, r, y)
  BY <1>1, <1>2, <1>5 DEF TakesData, PlainSends, Owes, Listens, Still, Keeps
<1>6. CASE TakesClose(d, r, y)
  BY <1>1, <1>2, <1>6 DEF TakesClose, PlainSends, Owes, Listens, Still, Keeps
<1>7. CASE TakesGarbage(d, r, y)
  BY <1>1, <1>2, <1>7 DEF TakesGarbage, PlainSends, Owes, Listens, Still, Keeps
<1>8. CASE Ignores(d, r) /\ y = d
  BY <1>1, <1>8 DEF PlainSends, SendsNothing, Owes
<1>9. QED  BY <1>3, <1>4, <1>5, <1>6, <1>7, <1>8 DEF Takes

\* The receiver's blocks stay a run from the first.
LEMMA TakesSound ==
  ASSUME NEW s \in Sides, NEW c \in Connection, NEW d \in Connection,
         NEW y \in Connection, c.out # <<>>, Direction(c, d), Sound(d),
         Takes(s, d, c.out[1], y)
  PROVE  Sound(y)
<1>1. y.localClosed => y.endpoint \in {"closed", "reset"}
  BY TakesAnswers
<1>2. CASE y.received = d.received  BY <1>1, <1>2 DEF Sound
<1>3. CASE y.received # d.received
  <2>1. d.endpoint = "active" /\ y.received = d.received \o c.out[1].blocks
    BY <1>3 DEF Takes, TakesHello, TakesKeys, TakesData, TakesClose, TakesGarbage, Still
  <2>2. PICK last \in Nat : Carried(c.out, Len(d.received), last)
    BY <2>1 DEF Direction, Listens
  <2>3. /\ c.out \in Seq(Record) /\ d.received \in Seq(Nat)
        /\ c.out[1].blocks \in Seq(Nat)
    BY EmptySeq, ElementOfSeq, RecordBlocks DEF Connection
  <2>4. Len(d.received) \in Nat  BY <2>3, LenProperties
  <2>5. PICK mid \in Nat : Run(c.out[1].blocks, Len(d.received), mid)
    BY <2>2, <2>3, <2>4, CarriedTail
  <2>6. Run(d.received, 0, Len(d.received))  BY DEF Sound
  <2>7. Run(y.received, 0, mid)  BY <2>1, <2>3, <2>4, <2>5, <2>6, RunOn
  <2>8. Len(y.received) = mid  BY <2>7 DEF Run
  <2>9. QED  BY <1>1, <2>7, <2>8 DEF Sound
<1>4. QED  BY <1>2, <1>3

-----------------------------------------------------------------------------
(* The handshake, record by record.                                        *)

\* What is left of the records after the first.
LEMMA RestFacts ==
  ASSUME NEW c \in Connection, NEW x, c.out # <<>>, LosesFirst(c, x)
  PROVE  /\ x \in Connection /\ x.endpoint = c.endpoint /\ Still(c, x)
         /\ x.hole = c.hole /\ x.out = Tail(c.out)
         /\ NoData(c.out) => NoData(x.out)
         /\ \A e : c.out = <<e>> => x.out = <<>>
         /\ c.out[1] \in Record
<1>1. c.out \in Seq(Record)  BY DEF Connection
<1>2. /\ Tail(c.out) \in Seq(Record) /\ Len(Tail(c.out)) = Len(c.out) - 1
      /\ Len(c.out) \in Nat /\ Len(c.out) >= 1
      /\ \A k \in 1..Len(Tail(c.out)) : Tail(c.out)[k] = c.out[k + 1]
  BY <1>1, EmptySeq, HeadTailProperties
<1>3. x \in Connection /\ x.endpoint = c.endpoint /\ x.hole = c.hole /\ x.out = Tail(c.out)
  BY <1>2 DEF Connection, LosesFirst
<1>4. Still(c, x)  BY DEF Connection, Still, Keeps, LosesFirst
<1>5. NoData(c.out) => NoData(Tail(c.out))
  <2>1. \A k \in 1..Len(Tail(c.out)) : k + 1 \in 1..Len(c.out)  BY <1>2
  <2>2. QED  BY <2>1, <1>2 DEF NoData
<1>6. \A e : c.out = <<e>> => Tail(c.out) = <<>>
  BY <1>1
<1>7. c.out[1] \in Record
  <2>1. 1 \in 1..Len(c.out)  BY <1>2
  <2>2. QED  BY <1>1, <2>1, ElementOfSeq
<1>8. QED  BY <1>3, <1>4, <1>5, <1>6, <1>7

\* The first record handed over, if it is not refused.
LEMMA SendsFirst ==
  ASSUME NEW c, NEW x, NEW e, Sends(c, x, e), c.out = <<>>, ~c.hole
  PROVE  /\ x.out \in {<<>>, <<e>>}
         /\ ~x.hole => x.out = <<e>>
<1>1. Append(<<>>, e) = <<e>>  OBVIOUS
<1>2. QED  BY <1>1, Zenon DEF Sends

\* The client takes a record of the server.
LEMMA ClientTakesHandshake ==
  ASSUME NEW cl \in Connection, NEW sv \in Connection, NEW x \in Connection,
         NEW y \in Connection, NEW pre, sv.out # <<>>, Handshake(cl, sv, pre),
         LosesFirst(sv, x), Takes("client", cl, sv.out[1], y),
         cl.endpoint \notin {"idle", "reset"}
  PROVE  Handshake(y, x, pre)
<1>1. /\ x.endpoint = sv.endpoint /\ x.hole = sv.hole /\ x.localClosed = sv.localClosed
      /\ NoData(sv.out) => NoData(x.out)
      /\ \A e : sv.out = <<e>> => x.out = <<>>
  <2>1. /\ x \in Connection /\ x.endpoint = sv.endpoint /\ Still(sv, x)
        /\ x.hole = sv.hole /\ x.out = Tail(sv.out)
        /\ NoData(sv.out) => NoData(x.out)
        /\ \A e : sv.out = <<e>> => x.out = <<>>
        /\ sv.out[1] \in Record
    BY RestFacts
  <2>2. x.localClosed = sv.localClosed  BY <2>1, Zenon DEF Still, Keeps
  <2>3. QED  BY <2>1, <2>2, Zenon
<1>2. /\ NoData(cl.out) => NoData(y.out)
      /\ cl.out # <<>> => y.out # <<>> /\ y.out[1] = cl.out[1]
  <2>1. "keys" \in RecordKinds \ {"data"} /\ "close" \in RecordKinds \ {"data"}
    BY DEF RecordKinds
  <2>2. PlainSends(cl, y)
    BY <2>1 DEF Takes, TakesHello, TakesKeys, TakesData, TakesClose, TakesGarbage,
                PlainSends, SendsNothing
  <2>3. QED  BY <2>2, PlainSendsNoData
<1>3. Plain("hello").kind = "hello" /\ NoData(<<>>) /\ NoData(<<Plain("hello")>>)
  BY DEF Plain, NoData
<1>4. /\ y.endpoint \notin {"idle", "hello", "reset"} \/ y = cl
      /\ sv.endpoint \notin {"idle", "hello"} /\ pre = <<>>
  BY DEF Takes, TakesHello, TakesKeys, TakesData, TakesClose, TakesGarbage, Handshake,
         BeforeHello
<1>5. BeforeHello(y, x, pre)
  BY <1>1, <1>4 DEF BeforeHello, Takes, TakesHello, TakesKeys, TakesData, TakesClose,
                    TakesGarbage
<1>6. ClientHello(y, x)
  BY <1>1, <1>4 DEF ClientHello, Handshake
<1>7. ServerKeys(y, x)
  <2>1. SUFFICES ASSUME sv.endpoint = "keys" PROVE ServerKeys(y, x)
    BY <1>1 DEF ServerKeys
  <2>2. /\ cl.endpoint \notin {"idle", "active", "closed", "keys"}
        /\ sv.out = <<Plain("hello")>> /\ NoData(cl.out) /\ sv.out[1].kind = "hello"
    BY <2>1, <1>3 DEF Handshake, ServerKeys
  <2>3. x.out = <<>> /\ NoData(y.out)  BY <2>2, <1>1, <1>2
  <2>4. y.endpoint \notin {"idle", "active", "closed"}
    BY <2>2 DEF Takes, TakesHello, TakesKeys, TakesData, TakesClose, TakesGarbage
  <2>5. QED  BY <2>3, <2>4 DEF ServerKeys
<1>8. ClientKeys(y, x)
  <2>1. SUFFICES ASSUME y.endpoint = "keys" PROVE ClientKeys(y, x)
    BY DEF ClientKeys
  <2>2. CASE cl.endpoint = "hello"
    <3>1. /\ sv.endpoint \notin {"active", "closed"} /\ sv.out = <<Plain("hello")>>
          /\ cl.out \in {<<>>, <<Plain("hello")>>}
      BY <2>2 DEF Handshake, ClientHello
    <3>2. x.out = <<>> /\ NoData(y.out)  BY <3>1, <1>1, <1>2, <1>3
    <3>3. QED  BY <3>1, <3>2, <1>1, <1>3 DEF ClientKeys
  <2>3. CASE cl.endpoint = "keys"
    <3>1. y = cl /\ sv.out[1].kind # "keys"
      BY <2>1, <2>3 DEF Takes, TakesHello, TakesKeys, TakesData, TakesClose, TakesGarbage,
                        Ignores
    <3>2. /\ NoData(cl.out) /\ NoData(sv.out)
          /\ ~(sv.endpoint \in {"active", "closed"} /\ ~sv.hole)
      BY <2>3, <3>1 DEF Handshake, ClientKeys
    <3>3. QED  BY <3>1, <3>2, <1>1 DEF ClientKeys
  <2>4. QED
    BY <2>1, <2>2, <2>3 DEF Takes, TakesHello, TakesKeys, TakesData, TakesClose, TakesGarbage
<1>9. QED  BY <1>5, <1>6, <1>7, <1>8 DEF Handshake

\* The server takes a record of the client.
LEMMA ServerTakesHandshake ==
  ASSUME NEW cl \in Connection, NEW sv \in Connection, NEW x \in Connection,
         NEW y \in Connection, NEW pre, cl.out # <<>>, Handshake(cl, sv, pre),
         LosesFirst(cl, x), Takes("server", sv, cl.out[1], y),
         sv.endpoint \notin {"idle", "reset"}
  PROVE  Handshake(x, y, pre)
<1>1. /\ x.endpoint = cl.endpoint /\ x.hole = cl.hole /\ x.localClosed = cl.localClosed
      /\ NoData(cl.out) => NoData(x.out)
      /\ \A e : cl.out = <<e>> => x.out = <<>>
  <2>1. /\ x \in Connection /\ x.endpoint = cl.endpoint /\ Still(cl, x)
        /\ x.hole = cl.hole /\ x.out = Tail(cl.out)
        /\ NoData(cl.out) => NoData(x.out)
        /\ \A e : cl.out = <<e>> => x.out = <<>>
        /\ cl.out[1] \in Record
    BY RestFacts
  <2>2. x.localClosed = cl.localClosed  BY <2>1, Zenon DEF Still, Keeps
  <2>3. QED  BY <2>1, <2>2, Zenon
<1>2. /\ NoData(sv.out) => NoData(y.out)
      /\ sv.out # <<>> => y.out # <<>> /\ y.out[1] = sv.out[1]
  <2>1. /\ "keys" \in RecordKinds \ {"data"} /\ "close" \in RecordKinds \ {"data"}
        /\ "hello" \in RecordKinds \ {"data"}
    BY DEF RecordKinds
  <2>2. PlainSends(sv, y)
    BY <2>1 DEF Takes, TakesHello, TakesKeys, TakesData, TakesClose, TakesGarbage,
                PlainSends, SendsNothing
  <2>3. QED  BY <2>2, PlainSendsNoData
<1>3. Plain("hello").kind = "hello" /\ NoData(<<>>) /\ NoData(<<Plain("hello")>>)
  BY DEF Plain, NoData
<1>4. /\ y.endpoint \notin {"idle", "hello", "reset"} \/ y = sv
      /\ cl.endpoint # "idle" /\ pre = <<>>
  BY DEF Takes, TakesHello, TakesKeys, TakesData, TakesClose, TakesGarbage, Handshake,
         BeforeHello
<1>5. BeforeHello(x, y, pre)
  <2>1. CASE sv.endpoint = "hello"
    <3>1. cl.out = <<Plain("hello")>> /\ cl.out[1].kind = "hello"
      BY <2>1, <1>3 DEF Handshake, BeforeHello
    <3>2. y.endpoint = "keys"
      BY <2>1, <3>1 DEF Takes, TakesHello, TakesKeys, TakesData, TakesClose, TakesGarbage,
                        Ignores
    <3>3. QED  BY <3>2, <1>1, <1>4 DEF BeforeHello
  <2>2. CASE sv.endpoint # "hello"
    BY <2>2, <1>1, <1>4 DEF BeforeHello
  <2>3. QED  BY <2>1, <2>2
<1>6. ClientHello(x, y)
  <2>1. SUFFICES ASSUME cl.endpoint = "hello" PROVE ClientHello(x, y)
    BY <1>1 DEF ClientHello
  <2>2. /\ sv.endpoint \notin {"active", "closed"} /\ sv.out \in {<<>>, <<Plain("hello")>>}
        /\ cl.out = <<Plain("hello")>> /\ cl.out[1].kind = "hello"
    BY <2>1, <1>3 DEF Handshake, ClientHello
  <2>3. x.out = <<>>  BY <2>2, <1>1
  <2>4. CASE sv.endpoint = "hello"
    <3>0. sv.out = <<>> /\ ~sv.hole  BY <2>4 DEF Handshake, BeforeHello
    <3>1. sv.out = <<>> /\ ~sv.hole /\ y.endpoint = "keys" /\ Sends(sv, y, Plain("hello"))
      BY <2>2, <2>4, <3>0 DEF Takes, TakesHello, TakesKeys, TakesData, TakesClose,
                              TakesGarbage, Ignores
    <3>2. y.out \in {<<>>, <<Plain("hello")>>}  BY <3>1, SendsFirst
    <3>3. QED  BY <3>1, <3>2, <2>3 DEF ClientHello
  <2>5. CASE sv.endpoint # "hello"
    <3>1. y = sv
      BY <2>2, <2>5 DEF Takes, TakesHello, TakesKeys, TakesData, TakesClose, TakesGarbage,
                        Ignores
    <3>2. QED  BY <3>1, <2>2, <2>3 DEF ClientHello
  <2>6. QED  BY <2>4, <2>5
<1>7. ServerKeys(x, y)
  <2>1. SUFFICES ASSUME y.endpoint = "keys" PROVE ServerKeys(x, y)
    BY DEF ServerKeys
  <2>2. CASE sv.endpoint = "hello"
    <3>1. /\ cl.out = <<Plain("hello")>> /\ sv.out = <<>> /\ ~sv.hole
          /\ cl.endpoint \in {"hello", "reset"}
      BY <2>2, <1>4 DEF Handshake, BeforeHello
    <3>2. Sends(sv, y, Plain("hello"))
      BY <2>1, <2>2 DEF Takes, TakesHello, TakesKeys, TakesData, TakesClose, TakesGarbage
    <3>3. y.out \in {<<>>, <<Plain("hello")>>}  BY <3>1, <3>2, SendsFirst
    <3>4. x.out = <<>>  BY <3>1, <1>1
    <3>5. QED  BY <3>1, <3>3, <3>4, <1>1, <1>3 DEF ServerKeys
  <2>3. CASE sv.endpoint = "keys"
    <3>1. y = sv
      BY <2>1, <2>3 DEF Takes, TakesHello, TakesKeys, TakesData, TakesClose, TakesGarbage
    <3>2. QED  BY <3>1, <2>3, <1>1 DEF Handshake, ServerKeys
  <2>4. QED
    BY <2>1, <2>2, <2>3 DEF Takes, TakesHello, TakesKeys, TakesData, TakesClose, TakesGarbage
<1>8. ClientKeys(x, y)
  <2>1. SUFFICES ASSUME cl.endpoint = "keys" PROVE ClientKeys(x, y)
    BY <1>1 DEF ClientKeys
  <2>2. /\ NoData(x.out)
        /\ NoData(sv.out) \/ sv.out[1].kind = "keys"
        /\ sv.endpoint \in {"active", "closed"} /\ ~sv.hole =>
              sv.out # <<>> /\ sv.out[1].kind = "keys"
    BY <2>1, <1>1 DEF Handshake, ClientKeys
  <2>3. CASE sv.endpoint = "keys" /\ y.endpoint = "active"
    <3>1. sv.out = <<>> /\ Sends(sv, y, Plain("keys"))
      BY <2>1, <2>3 DEF Handshake, ServerKeys, Takes, TakesHello, TakesKeys, TakesData,
                        TakesClose, TakesGarbage
    <3>2. NoData(sv.out)  BY <3>1, <1>3
    <3>3. ~y.hole => y.out = <<Plain("keys")>>
      <4>1. sv.hole => y.hole  BY <3>1 DEF Sends
      <4>2. QED  BY <3>1, <4>1, SendsFirst
    <3>4. <<Plain("keys")>>[1].kind = "keys" /\ <<Plain("keys")>> # <<>>  BY DEF Plain
    <3>5. NoData(y.out) \/ y.out[1].kind = "keys"
      <4>1. y.out \in {<<>>, <<Plain("keys")>>, <<Plain("garbage")>>}
        <5>1. \A e : Append(<<>>, e) = <<e>>  OBVIOUS
        <5>2. QED  BY <3>1, <5>1, Zenon DEF Sends
      <4>2. NoData(<<Plain("garbage")>>)  BY DEF NoData, Plain
      <4>3. QED  BY <4>1, <4>2, <3>4, <1>3, Zenon
    <3>6. ~y.hole => y.out # <<>> /\ y.out[1].kind = "keys"  BY <3>3, <3>4, Zenon
    <3>7. QED  BY <2>2, <3>5, <3>6, Zenon DEF ClientKeys
  <2>4. CASE ~(sv.endpoint = "keys" /\ y.endpoint = "active")
    <3>1. y.endpoint \in {"active", "closed"} => sv.endpoint \in {"active", "closed"}
      BY <2>4 DEF Takes, TakesHello, TakesKeys, TakesData, TakesClose, TakesGarbage
    <3>2. sv.hole => y.hole
      BY DEF Takes, TakesHello, TakesKeys, TakesData, TakesClose, TakesGarbage, Sends,
             SendsNothing
    <3>3. NoData(y.out) \/ y.out[1].kind = "keys"
      <4>1. CASE NoData(sv.out)  BY <4>1, <1>2
      <4>2. CASE ~NoData(sv.out)
        <5>1. sv.out # <<>>  BY <4>2, <1>3
        <5>2. QED  BY <5>1, <4>2, <2>2, <1>2
      <4>3. QED  BY <4>1, <4>2
    <3>4. y.endpoint \in {"active", "closed"} /\ ~y.hole =>
            y.out # <<>> /\ y.out[1].kind = "keys"
      BY <2>2, <3>1, <3>2, <1>2, Zenon
    <3>5. QED  BY <2>2, <3>3, <3>4, Zenon DEF ClientKeys
  <2>5. QED  BY <2>3, <2>4
<1>9. QED  BY <1>5, <1>6, <1>7, <1>8 DEF Handshake

-----------------------------------------------------------------------------
(* A step of one side, for both sides.                                     *)

LEMMA PairFacts ==
  ASSUME NEW s \in Sides, NEW c, NEW d, NEW pre, NEW trusted
  PROVE  /\ Pair(s, c, d, pre, trusted) =>
              /\ Sound(c) /\ Sound(d) /\ c \in Connection /\ d \in Connection
              /\ Direction(c, d) /\ Direction(d, c)
         /\ s = "client" => (Pair(s, c, d, pre, trusted) <=> Exchange(c, d, pre, trusted))
         /\ s = "server" => (Pair(s, c, d, pre, trusted) <=> Exchange(d, c, pre, trusted))
BY DEF Sides, Pair, Exchange, Sound

\* A side takes the first record that is under way to it.
LEMMA PairTakes ==
  ASSUME NEW s \in Sides, NEW c, NEW d, NEW pre, NEW trusted, NEW x, NEW y \in Connection,
         Pair(s, c, d, pre, trusted), d.out # <<>>, c.endpoint \notin {"idle", "reset"},
         Takes(s, c, d.out[1], y), LosesFirst(d, x)
  PROVE  Pair(s, y, x, pre, trusted) /\ y.endpoint \notin {"idle", "reset"}
<1>1. /\ Sound(c) /\ Sound(d) /\ c \in Connection /\ d \in Connection
      /\ Direction(c, d) /\ Direction(d, c)
  BY PairFacts
<1>2. /\ x \in Connection /\ x.endpoint = d.endpoint /\ Still(d, x)
      /\ x.hole = d.hole /\ x.out = Tail(d.out)
      /\ NoData(d.out) => NoData(x.out)
      /\ \A e : d.out = <<e>> => x.out = <<>>
      /\ d.out[1] \in Record
  BY <1>1, RestFacts
<1>3. /\ PlainSends(c, y) /\ Owes(c, y)
      /\ y.localClosed = c.localClosed
      /\ y.localClosed => y.endpoint \in {"closed", "reset"}
  BY <1>1, TakesAnswers
<1>4. Sound(y)  BY <1>1, TakesSound
<1>5. x.received = d.received /\ x.localClosed = d.localClosed
  BY <1>2 DEF Still, Keeps
<1>6. Sound(x)  BY <1>1, <1>2, <1>5 DEF Sound
<1>7. Direction(y, x)
  <2>1. Listens(x) => Listens(d) /\ x.received = d.received  BY <1>2, <1>5 DEF Listens
  <2>2. QED  BY <1>1, <1>2, <1>3, <2>1, DirectionKept
<1>8. y.endpoint \notin {"idle", "reset"}
  BY DEF Takes, TakesHello, TakesKeys, TakesData, TakesClose, TakesGarbage
<1>9. CASE s = "client"
  <2>1. Handshake(c, d, pre) /\ Nothing(c, d, trusted) /\ trusted \in BOOLEAN
    BY <1>9 DEF Pair, Exchange
  <2>2. Handshake(y, x, pre)
    BY <1>1, <1>2, <1>9, <2>1, ClientTakesHandshake
  <2>3. Listens(c) /\ d.out[1].kind = "data" => c.endpoint = "active"
    <3>1. SUFFICES ASSUME c.endpoint \in {"hello", "keys"}, d.out[1].kind = "data" PROVE FALSE
      BY DEF Listens
    <3>2. Plain("hello").kind = "hello"  BY DEF Plain
    <3>3. CASE c.endpoint = "hello"
      BY <2>1, <3>1, <3>2, <3>3 DEF Handshake, ClientHello
    <3>4. CASE c.endpoint = "keys"
      <4>1. ~NoData(d.out)
        <5>1. 1 \in 1..Len(d.out)  BY <1>1, EmptySeq DEF Connection
        <5>2. QED  BY <3>1, <5>1 DEF NoData
      <4>2. QED  BY <2>1, <3>1, <3>4, <4>1 DEF Handshake, ClientKeys
    <3>5. QED  BY <3>1, <3>3, <3>4
  <2>4. Direction(x, y)  BY <1>1, <1>2, <2>3, DirectionTaken
  <2>5. Nothing(y, x, trusted)
    BY <1>1, <1>3, <1>5, <2>1, PlainSendsNoData DEF Nothing
  <2>6. QED  BY <1>4, <1>6, <1>7, <1>8, <1>9, <2>1, <2>2, <2>4, <2>5 DEF Pair, Exchange
<1>10. CASE s = "server"
  <2>1. Handshake(d, c, pre) /\ Nothing(d, c, trusted) /\ trusted \in BOOLEAN
    BY <1>10 DEF Pair, Exchange
  <2>2. Handshake(x, y, pre)
    BY <1>1, <1>2, <1>10, <2>1, ServerTakesHandshake
  <2>0. NoData(d.out) => d.out[1].kind # "data"
    <3>1. 1 \in 1..Len(d.out)  BY <1>1, EmptySeq DEF Connection
    <3>2. QED  BY <3>1 DEF NoData
  <2>3. Listens(c) /\ d.out[1].kind = "data" => c.endpoint = "active"
    <3>1. SUFFICES ASSUME c.endpoint \in {"hello", "keys"}, d.out[1].kind = "data" PROVE FALSE
      BY DEF Listens
    <3>2. Plain("hello").kind = "hello"  BY DEF Plain
    <3>3. CASE c.endpoint = "hello"
      BY <2>1, <3>1, <3>2, <3>3 DEF Handshake, BeforeHello
    <3>4. CASE c.endpoint = "keys"
      BY <2>0, <2>1, <3>1, <3>4 DEF Handshake, ServerKeys
    <3>5. QED  BY <3>1, <3>3, <3>4
  <2>4. Direction(x, y)  BY <1>1, <1>2, <2>3, DirectionTaken
  <2>5. Nothing(x, y, trusted)
    <3>1. SUFFICES ASSUME ~trusted PROVE NoData(x.out) /\ y.received = <<>>
      BY DEF Nothing
    <3>2. NoData(d.out) /\ c.received = <<>>  BY <2>1, <3>1 DEF Nothing
    <3>3. y.received = c.received
      BY <2>0, <3>2 DEF Takes, TakesHello, TakesKeys, TakesData, TakesClose, TakesGarbage,
                        Still
    <3>4. QED  BY <1>2, <3>2, <3>3
  <2>6. s # "client"  BY <1>10
  <2>7. QED  BY <1>4, <1>6, <1>7, <1>8, <2>6, <2>1, <2>2, <2>4, <2>5 DEF Pair, Exchange
<1>11. QED  BY <1>9, <1>10 DEF Sides

\* What a side has handed over stays in front of what it adds.
Extends(c, x) ==
  /\ c.out # <<>> => x.out # <<>> /\ x.out[1] = c.out[1]
  /\ c.hole => x.hole
  /\ c.hole /\ NoData(c.out) => NoData(x.out)

LEMMA SendsExtends ==
  ASSUME NEW c \in Connection, NEW x, NEW e \in Record, Sends(c, x, e)
  PROVE  Extends(c, x)
<1>0. c.out \in Seq(Record) /\ Plain("garbage") \in Record /\ Plain("garbage").kind # "data"
  BY PlainRecord DEF Connection, RecordKinds
<1>1. c.hole => x.hole  BY DEF Sends
<1>2. CASE x.out = c.out  BY <1>1, <1>2 DEF Extends
<1>3. CASE x.out # c.out
  <2>1. PICK r \in Record :
               x.out = Append(c.out, r) /\ (c.hole => r = Plain("garbage"))
    BY <1>0, <1>3 DEF Sends
  <2>2. /\ Len(x.out) = Len(c.out) + 1 /\ x.out[Len(c.out) + 1] = r
        /\ \A k \in 1..Len(c.out) : x.out[k] = c.out[k]
        /\ Len(c.out) \in Nat
    BY <1>0, <2>1, AppendProperties
  <2>3. c.out # <<>> => x.out # <<>> /\ x.out[1] = c.out[1]
    BY <1>0, <2>2, EmptySeq
  <2>4. c.hole /\ NoData(c.out) => NoData(x.out)
    <3>1. SUFFICES ASSUME c.hole, NoData(c.out), NEW k \in 1..Len(x.out)
                   PROVE  x.out[k].kind # "data"
      BY DEF NoData
    <3>2. CASE k = Len(c.out) + 1  BY <1>0, <2>1, <2>2, <3>1, <3>2
    <3>3. CASE k # Len(c.out) + 1
      <4>1. k \in 1..Len(c.out)  BY <2>2, <3>3
      <4>2. QED  BY <2>2, <3>1, <4>1 DEF NoData
    <3>4. QED  BY <3>2, <3>3
  <2>5. QED  BY <1>1, <2>3, <2>4 DEF Extends
<1>4. QED  BY <1>2, <1>3

\* An active side sends, or closes its channel.
LEMMA ActiveStep ==
  ASSUME NEW s \in Sides, NEW c, NEW d, NEW pre, NEW trusted, NEW x \in Connection,
         Pair(s, c, d, pre, trusted), c.endpoint = "active",
         x.endpoint \in {"active", "closed"}, x.received = c.received, Extends(c, x),
         x.localClosed => x.endpoint = "closed", Direction(x, d),
         s = "client" /\ ~trusted => NoData(x.out)
  PROVE  Pair(s, x, d, pre, trusted)
<1>1. /\ Sound(c) /\ Sound(d) /\ c \in Connection /\ d \in Connection
      /\ Direction(c, d) /\ Direction(d, c)
  BY PairFacts
<1>2. Sound(x)  BY <1>1 DEF Sound
<1>3. Direction(d, x)
  <2>1. Listens(x) => Listens(c) /\ x.received = c.received  BY DEF Listens
  <2>2. PlainSends(d, d) /\ Owes(d, d)  BY DEF PlainSends, SendsNothing, Owes
  <2>3. QED  BY <1>1, <2>1, <2>2, DirectionKept
<1>4. CASE s = "client"
  <2>1. Handshake(c, d, pre) /\ Nothing(c, d, trusted) /\ trusted \in BOOLEAN
    BY <1>4 DEF Pair, Exchange
  <2>2. pre = <<>> /\ d.endpoint \notin {"idle", "hello", "keys"}
    BY <2>1 DEF Handshake, BeforeHello, ServerKeys
  <2>3. x.endpoint \notin {"idle", "hello", "keys", "reset"}  OBVIOUS
  <2>4. Handshake(x, d, pre)
    BY <2>2, <2>3 DEF Handshake, BeforeHello, ClientHello, ServerKeys, ClientKeys
  <2>5. Nothing(x, d, trusted)  BY <1>4, <2>1 DEF Nothing
  <2>6. QED  BY <1>1, <1>2, <1>3, <1>4, <2>1, <2>4, <2>5 DEF Pair, Exchange
<1>5. CASE s = "server"
  <2>1. Handshake(d, c, pre) /\ Nothing(d, c, trusted) /\ trusted \in BOOLEAN
    BY <1>5 DEF Pair, Exchange
  <2>2. pre = <<>> /\ d.endpoint \notin {"idle", "hello"}
    BY <2>1 DEF Handshake, BeforeHello, ClientHello
  <2>3. x.endpoint \notin {"idle", "hello", "keys", "reset"}  OBVIOUS
  <2>4. ClientKeys(d, x)
    <3>1. SUFFICES ASSUME d.endpoint = "keys" PROVE ClientKeys(d, x)
      BY DEF ClientKeys
    <3>2. /\ NoData(d.out)
          /\ NoData(c.out) \/ c.out[1].kind = "keys"
          /\ ~c.hole => c.out # <<>> /\ c.out[1].kind = "keys"
      BY <2>1, <3>1 DEF Handshake, ClientKeys
    <3>3. NoData(<<>>)  BY DEF NoData
    <3>4. CASE ~c.hole  BY <3>2, <3>4 DEF ClientKeys, Extends
    <3>5. CASE c.hole /\ NoData(c.out)  BY <3>2, <3>5 DEF ClientKeys, Extends
    <3>6. CASE c.hole /\ c.out # <<>> /\ c.out[1].kind = "keys"
      BY <3>2, <3>6 DEF ClientKeys, Extends
    <3>7. QED  BY <3>2, <3>3, <3>4, <3>5, <3>6
  <2>5. Handshake(d, x, pre)
    BY <2>2, <2>3, <2>4 DEF Handshake, BeforeHello, ClientHello, ServerKeys
  <2>6. Nothing(d, x, trusted)  BY <2>1 DEF Nothing
  <2>7. s # "client"  BY <1>5
  <2>8. QED  BY <1>1, <1>2, <1>3, <2>7, <2>1, <2>5, <2>6 DEF Pair, Exchange
<1>6. QED  BY <1>4, <1>5 DEF Sides

-----------------------------------------------------------------------------
(* What an active side does.                                               *)

\* The blocks b, which follow what is under way, are handed over: Send() on an
\* active channel, and the queue after the handshake.
LEMMA DataSent ==
  ASSUME NEW s \in Sides, NEW c, NEW d, NEW pre, NEW trusted, NEW b \in Seq(Nat),
         NEW x \in Connection,
         Pair(s, c, d, pre, trusted), c.endpoint = "active", s = "client" => trusted,
         Sends(c, x, Data(b)), x.endpoint = "active", x.received = c.received,
         x.localClosed = c.localClosed, x.queued = <<>>,
         \A last \in Nat : Run(c.queued, last, c.accepted) => Run(b, last, x.accepted)
  PROVE  Pair(s, x, d, pre, trusted)
<1>1. /\ Sound(c) /\ Sound(d) /\ c \in Connection /\ d \in Connection
      /\ Direction(c, d) /\ Direction(d, c)
  BY PairFacts
<1>2. Data(b) \in Record /\ Data(b).blocks = b  BY DataRecord
<1>3. Extends(c, x)  BY <1>1, <1>2, SendsExtends
<1>4. Direction(x, d)
  <2> SUFFICES ASSUME Listens(d)
               PROVE  \E last \in Nat : Carried(x.out, Len(d.received), last) /\ Accounts(x, last)
    BY DEF Direction
  <2>1. PICK last \in Nat : Carried(c.out, Len(d.received), last) /\ Accounts(c, last)
    BY <1>1 DEF Direction
  <2>2. /\ c.out \in Seq(Record) /\ Len(d.received) \in Nat /\ x.accepted \in Nat
        /\ c.hole \in BOOLEAN /\ x.hole \in BOOLEAN
    BY <1>1, LenProperties DEF Connection
  <2>3. CASE ~x.hole
    <3>1. ~c.hole /\ x.out = Append(c.out, Data(b))  BY <2>3 DEF Sends
    <3>2. Run(c.queued, last, c.accepted)
      BY <2>1, <3>1 DEF Accounts, Listens
    <3>3. Run(Data(b).blocks, last, x.accepted)  BY <1>2, <3>2
    <3>4. Carried(x.out, Len(d.received), x.accepted)
      BY <1>2, <2>1, <2>2, <3>1, <3>3, CarriedAppend
    <3>5. Run(x.queued, x.accepted, x.accepted)  BY <2>2, EmptyRun
    <3>6. Accounts(x, x.accepted)  BY <3>5 DEF Accounts
    <3>7. QED  BY <2>2, <3>4, <3>6
  <2>4. CASE x.hole
    <3>1. Accounts(x, last)  BY <2>4 DEF Accounts
    <3>2. CASE x.out = c.out  BY <2>1, <3>1, <3>2
    <3>3. CASE c.hole /\ x.out = Append(c.out, Plain("garbage"))
      <4>1. Plain("garbage") \in Record /\ Plain("garbage").blocks = <<>>
        BY PlainRecord DEF Plain, RecordKinds
      <4>2. Run(Plain("garbage").blocks, last, last)  BY <4>1, EmptyRun
      <4>3. Carried(x.out, Len(d.received), last)
        BY <2>1, <2>2, <3>3, <4>1, <4>2, CarriedAppend
      <4>4. QED  BY <3>1, <4>3
    <3>4. CASE ~c.hole /\ ~x.hole /\ x.out = Append(c.out, Data(b))
      BY <2>4, <3>4
    <3>5. QED  BY <3>2, <3>3, <3>4 DEF Sends
  <2>5. QED  BY <2>2, <2>3, <2>4
<1>5. ~x.localClosed  BY <1>1 DEF Sound
<1>6. QED  BY <1>1, <1>3, <1>4, <1>5, ActiveStep

\* CloseEndpoint() on an active channel that owes nothing, or of a client that
\* does not trust the server.
LEMMA ChannelClosed ==
  ASSUME NEW s \in Sides, NEW c, NEW d, NEW pre, NEW trusted, NEW x \in Connection,
         Pair(s, c, d, pre, trusted), c.endpoint = "active",
         Sends(c, x, Plain("close")), x.endpoint = "closed", x.received = c.received,
         x.closedAt = c.accepted,
         x.localClosed => c.queued = <<>>
  PROVE  Pair(s, x, d, pre, trusted)
<1>1. /\ Sound(c) /\ Sound(d) /\ c \in Connection /\ d \in Connection
      /\ Direction(c, d) /\ Direction(d, c)
  BY PairFacts
<1>2. Plain("close") \in Record /\ Plain("close").kind # "data"
  BY PlainRecord DEF RecordKinds
<1>3. PlainSends(c, x)  BY DEF PlainSends, RecordKinds
<1>4. Extends(c, x)  BY <1>1, <1>2, SendsExtends
<1>5. Direction(x, d)
  <2> SUFFICES ASSUME Listens(d)
               PROVE  \E last \in Nat : Carried(x.out, Len(d.received), last) /\ Accounts(x, last)
    BY DEF Direction
  <2>1. PICK last \in Nat : Carried(c.out, Len(d.received), last) /\ Accounts(c, last)
    BY <1>1 DEF Direction
  <2>2. Len(d.received) \in Nat /\ c.accepted \in Nat
    BY <1>1, LenProperties DEF Connection
  <2>3. Carried(x.out, Len(d.received), last) /\ (c.hole => x.hole)
    BY <1>1, <1>3, <2>1, <2>2, PlainSendsCarried
  <2>4. Accounts(x, last)
    <3>1. ASSUME ~x.hole, x.localClosed PROVE last = x.closedAt
      <4>1. Run(<<>>, last, c.accepted)
        BY <2>1, <2>3, <3>1 DEF Accounts, Listens
      <4>2. QED  BY <2>2, <4>1, EmptyRun
    <3>2. ~Listens(x)  BY DEF Listens
    <3>3. QED  BY <3>1, <3>2 DEF Accounts
  <2>5. QED  BY <2>3, <2>4
<1>6. s = "client" /\ ~trusted => NoData(x.out)
  <2>1. s = "client" /\ ~trusted => NoData(c.out)
    BY DEF Pair, Exchange, Nothing
  <2>2. NoData(c.out) => NoData(x.out)  BY <1>1, <1>3, PlainSendsNoData
  <2>3. QED  BY <2>1, <2>2
<1>7. QED  BY <1>1, <1>4, <1>5, <1>6, ActiveStep

\* Shutdown() on an active channel, or put off until after the handshake.
LEMMA LocallyClosed ==
  ASSUME NEW s \in Sides, NEW c, NEW d, NEW pre, NEW trusted, NEW x,
         Pair(s, c, d, pre, trusted), c.endpoint = "active", c.queued = <<>>,
         x = CloseLocally(c)
  PROVE  Pair(s, x, d, pre, trusted) /\ x \in Connection /\ x.endpoint = "closed"
<1>1. c \in Connection  BY PairFacts
<1>2. PICK y : y = Closed(c)  OBVIOUS
<1>3. /\ y \in Connection /\ Keeps(c, y) /\ y.received = c.received
      /\ y.endpoint = "closed" /\ y.closedAt = c.accepted
      /\ Sends(c, y, Plain("close"))
  BY <1>1, <1>2, ClosedIs
<1>4. x = [y EXCEPT !.localClosed = TRUE, !.shut = TRUE]
  BY <1>2 DEF CloseLocally
<1>5. /\ x \in Connection /\ x.received = c.received /\ x.endpoint = "closed"
      /\ x.closedAt = c.accepted /\ x.out = y.out /\ x.hole = y.hole
  BY <1>3, <1>4 DEF Connection
<1>6. Sends(c, x, Plain("close"))  BY <1>3, <1>5 DEF Sends
<1>7. QED  BY <1>5, <1>6, ChannelClosed

\* The end of a piece.
LEMMA PieceEnds ==
  ASSUME NEW s \in Sides, NEW c, NEW d, NEW pre, NEW x,
         Pair(s, c, d, pre, verified), x = AfterPiece(s, c)
  PROVE  /\ Pair(s, x, d, pre, verified)
         /\ Settled(s, x, verified)
<1>1. Sound(c) /\ c \in Connection  BY PairFacts
<1>2. CASE c.endpoint # "active"
  <2>1. x = c  BY <1>2 DEF AfterPiece, CloseIfAsked, Flush
  <2>2. QED  BY <1>2, <2>1 DEF Settled
<1>3. CASE c.endpoint = "active" /\ Mistrusts(s)
  <2>1. x = [Closed(c) EXCEPT !.shut = TRUE]  BY <1>3 DEF AfterPiece
  <2>2. PICK y : y = Closed(c)  OBVIOUS
  <2>3. /\ y \in Connection /\ Keeps(c, y) /\ y.received = c.received
        /\ y.endpoint = "closed" /\ y.closedAt = c.accepted
        /\ Sends(c, y, Plain("close"))
    BY <1>1, <2>2, ClosedIs
  <2>4. /\ x \in Connection /\ x.received = c.received /\ x.endpoint = "closed"
        /\ x.closedAt = c.accepted /\ x.out = y.out /\ x.hole = y.hole
        /\ x.localClosed = c.localClosed
    BY <2>1, <2>2, <2>3 DEF Connection, Keeps
  <2>5. Sends(c, x, Plain("close"))  BY <2>3, <2>4 DEF Sends
  <2>6. ~x.localClosed  BY <1>1, <1>3, <2>4 DEF Sound
  <2>7. Pair(s, x, d, pre, verified)  BY <1>3, <2>4, <2>5, <2>6, ChannelClosed
  <2>8. QED  BY <2>4, <2>7 DEF Settled
<1>4. CASE c.endpoint = "active" /\ ~Mistrusts(s)
  <2>0. s = "client" => verified  BY <1>4 DEF Mistrusts
  <2>1. PICK y : y = Flush(c)  OBVIOUS
  <2>2. x = CloseIfAsked(y)  BY <1>4, <2>1 DEF AfterPiece
  <2>3. Pair(s, y, d, pre, verified) /\ y.endpoint = "active" /\ y.queued = <<>>
    <3>1. CASE c.queued = <<>>
      <4>1. y = c  BY <2>1, <3>1 DEF Flush
      <4>2. QED  BY <1>4, <3>1, <4>1
    <3>2. CASE c.queued # <<>>
      <4>1. c.queued \in Seq(Nat)  BY <1>1 DEF Connection
      <4>2. PICK z : z = Output(c, Data(c.queued))  OBVIOUS
      <4>3. /\ z \in Connection /\ Sends(c, z, Data(c.queued)) /\ Still(c, z)
            /\ z.endpoint = c.endpoint
        BY <1>1, <4>1, <4>2, DataRecord, OutputSends
      <4>4. y = [z EXCEPT !.queued = <<>>]
        BY <1>4, <2>1, <3>2, <4>2 DEF Flush
      <4>5. /\ y \in Connection /\ y.endpoint = "active" /\ y.queued = <<>>
            /\ y.received = c.received /\ y.localClosed = c.localClosed
            /\ y.accepted = c.accepted /\ y.out = z.out /\ y.hole = z.hole
        BY <1>4, <4>3, <4>4, EmptySeq DEF Connection, Still, Keeps
      <4>6. Sends(c, y, Data(c.queued))  BY <4>3, <4>5 DEF Sends
      <4>7. \A last \in Nat : Run(c.queued, last, c.accepted) => Run(c.queued, last, y.accepted)
        BY <4>5
      <4>8. Pair(s, y, d, pre, verified)
        BY <1>4, <2>0, <4>1, <4>5, <4>6, <4>7, DataSent
      <4>9. QED  BY <4>5, <4>8
    <3>3. QED  BY <3>1, <3>2
  <2>4. CASE y.asked
    <3>1. x = CloseLocally(y)  BY <2>2, <2>3, <2>4 DEF CloseIfAsked
    <3>2. QED  BY <2>3, <3>1, LocallyClosed DEF Settled
  <2>5. CASE ~y.asked
    <3>1. x = y  BY <2>2, <2>5 DEF CloseIfAsked
    <3>2. QED  BY <2>0, <2>3, <3>1 DEF Settled
  <2>6. QED  BY <2>4, <2>5
<1>5. QED  BY <1>2, <1>3, <1>4

-----------------------------------------------------------------------------
(* A piece of records.                                                     *)

LEMMA Induction ==
  ASSUME NEW S \in SUBSET Nat, 0 \in S, \A n \in S : n + 1 \in S
  PROVE  \A n \in Nat : n \in S
<1> SUFFICES ASSUME Nat \ S # {} PROVE FALSE
  OBVIOUS
<1>1. PICK x \in Nat \ S : \A y \in Nat \ S : ~ (<<y, x>> \in OpToRel(<, Nat))
  BY WFMin, NatLessThanWellFounded
<1>2. x # 0 /\ x - 1 \in Nat
  BY SMT
<1>3. <<x - 1, x>> \in OpToRel(<, Nat)
  <2>1. x - 1 < x /\ x \in Nat  BY <1>2
  <2>2. QED  BY <1>2, <2>1 DEF OpToRel
<1>4. x - 1 \in S  BY <1>1, <1>2, <1>3
<1>5. (x - 1) + 1 \in S  BY <1>4
<1>6. QED  BY <1>5, <1>2

\* What EndpointReceive() has come to before a record follows from one record
\* fewer.
LEMMA ReceivedFollows ==
  ASSUME NEW s, NEW piece, Len(piece) \in Nat, NEW c, c = conn[s]
  PROVE  \E u : /\ u[1] = c /\ Received(s, piece) = u[Len(piece) + 1]
               /\ \A k \in 1..Len(piece) : u[k + 1] = Process(s, u[k], piece[k])
<1> DEFINE body(f, k) == IF k = 1 THEN c ELSE Process(s, f[k - 1], piece[k - 1])
           S == {n \in Nat : \E f : f = [k \in 1..n + 1 |-> body(f, k)]}
<1>1. 0 \in S
  <2> DEFINE f == [k \in 1..0 + 1 |-> c]
  <2>1. \A k \in 1..0 + 1 : k = 1  BY SMT
  <2>2. f = [k \in 1..0 + 1 |-> body(f, k)]  BY <2>1
  <2> HIDE DEF f
  <2>3. QED  BY <2>2
<1>2. ASSUME NEW n \in S PROVE n + 1 \in S
  <2>1. PICK f : f = [k \in 1..n + 1 |-> body(f, k)]  OBVIOUS
  <2> DEFINE g == [k \in 1..(n + 1) + 1 |-> body(f, k)]
  <2>2. ASSUME NEW k \in 1..n + 1 PROVE g[k] = f[k]
    <3>1. f[k] = body(f, k)  BY <2>1
    <3>2. k \in 1..(n + 1) + 1  BY SMT
    <3> HIDE DEF body
    <3>3. QED  BY <3>1, <3>2
  <2>3. ASSUME NEW k \in 1..(n + 1) + 1 PROVE body(g, k) = body(f, k)
    <3> HIDE DEF g
    <3>1. CASE k = 1  BY <3>1
    <3>2. CASE k # 1
      <4>1. k - 1 \in 1..n + 1  BY <3>2, SMT
      <4>2. g[k - 1] = f[k - 1]  BY <2>2, <4>1
      <4>3. QED  BY <4>2
    <3>3. QED  BY <3>1, <3>2
  <2> HIDE DEF body
  <2>4. g = [k \in 1..(n + 1) + 1 |-> body(g, k)]  BY <2>3, Zenon
  <2> HIDE DEF g
  <2>5. n + 1 \in Nat  BY SMT
  <2>6. QED  BY <2>4, <2>5, Zenon
<1> HIDE DEF S
<1>3. S \in SUBSET Nat  BY DEF S
<1>4. \A n \in Nat : n \in S  BY <1>1, <1>2, <1>3, Induction
<1>5. \E f : f = [k \in 1..Len(piece) + 1 |-> body(f, k)]  BY <1>4 DEF S
<1>6. PICK u : u = CHOOSE f : f = [k \in 1..Len(piece) + 1 |-> body(f, k)]  OBVIOUS
<1>7. Received(s, piece) = u[Len(piece) + 1]
  BY <1>6, Zenon DEF Received
<1>8. u = [k \in 1..Len(piece) + 1 |-> body(u, k)]
  <2> HIDE DEF body
  <2>1. QED  BY <1>5, <1>6, Zenon
<1>9. u[1] = c
  <2>1. 1 \in 1..Len(piece) + 1  BY SMT
  <2>2. QED  BY <1>8, <2>1, Zenon
<1>10. ASSUME NEW k \in 1..Len(piece) PROVE u[k + 1] = Process(s, u[k], piece[k])
  <2>1. k + 1 \in 1..Len(piece) + 1 /\ k + 1 # 1 /\ (k + 1) - 1 = k  BY SMT
  <2>2. u[k + 1] = body(u, k + 1)
    <3> HIDE DEF body
    <3>1. QED  BY <1>8, <2>1, Zenon
  <2>3. QED  BY <2>1, <2>2, Zenon
<1>11. QED  BY <1>7, <1>9, <1>10

\* What is left under way from c after the first k - 1 records.
Left(c, k) == [c EXCEPT !.out = SubSeq(c.out, k, Len(c.out))]

LEMMA LeftFacts ==
  ASSUME NEW c \in Connection, NEW k \in 1..Len(c.out) + 1
  PROVE  /\ Left(c, k) \in Connection
         /\ k \in 1..Len(c.out) =>
              /\ Left(c, k).out # <<>> /\ Left(c, k).out[1] = c.out[k]
              /\ LosesFirst(Left(c, k), Left(c, k + 1))
         /\ Left(c, 1) = c
<1> DEFINE n == Len(c.out)
           from(j) == SubSeq(c.out, j, n)
<1>1. c.out \in Seq(Record) /\ n \in Nat  BY LenProperties DEF Connection
<1>2. \A j \in 1..n : c.out[j] \in Record  BY <1>1, ElementOfSeq
<1>3. ASSUME NEW j \in 1..n + 1
      PROVE  /\ from(j) \in Seq(Record)
             /\ Len(from(j)) = n + 1 - j
             /\ \A i \in 1..n + 1 - j : from(j)[i] = c.out[j + i - 1]
  <2>1. \A i \in j..n : c.out[i] \in Record  BY <1>1, <1>2
  <2>2. /\ from(j) \in Seq(Record)
        /\ Len(from(j)) = IF j <= n THEN n - j + 1 ELSE 0
        /\ \A i \in 1..n - j + 1 : from(j)[i] = c.out[j + i - 1]
    BY <1>1, <2>1, SubSeqProperties
  <2>3. QED  BY <1>1, <2>2
<1> HIDE DEF from
<1>4. \A j \in 1..n + 1 : /\ Left(c, j) \in Connection /\ Left(c, j).out = from(j)
  BY <1>3 DEF Left, Connection, from
<1>5. ASSUME k \in 1..n
      PROVE  /\ from(k) # <<>> /\ from(k)[1] = c.out[k]
             /\ from(k + 1) = Tail(from(k))
  <2>1. k + 1 \in 1..n + 1 /\ k \in 1..n + 1 /\ 1 \in 1..n + 1 - k  BY <1>1, <1>5
  <2>2. from(k) # <<>> /\ from(k)[1] = c.out[k]
    BY <1>1, <1>3, <2>1, EmptySeq
  <2>3. /\ Tail(from(k)) \in Seq(Record) /\ Len(Tail(from(k))) = n - k
        /\ \A i \in 1..n - k : Tail(from(k))[i] = from(k)[i + 1]
    BY <1>1, <1>3, <2>1, <2>2, HeadTailProperties
  <2> DEFINE j == k + 1
             t == from(j)
             h == from(k)
  <2>4. /\ t \in Seq(Record) /\ Len(t) = n + 1 - j
        /\ \A i \in 1..n + 1 - j : t[i] = c.out[j + i - 1]
        /\ \A i \in 1..n + 1 - k : h[i] = c.out[k + i - 1]
    <3> HIDE DEF j
    <3>1. j \in 1..n + 1  BY <2>1 DEF j
    <3>2. QED  BY <1>3, <2>1, <3>1
  <2> HIDE DEF t, h
  <2>a. n \in Int /\ k \in Int /\ k >= 1  BY <1>1, <1>5
  <2> HIDE DEF n
  <2>5. n + 1 - j = n - k /\ j \in Int /\ j = k + 1  BY <2>a
  <2> HIDE DEF j
  <2>6. ASSUME NEW i \in 1..n - k PROVE t[i] = h[i + 1]
    <3>1. i \in 1..n + 1 - j /\ i + 1 \in 1..n + 1 - k  BY <2>a, <2>5
    <3>2. j + i - 1 = k + (i + 1) - 1  BY <2>a, <2>5
    <3>3. t[i] = c.out[j + i - 1]  BY <2>4, <3>1
    <3>4. h[i + 1] = c.out[k + (i + 1) - 1]  BY <2>4, <3>1
    <3>5. QED  BY <3>2, <3>3, <3>4
  <2>7. t = Tail(h)  BY <2>3, <2>4, <2>5, <2>6, SeqEqual DEF h
  <2>8. QED  BY <2>2, <2>7 DEF t, h, j
<1>6. from(1) = c.out
  <2>1. 1 \in 1..n + 1 /\ n + 1 - 1 = n  BY <1>1
  <2>2. \A i \in 1..n : 1 + i - 1 = i  BY <1>1
  <2>3. Len(from(1)) = n /\ from(1) \in Seq(Record)
        /\ \A i \in 1..n : from(1)[i] = c.out[i]
    BY <1>3, <2>1, <2>2
  <2>4. QED  BY <1>1, <2>3, SeqEqual
<1>7. k \in 1..n => LosesFirst(Left(c, k), Left(c, k + 1))
  <2>1. SUFFICES ASSUME k \in 1..n PROVE LosesFirst(Left(c, k), Left(c, k + 1))
    OBVIOUS
  <2>2. k + 1 \in 1..n + 1  BY <1>1, <2>1
  <2>3. from(k + 1) = Tail(from(k))  BY <1>5, <2>1
  <2>4. QED  BY <2>1, <2>2, <2>3 DEF LosesFirst, Left, Connection, from
<1>8. Left(c, 1) = c
  <2>1. SubSeq(c.out, 1, n) = c.out  BY <1>6 DEF from
  <2>2. QED  BY <2>1 DEF Left, Connection
<1>9. QED  BY <1>4, <1>5, <1>7, <1>8

\* A side takes the first n records that are under way to it.
LEMMA PieceTaken ==
  ASSUME NEW s \in Sides, NEW c, NEW d, NEW pre, NEW n \in 0..Len(d.out),
         NEW piece, NEW x, c = conn[s],
         Pair(s, c, d, pre, verified), c.endpoint \notin {"idle", "reset"},
         Len(piece) = n, \A k \in 1..n : piece[k] = d.out[k],
         x = Received(s, piece)
  PROVE  Pair(s, x, Left(d, n + 1), pre, verified)
<1>1. d \in Connection /\ c \in Connection  BY PairFacts
<1>2. /\ n \in Nat /\ Len(d.out) \in Nat /\ n <= Len(d.out)
      /\ \A k \in 1..n + 1 : k \in 1..Len(d.out) + 1
      /\ \A k \in 1..n : k \in 1..Len(d.out)
  BY <1>1, LenProperties DEF Connection
<1>3. PICK u : /\ u[1] = c /\ Received(s, piece) = u[Len(piece) + 1]
               /\ \A k \in 1..Len(piece) : u[k + 1] = Process(s, u[k], piece[k])
  BY <1>2, ReceivedFollows
<1> DEFINE P(k) == /\ Pair(s, u[k], Left(d, k), pre, verified)
                   /\ u[k].endpoint \notin {"idle", "reset"}
           S == {k \in Nat : k <= n => P(k + 1)}
<1>4. P(1)  BY <1>1, <1>2, <1>3, LeftFacts
<1>5. ASSUME NEW k \in 1..n, P(k) PROVE P(k + 1)
  <2>1. PICK a : a = u[k]  OBVIOUS
  <2>2. PICK b : b = Left(d, k)  OBVIOUS
  <2>3. PICK e : e = Left(d, k + 1)  OBVIOUS
  <2>4. PICK y : y = u[k + 1]  OBVIOUS
  <2>5. k \in 1..Len(d.out) /\ k \in 1..Len(d.out) + 1  BY <1>2
  <2>6. b.out # <<>> /\ b.out[1] = d.out[k] /\ LosesFirst(b, e)
    BY <1>1, <2>2, <2>3, <2>5, LeftFacts
  <2>7. d.out[k] \in Record
    BY <1>1, <2>5, ElementOfSeq DEF Connection
  <2>8. Pair(s, a, b, pre, verified) /\ a.endpoint \notin {"idle", "reset"}
    BY <1>5, <2>1, <2>2
  <2>9. a \in Connection  BY <2>8, PairFacts
  <2>10. y = Process(s, a, d.out[k])  BY <1>3, <2>1, <2>4
  <2>11. y \in Connection /\ Takes(s, a, b.out[1], y)
    BY <2>6, <2>7, <2>9, <2>10, ProcessTakes
  <2>12. Pair(s, y, e, pre, verified) /\ y.endpoint \notin {"idle", "reset"}
    BY <2>6, <2>8, <2>11, PairTakes
  <2>13. QED  BY <2>3, <2>4, <2>12
<1> HIDE DEF P
<1>6. 0 \in S  BY <1>4
<1>7. ASSUME NEW k \in S PROVE k + 1 \in S
  <2>1. SUFFICES ASSUME k + 1 <= n PROVE P((k + 1) + 1)
    OBVIOUS
  <2>2. k <= n /\ k + 1 \in 1..n  BY <1>2, <2>1
  <2>3. P(k + 1)  BY <2>2
  <2>4. QED  BY <1>5, <2>2, <2>3
<1> HIDE DEF S
<1>8. S \in SUBSET Nat  BY DEF S
<1>9. n \in S  BY <1>2, <1>6, <1>7, <1>8, Induction
<1>10. P(n + 1)  BY <1>2, <1>9 DEF S
<1>11. QED  BY <1>3, <1>10 DEF P

-----------------------------------------------------------------------------
(* The invariant, seen from one side.                                      *)

LEMMA OtherSide ==
  ASSUME NEW s \in Sides
  PROVE  Other(s) \in Sides /\ Other(s) # s /\ Sides = {s, Other(s)}
BY DEF Sides, Other

LEMMA InvPair ==
  ASSUME Inv, NEW s \in Sides, NEW c, NEW d, c = conn[s], d = conn[Other(s)]
  PROVE  /\ Pair(s, c, d, preCert, verified)
         /\ Settled(s, c, verified) /\ Settled(Other(s), d, verified)
         /\ c \in Connection /\ d \in Connection
<1>1. Pair(s, c, d, preCert, verified)
  BY DEF Inv, Pair, Sides, Other
<1>2. Settled(s, c, verified) /\ Settled(Other(s), d, verified)
  BY OtherSide DEF Inv
<1>3. QED  BY <1>1, <1>2, PairFacts

\* A step whose effect on the side s, and the other, is known.
LEMMA PairInv ==
  ASSUME Inv, NEW s \in Sides, NEW x, NEW y,
         conn' \in [Sides -> Connection], conn'[s] = x, conn'[Other(s)] = y,
         Pair(s, x, y, preCert', verified'),
         Settled(s, x, verified'), Settled(Other(s), y, verified')
  PROVE  Inv'
<1>1. Exchange(conn'["client"], conn'["server"], preCert', verified')
  BY DEF Pair, Sides, Other
<1>2. \A t \in Sides : Settled(t, conn'[t], verified')
  BY OtherSide
<1>3. QED  BY <1>1, <1>2 DEF Inv

\* One side changes.
LEMMA OwnInv ==
  ASSUME Inv, NEW s \in Sides, NEW c, NEW x, c = conn[s], x \in Connection,
         conn' = [conn EXCEPT ![s] = x], preCert' = preCert, verified' = verified,
         Pair(s, c, conn[Other(s)], preCert, verified) =>
           Pair(s, x, conn[Other(s)], preCert, verified),
         Settled(s, x, verified)
  PROVE  Inv'
<1>1. PICK d : d = conn[Other(s)]  OBVIOUS
<1>2. /\ Pair(s, c, d, preCert, verified) /\ Settled(Other(s), d, verified)
      /\ d \in Connection
  BY <1>1, InvPair
<1>3. conn \in [Sides -> Connection]  BY DEF Inv
<1>4. conn' \in [Sides -> Connection] /\ conn'[s] = x /\ conn'[Other(s)] = d
  BY <1>1, <1>3, OtherSide
<1>5. Pair(s, x, d, preCert', verified')  BY <1>1, <1>2
<1>6. Settled(s, x, verified') /\ Settled(Other(s), d, verified')  BY <1>2
<1>7. QED  BY <1>4, <1>5, <1>6, PairInv

LEMMA InitInv == Init => Inv
<1> SUFFICES ASSUME Init PROVE Inv  OBVIOUS
<1> DEFINE c == NewConnection
<1>1. conn = [s \in Sides |-> c] /\ preCert = <<>> /\ verified \in BOOLEAN
  BY DEF Init
<1>2. /\ c \in Connection /\ c.endpoint = "idle" /\ c.out = <<>> /\ c.received = <<>>
      /\ c.queued = <<>> /\ c.accepted = 0 /\ ~c.hole /\ ~c.localClosed
  BY EmptySeq DEF NewConnection, Connection, Endpoints
<1> HIDE DEF c
<1>3. conn \in [Sides -> Connection] /\ conn["client"] = c /\ conn["server"] = c
  BY <1>1, <1>2 DEF Sides
<1>4. Len(<<>>) = 0 /\ Run(<<>>, 0, 0)  BY EmptyRun
<1>5. Sound(c)  BY <1>2, <1>4 DEF Sound
<1>6. Direction(c, c)
  <2>1. Carried(c.out, Len(c.received), 0)  BY <1>2, <1>4, CarriedNone
  <2>2. Accounts(c, 0)  BY <1>2, <1>4 DEF Accounts
  <2>3. QED  BY <2>1, <2>2 DEF Direction
<1>7. Handshake(c, c, preCert)
  BY <1>1, <1>2 DEF Handshake, BeforeHello, ClientHello, ServerKeys, ClientKeys
<1>8. Nothing(c, c, verified)  BY <1>2, <1>4 DEF Nothing, NoData
<1>9. \A s \in Sides : Settled(s, conn[s], verified)
  BY <1>1, <1>2 DEF Settled
<1>10. QED  BY <1>1, <1>3, <1>5, <1>6, <1>7, <1>8, <1>9 DEF Inv, Exchange

-----------------------------------------------------------------------------
(* The application's calls.                                                *)

\* A step that leaves the handshake and what is under way alone.
LEMMA QuietStep ==
  ASSUME NEW s \in Sides, NEW c, NEW d, NEW pre, NEW trusted, NEW x \in Connection,
         Pair(s, c, d, pre, trusted),
         x.endpoint = c.endpoint, x.out = c.out, x.hole = c.hole,
         x.localClosed = c.localClosed, x.received = c.received,
         Direction(c, d) => Direction(x, d)
  PROVE  Pair(s, x, d, pre, trusted)
<1>1. /\ Sound(c) /\ Sound(d) /\ c \in Connection /\ d \in Connection
      /\ Direction(c, d) /\ Direction(d, c)
  BY PairFacts
<1>2. Sound(x) /\ Direction(x, d)  BY <1>1 DEF Sound
<1>3. Direction(d, x)  BY <1>1 DEF Direction, Listens
<1>4. CASE s = "client"
  <2>1. Handshake(c, d, pre) /\ Nothing(c, d, trusted) /\ trusted \in BOOLEAN
    BY <1>4 DEF Pair, Exchange
  <2>2. Handshake(x, d, pre) /\ Nothing(x, d, trusted)
    BY <2>1 DEF Handshake, BeforeHello, ClientHello, ServerKeys, ClientKeys, Nothing
  <2>3. QED  BY <1>1, <1>2, <1>3, <1>4, <2>1, <2>2 DEF Pair, Exchange
<1>5. CASE s = "server"
  <2>1. Handshake(d, c, pre) /\ Nothing(d, c, trusted) /\ trusted \in BOOLEAN
    BY <1>5 DEF Pair, Exchange
  <2>2. Handshake(d, x, pre) /\ Nothing(d, x, trusted)
    BY <2>1 DEF Handshake, BeforeHello, ClientHello, ServerKeys, ClientKeys, Nothing
  <2>3. s # "client"  BY <1>5
  <2>4. QED  BY <1>1, <1>2, <1>3, <2>3, <2>1, <2>2 DEF Pair, Exchange
<1>6. QED  BY <1>4, <1>5 DEF Sides

LEMMA SendInv == ASSUME Inv, NEW s \in Sides, Send(s) PROVE Inv'
<1>1. PICK c : c = conn[s]  OBVIOUS
<1>2. PICK d : d = conn[Other(s)]  OBVIOUS
<1>3. PICK b : b = [c EXCEPT !.accepted = @ + 1]  OBVIOUS
<1>4. PICK x : x = IF b.endpoint = "active" THEN Output(b, Data(<<b.accepted>>))
                   ELSE [b EXCEPT !.queued = Append(@, b.accepted)]
  OBVIOUS
<1>5. /\ conn' = [conn EXCEPT ![s] = x] /\ preCert' = preCert /\ verified' = verified
      /\ c.endpoint # "reset"
  BY <1>1, <1>3, <1>4 DEF Send
<1>6. /\ Pair(s, c, d, preCert, verified)
      /\ Settled(s, c, verified) /\ Settled(Other(s), d, verified)
      /\ c \in Connection /\ d \in Connection
  BY <1>1, <1>2, InvPair
<1>7. c.accepted \in Nat /\ c.queued \in Seq(Nat)  BY <1>6 DEF Connection
<1>8. /\ b \in Connection /\ b.accepted = c.accepted + 1 /\ b.endpoint = c.endpoint
      /\ b.queued = c.queued /\ b.received = c.received /\ b.out = c.out /\ b.hole = c.hole
      /\ b.localClosed = c.localClosed /\ b.closedAt = c.closedAt
  <2>1. PICK n \in Nat : n = c.accepted + 1  BY <1>7
  <2>2. b = [c EXCEPT !.accepted = n]  BY <1>3, <2>1
  <2>3. QED  BY <1>6, <2>1, <2>2 DEF Connection
<1>9. CASE c.endpoint = "active"
  <2>1. x = Output(b, Data(<<b.accepted>>))  BY <1>4, <1>8, <1>9
  <2>2. <<b.accepted>> \in Seq(Nat)  BY <1>7, <1>8
  <2>3. /\ x \in Connection /\ Sends(b, x, Data(<<b.accepted>>)) /\ Still(b, x)
        /\ x.endpoint = b.endpoint
    BY <1>8, <2>1, <2>2, DataRecord, OutputSends
  <2>4. c.queued = <<>> /\ (s = "client" => verified)  BY <1>6, <1>9 DEF Settled
  <2>5. /\ Sends(c, x, Data(<<b.accepted>>)) /\ x.endpoint = "active"
        /\ x.received = c.received /\ x.localClosed = c.localClosed /\ x.queued = <<>>
        /\ x.accepted = b.accepted
    BY <1>8, <1>9, <2>3, <2>4 DEF Sends, Still, Keeps
  <2>6. ASSUME NEW last \in Nat, Run(c.queued, last, c.accepted)
        PROVE  Run(<<b.accepted>>, last, x.accepted)
    <3>1. c.accepted = last  BY <1>7, <2>4, <2>6, EmptyRun
    <3>2. QED  BY <1>7, <1>8, <2>5, <3>1 DEF Run
  <2>7. Pair(s, x, d, preCert, verified)
    BY <1>6, <1>9, <2>2, <2>3, <2>4, <2>5, <2>6, DataSent
  <2>8. Settled(s, x, verified)  BY <2>4, <2>5 DEF Settled
  <2>9. QED  BY <1>1, <1>2, <1>5, <2>3, <2>7, <2>8, OwnInv
<1>10. CASE c.endpoint # "active"
  <2>1. x = [b EXCEPT !.queued = Append(c.queued, c.accepted + 1)]
    BY <1>4, <1>8, <1>10
  <2>2. Append(c.queued, c.accepted + 1) \in Seq(Nat)  BY <1>7, AppendProperties
  <2>3. /\ x \in Connection /\ x.endpoint = c.endpoint /\ x.out = c.out /\ x.hole = c.hole
        /\ x.localClosed = c.localClosed /\ x.received = c.received
        /\ x.queued = Append(c.queued, c.accepted + 1) /\ x.accepted = c.accepted + 1
        /\ x.closedAt = c.closedAt
    BY <1>8, <2>1, <2>2 DEF Connection
  <2>4. Direction(c, d) => Direction(x, d)
    <3>1. ASSUME NEW last \in Nat, Accounts(c, last) PROVE Accounts(x, last)
      <4>1. Run(c.queued, last, c.accepted) => Run(x.queued, last, x.accepted)
        BY <1>7, <2>3, RunAppend
      <4>2. QED  BY <2>3, <3>1, <4>1 DEF Accounts, Listens
    <3>2. QED  BY <2>3, <3>1 DEF Direction
  <2>5. Pair(s, x, d, preCert, verified)  BY <1>6, <2>3, <2>4, QuietStep
  <2>6. Settled(s, x, verified)  BY <1>10, <2>3 DEF Settled
  <2>7. QED  BY <1>1, <1>2, <1>5, <2>3, <2>5, <2>6, OwnInv
<1>11. QED  BY <1>9, <1>10

LEMMA ShutdownInv == ASSUME Inv, NEW s \in Sides, Shutdown(s) PROVE Inv'
<1>1. PICK c : c = conn[s]  OBVIOUS
<1>2. PICK d : d = conn[Other(s)]  OBVIOUS
<1>3. PICK b : b = [c EXCEPT !.asked = TRUE]  OBVIOUS
<1>4. PICK x : x = IF b.endpoint = "active" THEN CloseLocally(b) ELSE b  OBVIOUS
<1>5. /\ conn' = [conn EXCEPT ![s] = x] /\ preCert' = preCert /\ verified' = verified
  BY <1>1, <1>3, <1>4 DEF Shutdown
<1>6. /\ Pair(s, c, d, preCert, verified)
      /\ Settled(s, c, verified) /\ Settled(Other(s), d, verified)
      /\ c \in Connection /\ d \in Connection
  BY <1>1, <1>2, InvPair
<1>7. /\ b \in Connection /\ b.accepted = c.accepted /\ b.endpoint = c.endpoint
      /\ b.queued = c.queued /\ b.received = c.received /\ b.out = c.out /\ b.hole = c.hole
      /\ b.localClosed = c.localClosed /\ b.closedAt = c.closedAt
  BY <1>3, <1>6 DEF Connection
<1>8. Direction(c, d) => Direction(b, d)
  <2>1. \A last \in Nat : Accounts(c, last) => Accounts(b, last)
    BY <1>7 DEF Accounts, Listens
  <2>2. QED  BY <1>7, <2>1 DEF Direction
<1>9. Pair(s, b, d, preCert, verified)  BY <1>6, <1>7, <1>8, QuietStep
<1>10. Settled(s, b, verified)  BY <1>6, <1>7 DEF Settled
<1>11. CASE c.endpoint = "active"
  <2>1. x = CloseLocally(b) /\ b.queued = <<>>
    BY <1>4, <1>6, <1>7, <1>11 DEF Settled
  <2>2. Pair(s, x, d, preCert, verified) /\ x \in Connection /\ x.endpoint = "closed"
    BY <1>7, <1>9, <1>11, <2>1, LocallyClosed
  <2>3. Settled(s, x, verified)  BY <2>2 DEF Settled
  <2>4. QED  BY <1>1, <1>2, <1>5, <2>2, <2>3, OwnInv
<1>12. CASE c.endpoint # "active"
  <2>1. x = b  BY <1>4, <1>7, <1>12
  <2>2. QED  BY <1>1, <1>2, <1>5, <1>7, <1>9, <1>10, <2>1, OwnInv
<1>13. QED  BY <1>11, <1>12

\* A side is closed, with n of its records left under way; to the other goes
\* what was, or nothing.
LEMMA ResetStep ==
  ASSUME NEW s \in Sides, NEW c, NEW d, NEW pre, NEW trusted,
         NEW x \in Connection, NEW y \in Connection, NEW n \in 0..Len(c.out),
         Pair(s, c, d, pre, trusted), c.endpoint # "idle",
         x.endpoint = "reset", x.out = SubSeq(c.out, 1, n), x.hole = c.hole,
         x.localClosed = c.localClosed, x.received = c.received,
         y.endpoint = d.endpoint, y.out \in {<<>>, d.out}, y.hole = d.hole,
         y.localClosed = d.localClosed, y.received = d.received
  PROVE  Pair(s, x, y, pre, trusted)
<1>1. /\ Sound(c) /\ Sound(d) /\ c \in Connection /\ d \in Connection
      /\ Direction(c, d) /\ Direction(d, c)
  BY PairFacts
<1>2. Sound(x) /\ Sound(y)  BY <1>1 DEF Sound
<1>3. ~Listens(x)  BY DEF Listens
<1>4. Direction(y, x)  BY <1>3 DEF Direction
<1>5. Direction(x, y)
  <2> SUFFICES ASSUME Listens(y)
               PROVE  \E last \in Nat : Carried(x.out, Len(y.received), last) /\ Accounts(x, last)
    BY DEF Direction
  <2>1. PICK last \in Nat : Carried(c.out, Len(d.received), last)
    BY <1>1 DEF Direction, Listens
  <2>2. c.out \in Seq(Record) /\ Len(d.received) \in Nat
    BY <1>1, LenProperties DEF Connection
  <2>3. PICK to \in Nat : Carried(x.out, Len(d.received), to)
    BY <2>1, <2>2, CarriedPrefix
  <2>4. Accounts(x, to)  BY <1>3 DEF Accounts
  <2>5. QED  BY <2>3, <2>4
<1>6. /\ Len(x.out) = n /\ \A k \in 1..n : x.out[k] = c.out[k]
      /\ x.out \in Seq(Record) /\ c.out \in Seq(Record)
      /\ Len(c.out) \in Nat /\ n \in Nat /\ n <= Len(c.out)
  <2>1. c.out \in Seq(Record) /\ x.out \in Seq(Record) /\ Len(c.out) \in Nat
        /\ n \in Nat /\ n <= Len(c.out)
    BY <1>1, LenProperties DEF Connection
  <2>2. \A k \in 1..n : c.out[k] \in Record  BY <2>1, ElementOfSeq
  <2>3. Len(x.out) = (IF 1 <= n THEN n - 1 + 1 ELSE 0)
        /\ \A k \in 1..n - 1 + 1 : x.out[k] = c.out[1 + k - 1]
    BY <2>1, <2>2, SubSeqProperties
  <2>4. n - 1 + 1 = n /\ \A k \in 1..n : 1 + k - 1 = k  BY <2>1
  <2>5. Len(x.out) = n  BY <2>1, <2>3
  <2>6. QED  BY <2>1, <2>3, <2>4, <2>5
<1>7. NoData(c.out) => NoData(x.out)  BY <1>6 DEF NoData
<1>8. NoData(d.out) => NoData(y.out)  BY DEF NoData
<1>9. c.out = <<>> => x.out = <<>>  BY <1>6, EmptySeq
<1>10. c.out \in {<<>>, <<Plain("hello")>>} => x.out \in {<<>>, <<Plain("hello")>>}
  <2>1. SUFFICES ASSUME c.out = <<Plain("hello")>> PROVE x.out \in {<<>>, <<Plain("hello")>>}
    BY <1>9
  <2>2. CASE n = 0  BY <1>6, <2>2, EmptySeq
  <2>3. CASE n # 0
    <3>1. Len(c.out) = 1 /\ c.out[1] = Plain("hello")  BY <2>1
    <3>2. n = 1  BY <1>6, <2>3, <3>1
    <3>3. Len(x.out) = 1 /\ x.out[1] = Plain("hello")  BY <1>6, <3>1, <3>2
    <3>4. x.out = <<Plain("hello")>>
      <4>1. Len(x.out) = Len(c.out) /\ \A k \in 1..Len(x.out) : x.out[k] = c.out[k]
        BY <1>6, <3>1, <3>2
      <4>2. x.out = c.out  BY <1>6, <4>1, SeqEqual
      <4>3. QED  BY <2>1, <4>2
    <3>5. QED  BY <3>4
  <2>4. QED  BY <2>2, <2>3
<1>11. c.out[1].kind = "keys" => NoData(x.out) \/ x.out[1].kind = "keys"
  <2>1. CASE n = 0  BY <1>6, <2>1 DEF NoData
  <2>2. CASE n # 0
    <3>1. 1 \in 1..n  BY <1>6, <2>2
    <3>2. QED  BY <1>6, <3>1
  <2>3. QED  BY <2>1, <2>2
<1>12. CASE s = "client"
  <2>1. Handshake(c, d, pre) /\ Nothing(c, d, trusted) /\ trusted \in BOOLEAN
    BY <1>12 DEF Pair, Exchange
  <2>2. BeforeHello(x, y, pre)
    <3>1. BeforeHello(c, d, pre)  BY <2>1 DEF Handshake
    <3>2. d.endpoint \in {"idle", "hello"} =>
            /\ y.out = <<>> /\ ~y.hole
            /\ x.out = <<>> \/ (x.out = <<Plain("hello")>> /\ pre = <<>>)
      BY <1>9, <1>10, <3>1 DEF BeforeHello
    <3>3. pre # <<>> => x.out = <<>> /\ y.out = <<>>
      BY <1>9, <3>1 DEF BeforeHello
    <3>4. QED  BY <3>1, <3>2, <3>3 DEF BeforeHello
  <2>3. ServerKeys(x, y)
    BY <1>7, <2>1 DEF Handshake, ServerKeys
  <2>4. Handshake(x, y, pre)
    BY <2>2, <2>3 DEF Handshake, ClientHello, ClientKeys
  <2>5. Nothing(x, y, trusted)  BY <1>7, <2>1 DEF Nothing
  <2>6. QED  BY <1>2, <1>4, <1>5, <1>12, <2>1, <2>4, <2>5 DEF Pair, Exchange
<1>13. CASE s = "server"
  <2>1. Handshake(d, c, pre) /\ Nothing(d, c, trusted) /\ trusted \in BOOLEAN
    BY <1>13 DEF Pair, Exchange
  <2>2. BeforeHello(y, x, pre)
    BY <1>9, <2>1 DEF Handshake, BeforeHello
  <2>3. ClientHello(y, x)
    BY <1>10, <2>1 DEF Handshake, ClientHello
  <2>4. ClientKeys(y, x)
    BY <1>7, <1>8, <1>11, <2>1 DEF Handshake, ClientKeys
  <2>5. Handshake(y, x, pre)
    BY <2>2, <2>3, <2>4 DEF Handshake, ServerKeys
  <2>6. Nothing(y, x, trusted)  BY <1>8, <2>1 DEF Nothing
  <2>7. s # "client"  BY <1>13
  <2>8. QED  BY <1>2, <1>4, <1>5, <2>7, <2>1, <2>5, <2>6 DEF Pair, Exchange
<1>14. QED  BY <1>12, <1>13 DEF Sides

\* T::Close() called here, or by the system when the other side is gone.
LEMMA CloseInv == ASSUME Inv, NEW s \in Sides, Close(s) \/ OnReset(s) PROVE Inv'
<1>1. PICK c : c = conn[s]  OBVIOUS
<1>2. PICK d : d = conn[Other(s)]  OBVIOUS
<1>3. /\ Pair(s, c, d, preCert, verified)
      /\ Settled(s, c, verified) /\ Settled(Other(s), d, verified)
      /\ c \in Connection /\ d \in Connection
  BY <1>1, <1>2, InvPair
<1>4. /\ conn \in [Sides -> Connection] /\ Other(s) \in Sides /\ Other(s) # s
  BY OtherSide DEF Inv
<1>5. preCert' = preCert /\ verified' = verified /\ c.endpoint # "idle"
  BY <1>1 DEF Close, OnReset, Open
<1>6. c.out \in Seq(Record) /\ d.out \in Seq(Record) /\ Len(c.out) \in Nat
  BY <1>3, LenProperties DEF Connection
<1>7. PICK n \in 0..Len(c.out), o \in {<<>>, d.out} :
             conn' = [conn EXCEPT ![s].out = SubSeq(c.out, 1, n), ![Other(s)].out = o,
                                  ![s].endpoint = "reset", ![s].shut = TRUE]
  <2>1. CASE Close(s)
    <3>1. PICK n \in 0..Len(c.out) :
             conn' = [conn EXCEPT ![s].out = SubSeq(@, 1, n), ![Other(s)].out = <<>>,
                                  ![s].endpoint = "reset", ![s].shut = TRUE]
      BY <1>1, <2>1 DEF Close
    <3>2. conn' = [conn EXCEPT ![s].out = SubSeq(c.out, 1, n), ![Other(s)].out = <<>>,
                               ![s].endpoint = "reset", ![s].shut = TRUE]
      BY <1>1, <1>4, <3>1
    <3>3. QED  BY <3>2
  <2>2. CASE OnReset(s)
    <3>1. conn' = [conn EXCEPT ![s].endpoint = "reset", ![s].out = <<>>, ![s].shut = TRUE]
      BY <2>2 DEF OnReset
    <3>2. SubSeq(c.out, 1, 0) = <<>>  BY <1>6
    <3>3. conn' = [conn EXCEPT ![s].out = SubSeq(c.out, 1, 0), ![Other(s)].out = d.out,
                               ![s].endpoint = "reset", ![s].shut = TRUE]
      BY <1>2, <1>4, <3>1, <3>2 DEF Connection
    <3>4. 0 \in 0..Len(c.out)  BY <1>6
    <3>5. QED  BY <3>3, <3>4
  <2>3. QED  BY <2>1, <2>2
<1>8. PICK x : x = [c EXCEPT !.out = SubSeq(c.out, 1, n), !.endpoint = "reset", !.shut = TRUE]
  OBVIOUS
<1>9. PICK y : y = [d EXCEPT !.out = o]  OBVIOUS
<1>10. SubSeq(c.out, 1, n) \in Seq(Record)
  <2>1. \A k \in 1..n : c.out[k] \in Record  BY <1>6, ElementOfSeq
  <2>2. QED  BY <1>6, <2>1, SubSeqProperties
<1>11. /\ x \in Connection /\ x.endpoint = "reset" /\ x.out = SubSeq(c.out, 1, n)
       /\ x.hole = c.hole /\ x.localClosed = c.localClosed /\ x.received = c.received
  BY <1>3, <1>8, <1>10 DEF Connection, Endpoints
<1>12. /\ y \in Connection /\ y.endpoint = d.endpoint /\ y.out \in {<<>>, d.out}
       /\ y.hole = d.hole /\ y.localClosed = d.localClosed /\ y.received = d.received
       /\ y.queued = d.queued
  <2>1. o \in Seq(Record)  BY <1>6, EmptySeq
  <2>2. QED  BY <1>3, <1>9, <2>1 DEF Connection
<1>13. Pair(s, x, y, preCert', verified')
  BY <1>3, <1>5, <1>11, <1>12, ResetStep
<1>14. Settled(s, x, verified') /\ Settled(Other(s), y, verified')
  BY <1>3, <1>5, <1>11, <1>12 DEF Settled
<1>15. conn'[s] = x /\ conn'[Other(s)] = y /\ conn' \in [Sides -> Connection]
  <2>1. conn' = [conn EXCEPT ![s] = x, ![Other(s)] = y]
    BY <1>1, <1>2, <1>4, <1>7, <1>8, <1>9
  <2>2. QED  BY <1>4, <1>11, <1>12, <2>1
<1>16. QED  BY <1>13, <1>14, <1>15, PairInv

\* The client's hello that came before the certificate is what the server takes
\* next, as if it were still under way.
LEMMA EarlyHello ==
  ASSUME NEW cl \in Connection, NEW sv \in Connection, NEW trusted, NEW y,
         Exchange(cl, sv, <<Plain("hello")>>, trusted), sv.endpoint = "hello",
         y = Process("server", sv, Plain("hello"))
  PROVE  Exchange(cl, y, <<>>, trusted) /\ y.endpoint = "keys"
<1>1. /\ Sound(cl) /\ Sound(sv) /\ Direction(cl, sv) /\ Direction(sv, cl)
      /\ Handshake(cl, sv, <<Plain("hello")>>) /\ Nothing(cl, sv, trusted)
      /\ trusted \in BOOLEAN
  BY DEF Exchange
<1>2. <<Plain("hello")>> # <<>>  OBVIOUS
<1>3. /\ cl.out = <<>> /\ sv.out = <<>> /\ cl.endpoint \in {"hello", "reset"} /\ ~sv.hole
  BY <1>1, <1>2 DEF Handshake, BeforeHello
<1>4. Plain("hello") \in Record /\ Plain("hello").kind = "hello"
  BY PlainRecord DEF RecordKinds
<1>5. PICK b : b = [cl EXCEPT !.out = <<Plain("hello")>>]  OBVIOUS
<1>6. /\ b \in Connection /\ b.out = <<Plain("hello")>> /\ b.endpoint = cl.endpoint
      /\ b.hole = cl.hole /\ b.localClosed = cl.localClosed /\ b.received = cl.received
      /\ b.queued = cl.queued /\ b.accepted = cl.accepted /\ b.closedAt = cl.closedAt
  <2>1. PICK o \in Seq(Record) : o = <<Plain("hello")>>  BY <1>4
  <2>2. b = [cl EXCEPT !.out = o]  BY <1>5, <2>1
  <2>3. QED  BY <2>1, <2>2 DEF Connection
<1>7. Sound(b)  BY <1>1, <1>6 DEF Sound
<1>8. Direction(sv, b)  BY <1>1, <1>6 DEF Direction, Listens
<1>9. Direction(b, sv)
  <2> SUFFICES ASSUME Listens(sv)
               PROVE  \E last \in Nat : Carried(b.out, Len(sv.received), last) /\ Accounts(b, last)
    BY DEF Direction
  <2>1. PICK last \in Nat : Carried(cl.out, Len(sv.received), last) /\ Accounts(cl, last)
    BY <1>1 DEF Direction
  <2>2. Len(sv.received) \in Nat  BY LenProperties DEF Connection
  <2>3. Append(<<>>, Plain("hello")) = <<Plain("hello")>> /\ <<>> \in Seq(Record)
    BY EmptySeq
  <2>4. Plain("hello").blocks = <<>>  BY DEF Plain
  <2>5. Run(Plain("hello").blocks, last, last)  BY <2>4, EmptyRun
  <2>6. Carried(Append(<<>>, Plain("hello")), Len(sv.received), last)
    BY <1>3, <1>4, <2>1, <2>2, <2>3, <2>5, CarriedAppend
  <2>7. Accounts(b, last)  BY <1>6, <2>1 DEF Accounts, Listens
  <2>8. QED  BY <1>6, <2>3, <2>6, <2>7
<1>10. NoData(<<Plain("hello")>>)  BY <1>4 DEF NoData
<1>11. Handshake(b, sv, <<>>) /\ Nothing(b, sv, trusted)
  <2>1. BeforeHello(b, sv, <<>>)  BY <1>3, <1>6 DEF BeforeHello
  <2>2. ClientHello(b, sv)  BY <1>3, <1>6 DEF ClientHello
  <2>3. Nothing(b, sv, trusted)  BY <1>1, <1>6, <1>10 DEF Nothing
  <2>4. QED  BY <1>3, <1>6, <2>1, <2>2, <2>3 DEF Handshake, ServerKeys, ClientKeys
<1>12. Pair("server", sv, b, <<>>, trusted)
  BY <1>1, <1>7, <1>8, <1>9, <1>11 DEF Pair, Exchange
<1>13. y \in Connection /\ Takes("server", sv, Plain("hello"), y)
  BY <1>4, ProcessTakes DEF Sides
<1>14. b.out # <<>> /\ b.out[1] = Plain("hello")  BY <1>6
<1>15. LosesFirst(b, cl)
  <2>1. Tail(b.out) = <<>>  BY <1>6
  <2>2. QED  BY <1>3, <1>5, <2>1 DEF LosesFirst, Connection
<1>16. Pair("server", y, cl, <<>>, trusted)
  BY <1>12, <1>13, <1>14, <1>15, PairTakes DEF Sides
<1>17. y.endpoint = "keys"
  BY <1>4, <1>13 DEF Takes, TakesHello, TakesKeys, TakesData, TakesClose, TakesGarbage,
                     Ignores
<1>18. QED  BY <1>16, <1>17 DEF Pair

\* A server that was closed meanwhile fails on it.
LEMMA EarlyFailure ==
  ASSUME NEW cl \in Connection, NEW sv \in Connection, NEW pre, NEW trusted, NEW y,
         Exchange(cl, sv, pre, trusted), pre # <<>>, sv.endpoint = "reset",
         y = [sv EXCEPT !.endpoint = "failed"]
  PROVE  Exchange(cl, y, <<>>, trusted) /\ y \in Connection /\ y.endpoint = "failed"
<1>1. /\ Sound(cl) /\ Sound(sv) /\ Direction(cl, sv) /\ Direction(sv, cl)
      /\ Handshake(cl, sv, pre) /\ Nothing(cl, sv, trusted) /\ trusted \in BOOLEAN
  BY DEF Exchange
<1>2. /\ cl.out = <<>> /\ sv.out = <<>> /\ cl.endpoint \in {"hello", "reset"}
      /\ ~sv.localClosed
  BY <1>1 DEF Handshake, BeforeHello
<1>3. y \in Connection /\ y.endpoint = "failed" /\ Still(sv, y) /\ SendsNothing(sv, y)
  BY EndpointSet DEF Endpoints
<1>4. y.received = sv.received /\ y.localClosed = sv.localClosed /\ y.out = <<>>
  BY <1>2, <1>3 DEF Still, Keeps, SendsNothing
<1>5. Sound(y)  BY <1>1, <1>2, <1>3, <1>4 DEF Sound
<1>6. Direction(cl, y)  BY <1>3 DEF Direction, Listens
<1>7. Direction(y, cl)
  <2> SUFFICES ASSUME Listens(cl)
               PROVE  \E last \in Nat : Carried(y.out, Len(cl.received), last) /\ Accounts(y, last)
    BY DEF Direction
  <2>1. Len(cl.received) \in Nat  BY LenProperties DEF Connection
  <2>2. Carried(y.out, Len(cl.received), Len(cl.received))  BY <1>4, <2>1, CarriedNone
  <2>3. Accounts(y, Len(cl.received))  BY <1>3 DEF Accounts, Listens
  <2>4. QED  BY <2>1, <2>2, <2>3
<1>8. Handshake(cl, y, <<>>)
  BY <1>2, <1>3, <1>4 DEF Handshake, BeforeHello, ClientHello, ServerKeys, ClientKeys
<1>9. Nothing(cl, y, trusted)  BY <1>1, <1>4 DEF Nothing
<1>10. QED  BY <1>1, <1>3, <1>5, <1>6, <1>7, <1>8, <1>9 DEF Exchange

LEMMA CertificateInv == ASSUME Inv, SetCertificate \/ CertificateSet PROVE Inv'
<1>1. CASE SetCertificate
  BY <1>1 DEF SetCertificate, Inv
<1>2. CASE CertificateSet
  <2>1. PICK cl : cl = conn["client"]  OBVIOUS
  <2>2. PICK sv : sv = conn["server"]  OBVIOUS
  <2>3. PICK y : y = TakesEarly  OBVIOUS
  <2>4. /\ conn' = [conn EXCEPT !["server"] = y] /\ preCert' = <<>>
        /\ verified' = verified
    BY <1>2, <2>3 DEF CertificateSet
  <2>5. /\ conn \in [Sides -> Connection] /\ Exchange(cl, sv, preCert, verified)
        /\ Settled("client", cl, verified) /\ Settled("server", sv, verified)
        /\ cl \in Connection /\ sv \in Connection
    BY <2>1, <2>2 DEF Inv, Sides
  <2>6. Handshake(cl, sv, preCert)  BY <2>5 DEF Exchange
  <2>7. /\ y \in Connection /\ Exchange(cl, y, <<>>, verified)
        /\ Settled("server", y, verified)
    <3>1. CASE preCert = <<>>
      <4>1. y = Received("server", preCert)  BY <2>3, <3>1 DEF TakesEarly
      <4>2. PICK u : u[1] = sv /\ Received("server", preCert) = u[Len(preCert) + 1]
        <5>1. Len(preCert) \in Nat  BY <3>1
        <5>2. QED  BY <2>2, <5>1, ReceivedFollows
      <4>3. Len(preCert) + 1 = 1  BY <3>1
      <4>4. y = sv  BY <4>1, <4>2, <4>3
      <4>5. QED  BY <2>5, <3>1, <4>4
    <3>2. CASE preCert # <<>> /\ sv.endpoint = "reset"
      <4>1. y = [sv EXCEPT !.endpoint = "failed"]
        BY <2>2, <2>3, <3>2 DEF TakesEarly
      <4>2. Exchange(cl, y, <<>>, verified) /\ y \in Connection /\ y.endpoint = "failed"
        BY <2>5, <3>2, <4>1, EarlyFailure
      <4>3. QED  BY <4>2 DEF Settled
    <3>3. CASE preCert # <<>> /\ sv.endpoint # "reset"
      <4>1. preCert = <<Plain("hello")>> /\ sv.endpoint = "hello"
        BY <2>6, <3>3 DEF Handshake, BeforeHello
      <4>2. y = Received("server", preCert)
        BY <2>2, <2>3, <3>3 DEF TakesEarly
      <4>3. Len(preCert) = 1 /\ preCert[1] = Plain("hello")  BY <4>1
      <4>4. PICK u : /\ u[1] = sv /\ Received("server", preCert) = u[Len(preCert) + 1]
                     /\ \A k \in 1..Len(preCert) :
                          u[k + 1] = Process("server", u[k], preCert[k])
        <5>1. Len(preCert) \in Nat  BY <4>3
        <5>2. QED  BY <2>2, <5>1, ReceivedFollows
      <4>5. y = Process("server", sv, Plain("hello"))
        <5>1. 1 \in 1..Len(preCert) /\ u[1 + 1] = y  BY <4>2, <4>3, <4>4
        <5>2. QED  BY <4>3, <4>4, <5>1
      <4>6. Exchange(cl, y, <<>>, verified) /\ y.endpoint = "keys"
        BY <2>5, <4>1, <4>5, EarlyHello
      <4>7. y \in Connection  BY <4>6 DEF Exchange, Sound
      <4>8. QED  BY <4>6, <4>7 DEF Settled
    <3>4. QED  BY <3>1, <3>2, <3>3
  <2>8. /\ conn' \in [Sides -> Connection] /\ conn'["client"] = cl /\ conn'["server"] = y
    BY <2>1, <2>4, <2>5, <2>7 DEF Sides
  <2>9. \A s \in Sides : Settled(s, conn'[s], verified')
    BY <2>4, <2>5, <2>7, <2>8 DEF Sides
  <2>10. QED  BY <2>4, <2>7, <2>8, <2>9 DEF Inv
<1>3. QED  BY <1>1, <1>2

-----------------------------------------------------------------------------
(* The handlers.                                                           *)

LEMMA OnConnectedInv == ASSUME Inv, NEW s \in Sides, OnConnected(s) PROVE Inv'
<1>1. PICK c : c = conn[s]  OBVIOUS
<1>2. PICK d : d = conn[Other(s)]  OBVIOUS
<1>3. /\ Pair(s, c, d, preCert, verified)
      /\ Settled(s, c, verified) /\ Settled(Other(s), d, verified)
      /\ c \in Connection /\ d \in Connection
  BY <1>1, <1>2, InvPair
<1>4. PICK b : b = [c EXCEPT !.endpoint = "hello"]  OBVIOUS
<1>5. PICK x : x = IF s = "client" THEN Output(b, Plain("hello")) ELSE b  OBVIOUS
<1>6. /\ c.endpoint = "idle" /\ conn' = [conn EXCEPT ![s] = x]
      /\ preCert' = preCert /\ verified' = verified
  BY <1>1, <1>4, <1>5 DEF OnConnected
<1>7. b \in Connection /\ b.endpoint = "hello" /\ Still(c, b) /\ SendsNothing(c, b)
  BY <1>3, <1>4, EndpointSet DEF Endpoints
<1>8. Plain("hello") \in Record /\ Plain("hello").kind = "hello"
  BY PlainRecord DEF RecordKinds
<1>9. /\ x \in Connection /\ x.endpoint = "hello" /\ Still(c, x)
      /\ IF s = "client" THEN Sends(c, x, Plain("hello")) ELSE SendsNothing(c, x)
  <2>1. CASE s = "client"
    <3>1. /\ x \in Connection /\ Sends(b, x, Plain("hello")) /\ Still(b, x)
          /\ x.endpoint = b.endpoint
      BY <1>5, <1>7, <1>8, <2>1, OutputSends
    <3>2. QED  BY <1>7, <2>1, <3>1 DEF Sends, SendsNothing, Still, Keeps
  <2>2. CASE s # "client"  BY <1>5, <1>7, <2>2
  <2>3. QED  BY <2>1, <2>2
<1>10. /\ Sound(c) /\ Sound(d) /\ Direction(c, d) /\ Direction(d, c)
  BY <1>3, PairFacts
<1>11. Sound(x)  BY <1>6, <1>9, <1>10 DEF Sound, Still, Keeps
<1>12. PlainSends(c, x)  BY <1>9 DEF PlainSends, RecordKinds
<1>13. Owes(c, x)  BY <1>6, <1>9 DEF Owes, Listens, Still, Keeps
<1>14. Direction(x, d)  BY <1>3, <1>9, <1>10, <1>12, <1>13, DirectionKept
<1>15. Direction(d, x)  BY <1>6, <1>9, <1>10 DEF Direction, Listens, Still
<1>16. Settled(s, x, verified)  BY <1>9 DEF Settled
<1>17. NoData(c.out) => NoData(x.out)  BY <1>3, <1>9, <1>12, PlainSendsNoData
<1>18. CASE s = "client"
  <2>1. Handshake(c, d, preCert) /\ Nothing(c, d, verified) /\ verified \in BOOLEAN
    BY <1>3, <1>18 DEF Pair, Exchange
  <2>2. /\ c.out = <<>> /\ d.out = <<>> /\ preCert = <<>> /\ ~c.hole
        /\ d.endpoint \in {"idle", "hello", "reset"}
    BY <1>6, <2>1 DEF Handshake, BeforeHello
  <2>3. x.out \in {<<>>, <<Plain("hello")>>}  BY <1>9, <1>18, <2>2, SendsFirst
  <2>4. BeforeHello(x, d, preCert)
    BY <1>9, <2>1, <2>2, <2>3 DEF Handshake, BeforeHello
  <2>5. Handshake(x, d, preCert)
    BY <1>9, <2>2, <2>3, <2>4 DEF Handshake, ClientHello, ServerKeys, ClientKeys
  <2>6. Nothing(x, d, verified)  BY <1>17, <2>1 DEF Nothing
  <2>7. Pair(s, x, d, preCert, verified)
    BY <1>10, <1>11, <1>14, <1>15, <1>18, <2>1, <2>5, <2>6 DEF Pair, Exchange
  <2>8. QED  BY <1>1, <1>2, <1>6, <1>9, <1>16, <2>7, OwnInv
<1>19. CASE s = "server"
  <2>1. Handshake(d, c, preCert) /\ Nothing(d, c, verified) /\ verified \in BOOLEAN
    BY <1>3, <1>19 DEF Pair, Exchange
  <2>2. x.out = c.out /\ x.hole = c.hole /\ x.received = c.received
        /\ x.localClosed = c.localClosed
    BY <1>9, <1>19 DEF SendsNothing, Still, Keeps
  <2>3. BeforeHello(d, x, preCert)
    BY <1>6, <1>9, <2>1, <2>2 DEF Handshake, BeforeHello
  <2>4. Handshake(d, x, preCert)
    BY <1>6, <1>9, <2>1, <2>2, <2>3 DEF Handshake, BeforeHello, ClientHello, ServerKeys,
                                         ClientKeys
  <2>5. Nothing(d, x, verified)  BY <2>1, <2>2 DEF Nothing
  <2>6. s # "client"  BY <1>19
  <2>7. Pair(s, x, d, preCert, verified)
    BY <1>10, <1>11, <1>14, <1>15, <2>6, <2>1, <2>4, <2>5 DEF Pair, Exchange
  <2>8. QED  BY <1>1, <1>2, <1>6, <1>9, <1>16, <2>7, OwnInv
<1>20. QED  BY <1>18, <1>19 DEF Sides

LEMMA OnReceivedInv ==
  ASSUME Inv, NEW s \in Sides, NEW n \in 1..Len(conn[Other(s)].out), OnReceived(s, n)
  PROVE  Inv'
<1>1. PICK c : c = conn[s]  OBVIOUS
<1>2. PICK d : d = conn[Other(s)]  OBVIOUS
<1>3. /\ Pair(s, c, d, preCert, verified)
      /\ Settled(s, c, verified) /\ Settled(Other(s), d, verified)
      /\ c \in Connection /\ d \in Connection
  BY <1>1, <1>2, InvPair
<1>4. PICK piece : piece = SubSeq(d.out, 1, n)  OBVIOUS
<1>5. PICK r : r = Received(s, piece)  OBVIOUS
<1>6. PICK x : x = AfterPiece(s, r)  OBVIOUS
<1>7. PICK y : y = Left(d, n + 1)  OBVIOUS
<1>8. /\ conn \in [Sides -> Connection] /\ Other(s) \in Sides /\ Other(s) # s
  BY OtherSide DEF Inv
<1>9. /\ c.endpoint \notin {"idle", "reset"} /\ preCert' = preCert /\ verified' = verified
      /\ conn' = [conn EXCEPT ![s] = x, ![Other(s)].out = SubSeq(d.out, n + 1, Len(d.out))]
  BY <1>1, <1>2, <1>4, <1>5, <1>6 DEF OnReceived, Open
<1>10. /\ d.out \in Seq(Record) /\ Len(d.out) \in Nat /\ n \in Nat /\ n <= Len(d.out)
       /\ n >= 1 /\ n + 1 \in 1..Len(d.out) + 1 /\ n \in 0..Len(d.out)
  BY <1>2, <1>3, LenProperties DEF Connection
<1>11. Len(piece) = n /\ \A k \in 1..n : piece[k] = d.out[k]
  <2>1. \A k \in 1..n : d.out[k] \in Record  BY <1>10, ElementOfSeq
  <2>2. Len(piece) = (IF 1 <= n THEN n - 1 + 1 ELSE 0)
        /\ \A k \in 1..n - 1 + 1 : piece[k] = d.out[1 + k - 1]
    BY <1>4, <1>10, <2>1, SubSeqProperties
  <2>3. n - 1 + 1 = n /\ \A k \in 1..n : 1 + k - 1 = k  BY <1>10
  <2>4. QED  BY <1>10, <2>2, <2>3
<1>12. Pair(s, r, y, preCert, verified)
  BY <1>1, <1>3, <1>5, <1>7, <1>9, <1>10, <1>11, PieceTaken
<1>13. Pair(s, x, y, preCert, verified) /\ Settled(s, x, verified)
  BY <1>6, <1>12, PieceEnds
<1>14. x \in Connection /\ y \in Connection  BY <1>13, PairFacts
<1>15. Settled(Other(s), y, verified)
  BY <1>3, <1>7 DEF Settled, Left, Connection
<1>16. conn'[s] = x /\ conn'[Other(s)] = y /\ conn' \in [Sides -> Connection]
  <2>1. conn' = [conn EXCEPT ![s] = x, ![Other(s)] = y]
    BY <1>2, <1>7, <1>8, <1>9 DEF Left
  <2>2. QED  BY <1>8, <1>14, <2>1
<1>17. Pair(s, x, y, preCert', verified') /\ Settled(s, x, verified')
       /\ Settled(Other(s), y, verified')
  BY <1>9, <1>13, <1>15
<1>18. QED  BY <1>16, <1>17, PairInv

LEMMA OnReceivedEarlyInv ==
  ASSUME Inv, NEW n \in 1..Len(conn["client"].out), OnReceivedEarly(n)
  PROVE  Inv'
<1>1. PICK cl : cl = conn["client"]  OBVIOUS
<1>2. PICK sv : sv = conn["server"]  OBVIOUS
<1>3. /\ conn \in [Sides -> Connection] /\ Exchange(cl, sv, preCert, verified)
      /\ Settled("client", cl, verified) /\ Settled("server", sv, verified)
      /\ cl \in Connection /\ sv \in Connection
  BY <1>1, <1>2 DEF Inv, Sides
<1>4. /\ Sound(cl) /\ Sound(sv) /\ Direction(cl, sv) /\ Direction(sv, cl)
      /\ Handshake(cl, sv, preCert) /\ Nothing(cl, sv, verified) /\ verified \in BOOLEAN
  BY <1>3 DEF Exchange
<1>5. /\ sv.endpoint = "hello" /\ verified' = verified
      /\ conn' = [conn EXCEPT !["client"].out = SubSeq(cl.out, n + 1, Len(cl.out))]
      /\ preCert' = preCert \o SubSeq(cl.out, 1, n) \/ preCert' = preCert
  BY <1>1, <1>2 DEF OnReceivedEarly
<1>6. cl.out # <<>> /\ Len(cl.out) \in Nat /\ n \in Nat /\ n <= Len(cl.out) /\ n >= 1
  BY <1>1, <1>3, LenProperties, EmptySeq DEF Connection
<1>7. /\ cl.out = <<Plain("hello")>> /\ preCert = <<>> /\ sv.out = <<>> /\ ~sv.hole
      /\ cl.endpoint \in {"hello", "reset"}
  BY <1>4, <1>5, <1>6 DEF Handshake, BeforeHello
<1>8. n = 1 /\ Len(cl.out) = 1  BY <1>6, <1>7
<1>9. SubSeq(cl.out, n + 1, Len(cl.out)) = <<>> /\ SubSeq(cl.out, 1, n) = <<Plain("hello")>>
  <2>1. PICK h : h = Plain("hello")  OBVIOUS
  <2>2. PICK r : r = cl.out  OBVIOUS
  <2>3. r \in Seq(Record) /\ r = <<h>> /\ Len(r) = 1
    BY <1>3, <1>7, <1>8, <2>1, <2>2 DEF Connection
  <2>4. SubSeq(r, 1, 1) = r
    <3>1. r[1] \in Record  BY <2>3, ElementOfSeq
    <3>2. PICK q : q = SubSeq(r, 1, 1)  OBVIOUS
    <3>3. q \in Seq(Record) /\ Len(q) = 1 /\ q[1] = r[1]
      BY <2>3, <3>1, <3>2, SubSeqProperties
    <3>4. Len(q) = Len(r) /\ \A i \in 1..Len(q) : q[i] = r[i]
      <4>1. \A i \in 1..Len(q) : i = 1  BY <3>3
      <4>2. QED  BY <2>3, <3>3, <4>1, Zenon
    <3>5. r \in Seq(Record)  BY <2>3
    <3>6. q = r  BY <3>3, <3>4, <3>5, SeqEqual, Zenon
    <3>7. QED  BY <3>2, <3>6
  <2>7. SubSeq(r, 2, 1) = <<>>  BY <2>3, SubSeqEmpty
  <2>5. n + 1 = 2  BY <1>8
  <2>6. SubSeq(cl.out, 2, 1) = <<>> /\ SubSeq(cl.out, 1, 1) = <<Plain("hello")>>
    BY <1>7, <2>2, <2>4, <2>7, Zenon
  <2>8. n = 1 /\ Len(cl.out) = 1  BY <1>8
  <2>9. QED  BY <2>5, <2>6, <2>8, Zenon
<1>10. preCert' \in {<<>>, <<Plain("hello")>>}
  BY <1>5, <1>7, <1>9
<1>11. PICK x : x = [cl EXCEPT !.out = <<>>]  OBVIOUS
<1>12. /\ x \in Connection /\ x.endpoint = cl.endpoint /\ x.out = <<>>
       /\ x.hole = cl.hole /\ x.localClosed = cl.localClosed /\ x.received = cl.received
       /\ x.queued = cl.queued /\ x.accepted = cl.accepted /\ x.closedAt = cl.closedAt
  BY <1>3, <1>11, EmptySeq DEF Connection
<1>13. Sound(x)  BY <1>4, <1>12 DEF Sound
<1>14. Direction(sv, x)  BY <1>4, <1>12 DEF Direction, Listens
<1>15. Direction(x, sv)
  <2> SUFFICES ASSUME Listens(sv)
               PROVE  \E last \in Nat : Carried(x.out, Len(sv.received), last) /\ Accounts(x, last)
    BY DEF Direction
  <2>1. PICK last \in Nat : Carried(cl.out, Len(sv.received), last) /\ Accounts(cl, last)
    BY <1>4 DEF Direction
  <2>2. Len(sv.received) \in Nat /\ cl.out \in Seq(Record)
    BY <1>3, LenProperties DEF Connection
  <2>3. PICK mid \in Nat : Run(cl.out[1].blocks, Len(sv.received), mid)
                          /\ Carried(Tail(cl.out), mid, last)
    BY <1>6, <2>1, <2>2, CarriedTail
  <2>4. cl.out[1].blocks = <<>> /\ Tail(cl.out) = <<>>  BY <1>7 DEF Plain
  <2>5. mid = Len(sv.received)
    <3>1. Run(<<>>, Len(sv.received), mid)  BY <2>3, <2>4
    <3>2. QED  BY <2>2, <3>1, EmptyRun
  <2>6. Carried(x.out, Len(sv.received), last)  BY <1>12, <2>3, <2>4, <2>5
  <2>7. Accounts(x, last)  BY <1>12, <2>1 DEF Accounts, Listens
  <2>8. QED  BY <2>6, <2>7
<1>16. Handshake(x, sv, preCert')
  <2>1. ~sv.localClosed  BY <1>4, <1>5 DEF Sound
  <2>2. NoData(<<>>)  BY DEF NoData
  <2>3. BeforeHello(x, sv, preCert')
    BY <1>5, <1>7, <1>10, <1>12, <2>1 DEF BeforeHello
  <2>4. QED
    BY <1>5, <1>7, <1>12, <2>2, <2>3 DEF Handshake, ClientHello, ServerKeys, ClientKeys
<1>17. Nothing(x, sv, verified)
  <2>1. NoData(<<>>)  BY DEF NoData
  <2>2. QED  BY <1>4, <1>12, <2>1 DEF Nothing
<1>18. Exchange(x, sv, preCert', verified')
  BY <1>4, <1>5, <1>13, <1>14, <1>15, <1>16, <1>17 DEF Exchange
<1>19. conn' = [conn EXCEPT !["client"] = x]
  BY <1>1, <1>3, <1>5, <1>9, <1>11
<1>20. conn' \in [Sides -> Connection] /\ conn'["client"] = x /\ conn'["server"] = sv
  BY <1>2, <1>3, <1>12, <1>19 DEF Sides
<1>21. \A s \in Sides : Settled(s, conn'[s], verified')
  BY <1>3, <1>5, <1>12, <1>20 DEF Settled, Sides
<1>22. QED  BY <1>18, <1>20, <1>21 DEF Inv

\* Every step keeps the invariant.
LEMMA NextInv == ASSUME Inv, [Next]_vars PROVE Inv'
<1>1. CASE UNCHANGED vars  BY <1>1 DEF Inv, vars
<1>2. CASE \E s \in Sides : Send(s)  BY <1>2, SendInv
<1>3. CASE \E s \in Sides : Shutdown(s)  BY <1>3, ShutdownInv
<1>4. CASE \E s \in Sides : Close(s) \/ OnReset(s)  BY <1>4, CloseInv
<1>5. CASE SetCertificate \/ CertificateSet  BY <1>5, CertificateInv
<1>6. CASE \E s \in Sides : OnConnected(s)  BY <1>6, OnConnectedInv
<1>7. CASE \E s \in Sides : \E n \in 1..Len(conn[Other(s)].out) : OnReceived(s, n)
  BY <1>7, OnReceivedInv
<1>8. CASE \E n \in 1..Len(conn["client"].out) : OnReceivedEarly(n)
  BY <1>8, OnReceivedEarlyInv
<1>9. ASSUME NEW s \in Sides, NEW n \in 1..Len(conn[Other(s)].out), s = "server",
             OnReceivedEarly(n)
      PROVE  Inv'
  <2>1. n \in 1..Len(conn["client"].out)  BY <1>9 DEF Other
  <2>2. QED  BY <1>8, <1>9, <2>1
<1>10. QED
  BY <1>1, <1>2, <1>3, <1>4, <1>5, <1>6, <1>7, <1>9 DEF Next, Calls, Handler

-----------------------------------------------------------------------------
(* The property.                                                           *)

\* u[k]: the blocks of the records r before record k, which are those before
\* the last of them and its own.
Collects(u, r) == u[1] = <<>> /\ \A k \in 1..Len(r) : u[k + 1] = u[k] \o r[k].blocks

LEMMA InFlightFollows ==
  ASSUME NEW s, NEW r, r = conn[s].out, Len(r) \in Nat
  PROVE  \E u : Collects(u, r) /\ InFlight(s) = u[Len(r) + 1]
<1> DEFINE body(f, k) == IF k = 1 THEN <<>> ELSE f[k - 1] \o r[k - 1].blocks
           S == {n \in Nat : \E f : f = [k \in 1..n + 1 |-> body(f, k)]}
<1>1. 0 \in S
  <2> DEFINE f == [k \in 1..0 + 1 |-> <<>>]
  <2>1. \A k \in 1..0 + 1 : k = 1  BY SMT
  <2>2. f = [k \in 1..0 + 1 |-> body(f, k)]  BY <2>1
  <2> HIDE DEF f
  <2>3. QED  BY <2>2
<1>2. ASSUME NEW n \in S PROVE n + 1 \in S
  <2>1. PICK f : f = [k \in 1..n + 1 |-> body(f, k)]  OBVIOUS
  <2> DEFINE g == [k \in 1..(n + 1) + 1 |-> body(f, k)]
  <2>2. ASSUME NEW k \in 1..n + 1 PROVE g[k] = f[k]
    <3>1. f[k] = body(f, k)  BY <2>1
    <3>2. k \in 1..(n + 1) + 1  BY SMT
    <3> HIDE DEF body
    <3>3. QED  BY <3>1, <3>2
  <2>3. ASSUME NEW k \in 1..(n + 1) + 1 PROVE body(g, k) = body(f, k)
    <3> HIDE DEF g
    <3>1. CASE k = 1  BY <3>1
    <3>2. CASE k # 1
      <4>1. k - 1 \in 1..n + 1  BY <3>2, SMT
      <4>2. g[k - 1] = f[k - 1]  BY <2>2, <4>1
      <4>3. QED  BY <4>2
    <3>3. QED  BY <3>1, <3>2
  <2> HIDE DEF body
  <2>4. g = [k \in 1..(n + 1) + 1 |-> body(g, k)]  BY <2>3, Zenon
  <2> HIDE DEF g
  <2>5. n + 1 \in Nat  BY SMT
  <2>6. QED  BY <2>4, <2>5, Zenon
<1> HIDE DEF S
<1>3. S \in SUBSET Nat  BY DEF S
<1>4. \A n \in Nat : n \in S  BY <1>1, <1>2, <1>3, Induction
<1>5. \E f : f = [k \in 1..Len(r) + 1 |-> body(f, k)]  BY <1>4 DEF S
<1>6. PICK u : u = CHOOSE f : f = [k \in 1..Len(r) + 1 |-> body(f, k)]  OBVIOUS
<1>7. InFlight(s) = u[Len(r) + 1]
  BY <1>6, Zenon DEF InFlight
<1>8. u = [k \in 1..Len(r) + 1 |-> body(u, k)]
  <2> HIDE DEF body
  <2>1. QED  BY <1>5, <1>6, Zenon
<1>9. u[1] = <<>>
  <2>1. 1 \in 1..Len(r) + 1  BY SMT
  <2>2. QED  BY <1>8, <2>1, Zenon
<1>10. ASSUME NEW k \in 1..Len(r) PROVE u[k + 1] = u[k] \o r[k].blocks
  <2>1. k + 1 \in 1..Len(r) + 1 /\ k + 1 # 1 /\ (k + 1) - 1 = k  BY SMT
  <2>2. u[k + 1] = body(u, k + 1)
    <3> HIDE DEF body
    <3>1. QED  BY <1>8, <2>1, Zenon
  <2>3. QED  BY <2>1, <2>2, Zenon
<1>11. QED  BY <1>7, <1>9, <1>10 DEF Collects

\* Records that carry a run have it under way.
LEMMA InFlightCarried ==
  ASSUME NEW s, NEW r \in Seq(Record), r = conn[s].out, NEW x \in Nat, NEW z \in Nat,
         Carried(r, x, z)
  PROVE  InFlight(s) \in Seq(Nat) /\ Run(InFlight(s), x, z)
<1>1. PICK pos \in [1..Len(r) + 1 -> Nat] :
             Carries(r, pos) /\ pos[1] = x /\ pos[Len(r) + 1] = z
  BY DEF Carried
<1>a. Len(r) \in Nat  BY LenProperties
<1>b. PICK u : Collects(u, r) /\ InFlight(s) = u[Len(r) + 1]
  BY <1>a, InFlightFollows, Zenon
<1> DEFINE n == Len(r)
<1>2. n \in Nat  BY <1>a
<1>3. /\ u[1] = <<>> /\ InFlight(s) = u[n + 1]
      /\ \A k \in 1..n : u[k + 1] = u[k] \o r[k].blocks
  BY <1>b, Zenon DEF Collects
<1> DEFINE P(k) == u[k] \in Seq(Nat) /\ Run(u[k], x, pos[k])
           S == {k \in Nat : k <= n => P(k + 1)}
<1>4. P(1)  BY <1>1, <1>3, EmptySeq, EmptyRun
<1>5. ASSUME NEW k \in 1..n, P(k) PROVE P(k + 1)
  <2>1. PICK a : a = u[k]  OBVIOUS
  <2>2. PICK b : b = r[k].blocks  OBVIOUS
  <2>3. PICK p \in Nat, q \in Nat : p = pos[k] /\ q = pos[k + 1]
    <3>1. k \in 1..n + 1 /\ k + 1 \in 1..n + 1  BY <1>2
    <3>2. pos[k] \in Nat /\ pos[k + 1] \in Nat  BY <1>1, <3>1
    <3>3. QED  BY <3>2
  <2>4. r[k] \in Record  BY ElementOfSeq
  <2>5. b \in Seq(Nat)  BY <2>2, <2>4, RecordBlocks
  <2>6. a \in Seq(Nat) /\ Run(a, x, p)  BY <1>5, <2>1, <2>3
  <2>7. Run(b, p, q)  BY <1>1, <2>2, <2>3 DEF Carries
  <2>8. Run(a \o b, x, q)  BY <2>5, <2>6, <2>7, RunOn
  <2>9. a \o b \in Seq(Nat)  BY <2>5, <2>6, ConcatProperties
  <2>10. u[k + 1] = a \o b  BY <1>3, <2>1, <2>2
  <2>11. QED  BY <2>3, <2>8, <2>9, <2>10
<1> HIDE DEF P
<1>6. 0 \in S  BY <1>4
<1>7. ASSUME NEW k \in S PROVE k + 1 \in S
  <2>1. SUFFICES ASSUME k + 1 <= n PROVE P((k + 1) + 1)
    OBVIOUS
  <2>2. k <= n /\ k + 1 \in 1..n  BY <1>2, <2>1
  <2>3. P(k + 1)  BY <2>2
  <2>4. QED  BY <1>5, <2>2, <2>3
<1> HIDE DEF S
<1>8. S \in SUBSET Nat  BY DEF S
<1>9. n \in S  BY <1>2, <1>6, <1>7, <1>8, Induction
<1>10. P(n + 1)  BY <1>2, <1>9 DEF S
<1>11. QED  BY <1>1, <1>3, <1>10 DEF P

\* Records without data have no blocks under way.
LEMMA NothingInFlight ==
  ASSUME NEW s, NEW r \in Seq(Record), r = conn[s].out, NoData(r)
  PROVE  InFlight(s) = <<>>
<1>a. Len(r) \in Nat  BY LenProperties
<1>b. PICK u : Collects(u, r) /\ InFlight(s) = u[Len(r) + 1]
  BY <1>a, InFlightFollows, Zenon
<1> DEFINE n == Len(r)
<1>2. n \in Nat  BY <1>a
<1>3. /\ u[1] = <<>> /\ InFlight(s) = u[n + 1]
      /\ \A k \in 1..n : u[k + 1] = u[k] \o r[k].blocks
  BY <1>b, Zenon DEF Collects
<1> DEFINE S == {k \in Nat : k <= n => u[k + 1] = <<>>}
<1>4. \A k \in 1..n : r[k].blocks = <<>>
  <2>1. \A k \in 1..n : r[k] \in Record  BY ElementOfSeq
  <2>2. QED  BY <2>1, RecordBlocks DEF NoData
<1>5. <<>> \o <<>> = <<>>  OBVIOUS
<1>6. 0 \in S  BY <1>3
<1>7. ASSUME NEW k \in S PROVE k + 1 \in S
  <2>1. SUFFICES ASSUME k + 1 <= n PROVE u[(k + 1) + 1] = <<>>
    OBVIOUS
  <2>2. k <= n /\ k + 1 \in 1..n  BY <1>2, <2>1
  <2>3. u[k + 1] = <<>>  BY <2>2
  <2>4. QED  BY <1>3, <1>4, <1>5, <2>2, <2>3
<1> HIDE DEF S
<1>8. S \in SUBSET Nat  BY DEF S
<1>9. n \in S  BY <1>2, <1>6, <1>7, <1>8, Induction
<1>10. u[n + 1] = <<>>  BY <1>2, <1>9 DEF S
<1>11. QED  BY <1>3, <1>10

LEMMA InvIntegrity == Inv => DataIntegrity
<1> SUFFICES ASSUME Inv PROVE DataIntegrity  OBVIOUS
<1>1. ASSUME NEW s \in Sides, NEW c, NEW o, c = conn[s], o = conn[Other(s)]
      PROVE  /\ \A i \in DOMAIN o.received : o.received[i] = i
             /\ c.localClosed /\ ~c.hole /\ c.endpoint # "reset"
                  /\ o.endpoint \in {"hello", "keys", "active"}
                => o.received \o InFlight(s) = [i \in 1..c.closedAt |-> i]
  <2>1. Pair(s, c, o, preCert, verified)  BY <1>1, InvPair
  <2>2. /\ Sound(c) /\ Sound(o) /\ c \in Connection /\ o \in Connection
        /\ Direction(c, o)
    BY <2>1, PairFacts
  <2>3. /\ c.out \in Seq(Record) /\ o.received \in Seq(Nat) /\ Len(o.received) \in Nat
        /\ c.closedAt \in Nat
    BY <2>2, LenProperties DEF Connection
  <2>4. Run(o.received, 0, Len(o.received))  BY <2>2 DEF Sound
  <2>5. \A i \in DOMAIN o.received : o.received[i] = i
    <3>1. DOMAIN o.received = 1..Len(o.received)  BY <2>3, LenProperties
    <3>2. QED  BY <2>3, <2>4, <3>1 DEF Run
  <2>6. ASSUME c.localClosed, ~c.hole, c.endpoint # "reset",
               o.endpoint \in {"hello", "keys", "active"}
        PROVE  o.received \o InFlight(s) = [i \in 1..c.closedAt |-> i]
    <3>1. c.endpoint = "closed"  BY <2>2, <2>6 DEF Sound
    <3>2. PICK last \in Nat : Carried(c.out, Len(o.received), last) /\ Accounts(c, last)
      BY <2>2, <2>6 DEF Direction, Listens
    <3>3. last = c.closedAt  BY <2>6, <3>1, <3>2 DEF Accounts
    <3>4. InFlight(s) \in Seq(Nat) /\ Run(InFlight(s), Len(o.received), c.closedAt)
      BY <1>1, <2>3, <3>2, <3>3, InFlightCarried
    <3>5. Run(o.received \o InFlight(s), 0, c.closedAt)
      BY <2>3, <2>4, <3>4, RunOn
    <3>6. PICK t : t = o.received \o InFlight(s)  OBVIOUS
    <3>7. PICK k \in Nat : k = c.closedAt  BY <2>3
    <3>8. t \in Seq(Nat) /\ Len(t) = k /\ \A i \in 1..k : t[i] = i
      <4>1. t \in Seq(Nat)  BY <2>3, <3>4, <3>6, ConcatProperties
      <4>2. Run(t, 0, k)  BY <3>5, <3>6, <3>7
      <4>3. QED  BY <4>1, <4>2 DEF Run
    <3>9. DOMAIN t = 1..k /\ t = [i \in DOMAIN t |-> t[i]]  BY <3>8, LenProperties
    <3>10. t = [i \in 1..k |-> i]  BY <3>8, <3>9, Zenon
    <3>11. QED  BY <3>6, <3>7, <3>10
  <2>7. QED  BY <2>5, <2>6
<1>2. ~verified => conn["server"].received \o InFlight("client") = <<>>
  <2>1. SUFFICES ASSUME ~verified PROVE conn["server"].received \o InFlight("client") = <<>>
    OBVIOUS
  <2>2. PICK r : r = conn["client"].out  OBVIOUS
  <2>3. NoData(r) /\ conn["server"].received = <<>> /\ r \in Seq(Record)
    BY <2>1, <2>2 DEF Inv, Exchange, Nothing, Sound, Connection
  <2>4. InFlight("client") = <<>>  BY <2>2, <2>3, NothingInFlight
  <2>5. QED  BY <2>3, <2>4
<1>3. \A s \in Sides :
        /\ \A i \in DOMAIN conn[Other(s)].received : conn[Other(s)].received[i] = i
        /\ conn[s].localClosed /\ ~conn[s].hole /\ conn[s].endpoint # "reset"
             /\ conn[Other(s)].endpoint \in {"hello", "keys", "active"}
           => conn[Other(s)].received \o InFlight(s) = [i \in 1..conn[s].closedAt |-> i]
  <2> TAKE s \in Sides
  <2> DEFINE c == conn[s]
             o == conn[Other(s)]
  <2>1. c = conn[s] /\ o = conn[Other(s)]  OBVIOUS
  <2> HIDE DEF c, o
  <2>2. /\ \A i \in DOMAIN o.received : o.received[i] = i
        /\ c.localClosed /\ ~c.hole /\ c.endpoint # "reset"
             /\ o.endpoint \in {"hello", "keys", "active"}
           => o.received \o InFlight(s) = [i \in 1..c.closedAt |-> i]
    BY <1>1, <2>1, Zenon
  <2>3. QED  BY <2>1, <2>2, Zenon
<1>4. QED  BY <1>2, <1>3, Zenon DEF DataIntegrity

\* Data of both sides arrives in order and once, up to what was accepted before
\* the channel closed, and a mistrusted server gets none (OnReceived and Send
\* of TlsConnection.inl), for any limits of the buffers.
THEOREM TlsDelivers == Spec => []DataIntegrity
<1>1. Init => Inv  BY InitInv
<1>2. Inv /\ [Next]_vars => Inv'  BY NextInv
<1>3. Inv => DataIntegrity  BY InvIntegrity
<1>4. QED  BY <1>1, <1>2, <1>3, PTL DEF Spec
=============================================================================

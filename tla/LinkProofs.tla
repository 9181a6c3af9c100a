----------------------------- MODULE LinkProofs -----------------------------
(***************************************************************************)
(* The receiver of a Link never loses its place, whatever the sizes of     *)
(* headers, blocks and chunks, the streams, and the way Messages and raw   *)
(* reads share the Link, as long as a new connection is made known to it;  *)
(* and each stream is then a byte stream of its own.                       *)
(***************************************************************************)
EXTENDS LinkStreams, SequenceTheorems, FiniteSetTheorems, TLAPS

\* A place between two segments of the bytes w, or before or after them all.
BoundaryOf(w, p) == p = Len(w) \/ w[p + 1].at = 1 - HeaderSize

\* After the header at p comes the whole of its segment, then a boundary.
WholeSegment(w, p) ==
  LET size == w[p + 1].size
  IN  /\ p + HeaderSize + size <= Len(w)
      /\ \A i \in 1..HeaderSize + size :
           w[p + i].stream = w[p + 1].stream /\ w[p + i].at = i - HeaderSize
      /\ BoundaryOf(w, p + HeaderSize + size)

\* The bytes w are whole segments: what one Send() appends is not torn.
Framed(w) ==
  /\ BoundaryOf(w, 0)
  /\ \A p \in 0..Len(w) - 1 :
       w[p + 1].at = 1 - HeaderSize => WholeSegment(w, p)

Inv == TypeOK /\ InStep /\ Framed(written)

-----------------------------------------------------------------------------
(* Lemmas about the operators.                                             *)

\* A two-element set of integers has a least element.
LEMMA LeastOfTwo ==
  ASSUME NEW a \in Int, NEW b \in Int
  PROVE  /\ Least({a, b}) \in {a, b}
         /\ Least({a, b}) <= a /\ Least({a, b}) <= b
<1>1. \E x \in {a, b} : \A y \in {a, b} : x <= y
  <2>1. CASE a <= b  BY <2>1
  <2>2. CASE ~(a <= b)  BY <2>2
  <2>3. QED  BY <2>1, <2>2
<1>2. QED  BY <1>1 DEF Least

\* Receive() reads no more than its segment has left and than has arrived.
LEMMA TakenBounds ==
  ASSUME NEW s \in Streams, NEW segment, segment.left \in Nat,
         NEW there \in Nat, NEW n \in Taken(s, segment, there)
  PROVE  n \in Nat /\ n <= segment.left /\ n <= there
<1>1. CASE ~Mine(s, segment)  BY <1>1 DEF Taken
<1>2. CASE Mine(s, segment) /\ s \in MessageStreams
  BY <1>2 DEF Taken
<1>3. CASE Mine(s, segment) /\ s \notin MessageStreams
  <2>1. PICK size \in 1..MaxBlockSize :
             n = Least({WithinSegment(segment, size), there})
    BY <1>3 DEF Taken
  <2>2. size \in Nat  BY LinkAssumption
  <2>3. /\ WithinSegment(segment, size) \in Nat
        /\ WithinSegment(segment, size) <= segment.left
    BY <2>2, LeastOfTwo, size \in Int, segment.left \in Int DEF WithinSegment
  <2>4. WithinSegment(segment, size) \in Int /\ there \in Int  BY <2>3
  <2>5. /\ n \in {WithinSegment(segment, size), there}
        /\ n <= WithinSegment(segment, size) /\ n <= there
    BY <2>1, <2>4, LeastOfTwo
  <2>6. QED  BY <2>3, <2>5
<1>4. QED  BY <1>1, <1>2, <1>3

\* What has arrived and is not yet read.
LEMMA UnreadBytes ==
  ASSUME TypeOK
  PROVE  /\ Unread \in Seq(Byte) /\ Len(Unread) = arrived - consumed
         /\ \A i \in 1..Len(Unread) : Unread[i] = written[consumed + i]
<1>1. /\ written \in Seq(Byte) /\ Len(written) \in Nat
      /\ arrived \in 0..Len(written) /\ consumed \in 0..arrived
  BY LenProperties DEF TypeOK
<1>2. /\ arrived \in Int /\ consumed + 1 \in Int
      /\ \A i \in consumed + 1 .. arrived : i \in 1..Len(written)
  BY <1>1
<1>3. \A i \in consumed + 1 .. arrived : written[i] \in Byte
  BY <1>1, <1>2, ElementOfSeq
<1>4. /\ Unread \in Seq(Byte)
      /\ Len(Unread) = IF consumed + 1 <= arrived THEN arrived - (consumed + 1) + 1 ELSE 0
      /\ \A i \in 1 .. arrived - (consumed + 1) + 1 :
           Unread[i] = written[consumed + 1 + i - 1]
  BY <1>2, <1>3, SubSeqProperties DEF Unread
<1>5. Len(Unread) = arrived - consumed
  BY <1>1, <1>4
<1>6. ASSUME NEW i \in 1..Len(Unread)
      PROVE  Unread[i] = written[consumed + i]
  <2>1. i \in 1 .. arrived - (consumed + 1) + 1 /\ consumed + 1 + i - 1 = consumed + i
    BY <1>1, <1>5
  <2>2. QED  BY <1>4, <2>1
<1>7. QED  BY <1>4, <1>5, <1>6

\* A segment as Send() hands it over.
LEMMA SegmentBytes ==
  ASSUME NEW s \in Streams, NEW size \in Nat, segments \in Nat
  PROVE  /\ Segment(s, size) \in Seq(Byte)
         /\ Len(Segment(s, size)) = HeaderSize + size
         /\ \A i \in 1..HeaderSize + size :
              /\ Segment(s, size)[i].stream = s
              /\ Segment(s, size)[i].size = size
              /\ Segment(s, size)[i].at = i - HeaderSize
BY LinkAssumption DEF Segment, Byte

\* And its payload.
LEMMA SegmentPayload ==
  ASSUME NEW s \in Streams, NEW size \in Nat, segments \in Nat
  PROVE  LET payload == SubSeq(Segment(s, size), HeaderSize + 1, HeaderSize + size)
         IN  /\ payload \in Seq(Byte) /\ Len(payload) = size
             /\ \A i \in 1..size : payload[i] = Segment(s, size)[HeaderSize + i]
<1> DEFINE b == Segment(s, size)
           from == HeaderSize + 1
           to == HeaderSize + size
<1>1. b \in Seq(Byte) /\ Len(b) = HeaderSize + size
  BY SegmentBytes
<1>2. HeaderSize \in Nat /\ from \in Int /\ to \in Int
  BY LinkAssumption
<1>3. \A i \in from..to : b[i] \in Byte
  <2> HIDE DEF b
  <2>1. \A i \in from..to : i \in 1..Len(b)
    BY <1>1, <1>2
  <2>2. QED  BY <1>1, <2>1, ElementOfSeq
<1>4. /\ SubSeq(b, from, to) \in Seq(Byte)
      /\ Len(SubSeq(b, from, to)) = IF from <= to THEN to - from + 1 ELSE 0
      /\ \A i \in 1 .. to - from + 1 : SubSeq(b, from, to)[i] = b[from + i - 1]
  <2> HIDE DEF b, from, to
  <2>1. QED  BY <1>2, <1>3, SubSeqProperties
<1>5. /\ (IF from <= to THEN to - from + 1 ELSE 0) = size
      /\ \A i \in 1..size : i \in 1 .. to - from + 1 /\ from + i - 1 = HeaderSize + i
  BY <1>2
<1> HIDE DEF b
<1>6. QED  BY <1>4, <1>5 DEF b

\* A segment appended to whole segments leaves what was there as it was, and
\* all of it whole segments.
LEMMA AppendSegment ==
  ASSUME NEW w \in Seq(Byte), Framed(w), NEW b \in Seq(Byte),
         NEW s, NEW size \in Nat, Len(b) = HeaderSize + size,
         \A i \in 1..HeaderSize + size :
           b[i].stream = s /\ b[i].size = size /\ b[i].at = i - HeaderSize
  PROVE  /\ w \o b \in Seq(Byte) /\ Len(w \o b) >= Len(w)
         /\ \A p \in 1..Len(w) : (w \o b)[p] = w[p]
         /\ \A p \in 0..Len(w) : BoundaryOf(w, p) => BoundaryOf(w \o b, p)
         /\ Framed(w \o b)
<1> DEFINE c == w \o b
           len == Len(w)
           total == HeaderSize + size
<1>1. /\ len \in Nat /\ HeaderSize \in Nat /\ HeaderSize > 0
      /\ total \in Nat /\ total > 0
  BY LinkAssumption, LenProperties
<1>2. /\ c \in Seq(Byte) /\ Len(c) = len + total
      /\ \A i \in 1..len + total : c[i] = IF i <= len THEN w[i] ELSE b[i - len]
  <2> HIDE DEF total
  <2>1. /\ w \o b \in Seq(Byte)
        /\ Len(w \o b) = Len(w) + Len(b)
        /\ \A i \in 1 .. Len(w) + Len(b) :
             (w \o b)[i] = IF i <= Len(w) THEN w[i] ELSE b[i - Len(w)]
    BY ConcatProperties, Zenon
  <2>2. Len(b) = total  BY DEF total
  <2>3. QED  BY <2>1, <2>2
<1> HIDE DEF c, len, total
<1>3. \A p \in 1..len : c[p] = w[p]
  BY <1>1, <1>2
<1>4. ASSUME NEW i \in 1..total
      PROVE  /\ c[len + i].stream = s /\ c[len + i].size = size
             /\ c[len + i].at = i - HeaderSize
  <2>1. len + i \in 1..len + total /\ ~(len + i <= len) /\ (len + i) - len = i
    BY <1>1
  <2>2. c[len + i] = b[(len + i) - len]
    BY <1>2, <2>1
  <2>3. QED  BY <2>1, <2>2 DEF total
<1>5. ASSUME NEW p \in 0..len, BoundaryOf(w, p)
      PROVE  BoundaryOf(c, p)
  <2>1. CASE p = len
    <3>1. c[len + 1].at = 1 - HeaderSize  BY <1>1, <1>4
    <3>2. QED  BY <2>1, <3>1 DEF BoundaryOf
  <2>2. CASE p # len
    <3>1. p + 1 \in 1..len /\ w[p + 1].at = 1 - HeaderSize
      BY <1>1, <1>5, <2>2 DEF BoundaryOf, len
    <3>2. QED  BY <3>1, <1>3 DEF BoundaryOf
  <2>3. QED  BY <2>1, <2>2
<1>6. ASSUME NEW p \in 0..Len(c) - 1, c[p + 1].at = 1 - HeaderSize
      PROVE  WholeSegment(c, p)
  <2>1. CASE p < len
    <3> DEFINE n == w[p + 1].size
               end == p + HeaderSize + n
    <3>1. p \in 0..len - 1 /\ p + 1 \in 1..len /\ c[p + 1] = w[p + 1]
      <4>1. p \in Int /\ 0 <= p
        BY <1>1, <1>2
      <4>2. p \in 0..len - 1 /\ p + 1 \in 1..len
        BY <4>1, <2>1, <1>1
      <4>3. QED  BY <4>2, <1>3
    <3>2. WholeSegment(w, p)
      BY <3>1, <1>6 DEF Framed, len
    <3>3. n \in Nat
      <4>1. w[p + 1] \in Byte  BY <3>1, ElementOfSeq DEF len
      <4>2. QED  BY <4>1 DEF Byte
    <3>4. end \in 0..len /\ BoundaryOf(w, end)
      BY <3>1, <3>2, <3>3, <1>1 DEF WholeSegment, len
    <3>5. ASSUME NEW i \in 1..HeaderSize + n
          PROVE  /\ c[p + i].stream = c[p + 1].stream
                 /\ c[p + i].at = i - HeaderSize
      <4>1. w[p + i].stream = w[p + 1].stream /\ w[p + i].at = i - HeaderSize
        BY <3>2 DEF WholeSegment
      <4>2. p + HeaderSize + n <= len /\ n \in Int /\ HeaderSize \in Int
        BY <3>3, <3>4, <1>1
      <4> HIDE DEF n
      <4>3. i \in Int /\ 1 <= i /\ i <= HeaderSize + n
        BY <4>2
      <4>4. p \in Int /\ 0 <= p /\ len \in Int
        BY <3>1, <1>1
      <4>5. p + i \in 1..len
        BY <4>2, <4>3, <4>4
      <4>6. QED  BY <3>1, <4>1, <4>5, <1>3
    <3>6. BoundaryOf(c, end) /\ end <= Len(c)
      BY <3>4, <1>1, <1>2, <1>5
    <3>7. QED  BY <3>1, <3>5, <3>6 DEF WholeSegment
  <2>2. CASE p >= len
    <3>1. PICK i \in 1..total : p + 1 = len + i
      <4>1. p + 1 - len \in 1..total /\ p + 1 = len + (p + 1 - len)
        BY <2>2, <1>1, <1>2
      <4>2. QED  BY <4>1
    <3>2. p = len
      <4>1. i - HeaderSize = 1 - HeaderSize  BY <3>1, <1>4, <1>6
      <4>2. QED  BY <4>1, <3>1, <1>1
    <3>3. c[p + 1].size = size /\ c[p + 1].stream = s
      BY <3>1, <1>4
    <3>4. \A j \in 1..total : c[p + j].stream = s /\ c[p + j].at = j - HeaderSize
      BY <3>2, <1>4
    <3>5. p + HeaderSize + size = Len(c)
      BY <3>2, <1>1, <1>2 DEF total
    <3>6. p + HeaderSize + c[p + 1].size = Len(c) /\ Len(c) \in Nat
      BY <3>3, <3>5, <1>1, <1>2
    <3>7. \A j \in 1..HeaderSize + c[p + 1].size :
            c[p + j].stream = c[p + 1].stream /\ c[p + j].at = j - HeaderSize
      BY <3>3, <3>4 DEF total
    <3>8. p + HeaderSize + c[p + 1].size <= Len(c)
      BY <3>6, <1>1, <1>2
    <3>9. BoundaryOf(c, p + HeaderSize + c[p + 1].size)
      BY <3>6 DEF BoundaryOf
    <3>10. QED  BY <3>7, <3>8, <3>9, Zenon DEF WholeSegment
  <2>3. QED  BY <2>1, <2>2, <1>1, <1>2
<1>7. BoundaryOf(c, 0)
  BY <1>1, <1>5 DEF Framed
<1>8. Framed(c)
  BY <1>6, <1>7 DEF Framed
<1>9. QED  BY <1>1, <1>2, <1>3, <1>5, <1>8 DEF c, len

-----------------------------------------------------------------------------
(* The sender.                                                             *)

\* Send() leaves the receiver in step and everything framed.
LEMMA SendInv == ASSUME Inv, NEW s \in Streams, NEW size \in 0..MaxBlockSize,
                        Send(s, size)
                 PROVE  Inv'
<1> USE DEF Inv
<1>1. /\ written \in Seq(Byte) /\ size \in Nat /\ segments \in Nat
      /\ Len(written) \in Nat
  BY LinkAssumption, LenProperties DEF TypeOK
<1>2. /\ Segment(s, size) \in Seq(Byte)
      /\ Len(Segment(s, size)) = HeaderSize + size
      /\ \A i \in 1..HeaderSize + size :
           /\ Segment(s, size)[i].stream = s
           /\ Segment(s, size)[i].size = size
           /\ Segment(s, size)[i].at = i - HeaderSize
  BY <1>1, SegmentBytes
<1>3. /\ written' = written \o Segment(s, size) /\ segments' = segments + 1
      /\ sent' = [sent EXCEPT ![s] =
           @ \o SubSeq(Segment(s, size), HeaderSize + 1, HeaderSize + size)]
      /\ UNCHANGED <<arrived, consumed, ended, eof, place, delivered, connections>>
  BY DEF Send
<1>4. /\ written' \in Seq(Byte) /\ Len(written') >= Len(written)
      /\ \A p \in 1..Len(written) : written'[p] = written[p]
      /\ \A p \in 0..Len(written) : BoundaryOf(written, p) => BoundaryOf(written', p)
      /\ Framed(written')
  <2> DEFINE block == Segment(s, size)
  <2> HIDE DEF block
  <2>1. /\ block \in Seq(Byte) /\ Len(block) = HeaderSize + size
        /\ \A i \in 1..HeaderSize + size :
             block[i].stream = s /\ block[i].size = size /\ block[i].at = i - HeaderSize
    BY <1>2 DEF block
  <2>2. /\ written \o block \in Seq(Byte) /\ Len(written \o block) >= Len(written)
        /\ \A p \in 1..Len(written) : (written \o block)[p] = written[p]
        /\ \A p \in 0..Len(written) :
             BoundaryOf(written, p) => BoundaryOf(written \o block, p)
        /\ Framed(written \o block)
    BY <1>1, <2>1, AppendSegment, Zenon
  <2>3. written' = written \o block  BY <1>3 DEF block
  <2>4. QED  BY <2>2, <2>3
<1>5. TypeOK'
  <2>1. sent' \in [Streams -> Seq(Byte)]
    <3>1. SubSeq(Segment(s, size), HeaderSize + 1, HeaderSize + size) \in Seq(Byte)
      BY <1>1, SegmentPayload
    <3>2. sent[s] \o SubSeq(Segment(s, size), HeaderSize + 1, HeaderSize + size)
            \in Seq(Byte)
      BY <3>1, ConcatProperties DEF TypeOK
    <3>3. QED  BY <1>3, <3>2 DEF TypeOK
  <2>2. QED  BY <2>1, <1>1, <1>3, <1>4, LenProperties DEF TypeOK, place
<1>6. InStep'
  <2> DEFINE end == consumed + (IF active THEN remaining ELSE 0)
  <2>1. end \in 0..Len(written) /\ consumed \in Nat /\ BoundaryOf(written, end)
    BY <1>1 DEF InStep, TypeOK, Boundary, BoundaryOf
  <2>2. BoundaryOf(written', end) /\ end <= Len(written')
    BY <2>1, <1>1, <1>4, LenProperties
  <2>3. ASSUME NEW p \in consumed + 1 .. end
        PROVE  written'[p].stream = reader /\ written'[p].at > 0
    <3>1. p \in 1..Len(written)  BY <2>1, <1>1
    <3>2. written'[p] = written[p]  BY <3>1, <1>4
    <3>3. QED  BY <3>2 DEF InStep
  <2>4. QED  BY <2>2, <2>3, <1>3 DEF InStep, place, Boundary, BoundaryOf
<1>7. QED  BY <1>4, <1>5, <1>6

-----------------------------------------------------------------------------
(* The receiver.                                                           *)

\* The segment Receive() works on is the one its place belongs to, and what
\* comes after the segment is a boundary.
LEMMA CurrentSegment ==
  ASSUME Inv, NEW segment \in Current
  PROVE  /\ segment.left \in Nat /\ segment.stream \in Streams
         /\ segment.header \in Nat /\ segment.header <= Len(Unread)
         /\ LET start == consumed + segment.header
                end == start + segment.left
            IN  /\ end <= Len(written) /\ Boundary(end)
                /\ \A p \in start + 1 .. end :
                     written[p].stream = segment.stream /\ written[p].at > 0
                /\ \A p \in consumed + 1 .. start : ~(written[p].at > 0)
<1> USE DEF Inv
<1>1. /\ Unread \in Seq(Byte) /\ Len(Unread) = arrived - consumed
      /\ \A i \in 1..Len(Unread) : Unread[i] = written[consumed + i]
  BY UnreadBytes
<1>2. /\ arrived \in 0..Len(written) /\ consumed \in 0..arrived
      /\ written \in Seq(Byte) /\ HeaderSize \in Nat /\ HeaderSize > 0
  BY LinkAssumption DEF TypeOK
<1>3. CASE active
  <2>1. segment = [stream |-> reader, left |-> remaining, header |-> 0]
    BY <1>3 DEF Current
  <2>2. QED
    BY <2>1, <1>1, <1>2, <1>3 DEF TypeOK, InStep
<1>4. CASE ~active
  <2>1. HeaderArrived /\ segment \in Header
    BY <1>4 DEF Current
  <2>2. Len(Unread) >= HeaderSize
    BY <2>1 DEF HeaderArrived
  <2>3. consumed \in 0..Len(written) - 1 /\ Unread # <<>>
    BY <2>2, <1>1, <1>2
  <2>4. written[consumed + 1].at = 1 - HeaderSize
    BY <2>3, <1>2, <1>4 DEF InStep, Boundary
  <2>5. Head(Unread) = written[consumed + 1]
    BY <2>2, <1>1, <1>2
  <2> DEFINE first == written[consumed + 1]
  <2>6. segment = [stream |-> first.stream, left |-> first.size, header |-> HeaderSize]
    BY <2>1, <2>4, <2>5 DEF Header
  <2>7. first \in Byte
    BY <2>3, <1>2
  <2>8. WholeSegment(written, consumed)
    BY <2>3, <2>4 DEF Framed
  <2>9. first.size \in Nat /\ first.stream \in Streams
    BY <2>7 DEF Byte
  <2>10. \A i \in 1..HeaderSize + first.size :
           written[consumed + i].stream = first.stream
             /\ written[consumed + i].at = i - HeaderSize
    BY <2>8 DEF WholeSegment
  <2>11. ASSUME NEW p \in consumed + HeaderSize + 1 .. consumed + HeaderSize + first.size
         PROVE  written[p].stream = first.stream /\ written[p].at > 0
    <3>1. p - consumed \in 1..HeaderSize + first.size /\ p = consumed + (p - consumed)
      BY <2>9, <1>2
    <3>2. written[p].at = (p - consumed) - HeaderSize /\ written[p].stream = first.stream
      BY <3>1, <2>10
    <3>3. QED  BY <3>2, <1>2, <2>9
  <2>12. /\ consumed + HeaderSize + first.size <= Len(written)
         /\ Boundary(consumed + HeaderSize + first.size)
    BY <2>8 DEF WholeSegment, Boundary, BoundaryOf
  <2>13. ASSUME NEW p \in consumed + 1 .. consumed + HeaderSize
         PROVE  ~(written[p].at > 0)
    <3>1. p - consumed \in 1..HeaderSize + first.size /\ p = consumed + (p - consumed)
      BY <2>9, <1>2
    <3>2. written[p].at = (p - consumed) - HeaderSize
      BY <3>1, <2>10
    <3>3. QED  BY <3>2, <1>2
  <2>14. QED
    BY <2>2, <2>6, <2>9, <2>11, <2>12, <2>13, <1>2
<1>5. QED  BY <1>3, <1>4

\* A later start makes an interval smaller.
LEMMA ShorterInterval ==
  ASSUME NEW a \in Int, NEW b \in Int, NEW c \in Int, a <= b,
         NEW p \in b + 1 .. c
  PROVE  p \in a + 1 .. c
OBVIOUS

\* Receive() moves on within its segment, or to the boundary after it.
LEMMA ReceiveInv == ASSUME Inv, NEW s \in Streams, Receive(s)
                    PROVE  Inv'
<1>1. PICK segment \in Current :
        \E n \in Taken(s, segment, Len(Unread) - segment.header) :
          /\ consumed' = consumed + segment.header + n
          /\ delivered' = [delivered EXCEPT ![s] =
               @ \o SubSeq(Unread, segment.header + 1, segment.header + n)]
          /\ reader' = segment.stream
          /\ remaining' = segment.left - n
          /\ active' = ~Done(s, segment, remaining')
  BY Zenon DEF Receive
<1>2. PICK n \in Taken(s, segment, Len(Unread) - segment.header) :
        /\ consumed' = consumed + segment.header + n
        /\ delivered' = [delivered EXCEPT ![s] =
             @ \o SubSeq(Unread, segment.header + 1, segment.header + n)]
        /\ reader' = segment.stream
        /\ remaining' = segment.left - n
        /\ active' = ~Done(s, segment, remaining')
  BY <1>1, Zenon
<1>3. UNCHANGED <<written, arrived, ended, eof, segments, sent, connections>>
  BY DEF Receive
<1> DEFINE start == consumed + segment.header
           end == start + segment.left
<1>4. /\ segment.left \in Nat /\ segment.stream \in Streams
      /\ segment.header \in Nat /\ segment.header <= Len(Unread)
      /\ end <= Len(written) /\ Boundary(end)
      /\ \A p \in start + 1 .. end :
           written[p].stream = segment.stream /\ written[p].at > 0
  BY CurrentSegment
<1>5. /\ Unread \in Seq(Byte) /\ Len(Unread) = arrived - consumed
      /\ Len(written) \in Nat /\ arrived \in 0..Len(written) /\ consumed \in 0..arrived
  BY UnreadBytes, LenProperties DEF Inv, TypeOK
<1>6. n \in Nat /\ n <= segment.left /\ n <= Len(Unread) - segment.header
  <2>1. Len(Unread) - segment.header \in Nat  BY <1>4, <1>5
  <2>2. QED  BY <1>4, <2>1, TakenBounds
<1>7. /\ consumed' \in 0..arrived /\ remaining' \in Nat
      /\ start \in Nat /\ start <= consumed'
      /\ consumed' + remaining' = end
  <2> DEFINE header == segment.header
             left == segment.left
  <2>1. consumed' = consumed + header + n /\ remaining' = left - n
    BY <1>2
  <2>2. header \in Nat /\ left \in Nat /\ n \in Nat /\ n <= left
    BY <1>4, <1>6
  <2>3. /\ arrived \in Nat /\ consumed \in Nat /\ consumed <= arrived
        /\ n <= arrived - consumed - header
    BY <1>5, <1>6
  <2>4. start = consumed + header /\ end = consumed + header + left
    BY <2>2, <2>3
  <2> HIDE DEF header, left, start, end
  <2>5. QED  BY <2>1, <2>2, <2>3, <2>4
<1>8. TypeOK'
  <2>1. consumed' \in 0..arrived /\ remaining' \in Nat
    BY <1>7
  <2>2. active' \in BOOLEAN /\ reader' \in Streams
    BY <1>2, <1>4 DEF Done
  <2>3. SubSeq(Unread, segment.header + 1, segment.header + n) \in Seq(Byte)
    <3>1. segment.header + 1 \in Int /\ segment.header + n \in Int
      BY <1>4, <1>6
    <3>2. \A i \in segment.header + 1 .. segment.header + n : i \in 1..Len(Unread)
      BY <1>4, <1>5, <1>6
    <3>3. \A i \in segment.header + 1 .. segment.header + n : Unread[i] \in Byte
      BY <1>5, <3>2, ElementOfSeq
    <3>4. QED  BY <3>1, <3>3, SubSeqProperties
  <2>4. delivered' \in [Streams -> Seq(Byte)]
    <3>1. delivered \in [Streams -> Seq(Byte)]  BY DEF Inv, TypeOK
    <3>2. delivered[s] \o SubSeq(Unread, segment.header + 1, segment.header + n)
            \in Seq(Byte)
      BY <2>3, <3>1, ConcatProperties
    <3>3. QED  BY <1>2, <3>1, <3>2
  <2>5. QED  BY <1>3, <2>1, <2>2, <2>4 DEF Inv, TypeOK
<1>9. InStep'
  <2>1. consumed' + (IF active' THEN remaining' ELSE 0) = end
    <3>1. consumed' + remaining' = end /\ consumed' \in Nat  BY <1>7, <1>5
    <3> HIDE DEF end
    <3>2. CASE active'  BY <3>1, <3>2
    <3>3. CASE ~active'
      <4>1. remaining' = 0  BY <1>2, <3>3 DEF Done
      <4>2. QED  BY <3>1, <3>3, <4>1
    <3>4. QED  BY <3>2, <3>3
  <2>3. \A p \in consumed' + 1 .. end :
          written[p].stream = segment.stream /\ written[p].at > 0
    <3>1. ASSUME NEW p \in consumed' + 1 .. end
          PROVE  p \in start + 1 .. end
      <4>1. start \in Int /\ start <= consumed' /\ consumed' \in Int
        BY <1>7, <1>5
      <4>2. end \in Int  BY <1>7, <1>4
      <4> HIDE DEF start, end
      <4>3. QED  BY <4>1, <4>2, ShorterInterval, Zenon
    <3>2. QED  BY <1>4, <3>1
  <2> HIDE DEF end
  <2>4. end <= Len(written') /\ BoundaryOf(written', end)
    BY <1>3, <1>4 DEF Boundary, BoundaryOf
  <2>5. QED  BY <1>2, <1>3, <2>1, <2>3, <2>4 DEF InStep, Boundary, BoundaryOf
<1>10. Framed(written)'
  BY <1>3 DEF Inv, Framed, WholeSegment, BoundaryOf
<1>11. QED  BY <1>8, <1>9, <1>10 DEF Inv

-----------------------------------------------------------------------------
(* The transport, and a new connection.                                    *)

\* What the transport does on its own is not seen in the place.
LEMMA TransportInv == ASSUME Inv, Arrive \/ SeeEnd \/ Shutdown
                      PROVE  Inv'
<1>1. /\ UNCHANGED <<written, consumed, place, history>>
      /\ arrived' \in arrived..Len(written)
      /\ ended' \in BOOLEAN /\ eof' \in BOOLEAN
  <2>1. Len(written) \in Nat /\ arrived \in 0..Len(written)
    BY LenProperties DEF Inv, TypeOK
  <2>2. CASE Arrive
    BY <2>1, <2>2 DEF Inv, TypeOK, Arrive, Transport!Arrive
  <2>3. CASE SeeEnd
    BY <2>1, <2>3 DEF Inv, TypeOK, SeeEnd, Transport!SeeEnd
  <2>4. CASE Shutdown
    BY <2>1, <2>4 DEF Inv, TypeOK, Shutdown, Transport!End
  <2>5. QED  BY <2>2, <2>3, <2>4
<1>2. TypeOK'
  BY <1>1, LenProperties DEF Inv, TypeOK, place, history
<1>3. InStep'
  BY <1>1 DEF Inv, InStep, Boundary, place
<1>4. Framed(written)'
  BY <1>1 DEF Inv, Framed, WholeSegment, BoundaryOf
<1>5. QED  BY <1>2, <1>3, <1>4 DEF Inv

\* No bytes are framed.
LEMMA NothingFramed == Framed(<<>>) /\ BoundaryOf(<<>>, 0)
BY EmptySeq DEF Framed, BoundaryOf

\* No bytes, and no segment begun.
Fresh ==
  /\ written = <<>> /\ arrived = 0 /\ consumed = 0
  /\ active = FALSE /\ reader \in Streams /\ remaining \in Nat
  /\ ended \in BOOLEAN /\ eof \in BOOLEAN
  /\ segments \in Nat /\ connections \in Nat
  /\ sent \in [Streams -> Seq(Byte)] /\ delivered \in [Streams -> Seq(Byte)]

\* With no bytes, and no segment begun, the receiver is in step.
LEMMA FreshInv == Fresh => Inv
<1> SUFFICES ASSUME Fresh PROVE Inv  OBVIOUS
<1>1. written \in Seq(Byte) /\ Len(written) = 0
  BY EmptySeq DEF Fresh
<1>2. TypeOK
  <2>1. arrived \in 0..Len(written) /\ consumed \in 0..arrived
    BY <1>1 DEF Fresh
  <2>2. active \in BOOLEAN  BY DEF Fresh
  <2>3. QED  BY <1>1, <2>1, <2>2, Zenon DEF TypeOK, Fresh
<1>3. InStep
  BY <1>1 DEF InStep, Boundary, Fresh
<1>4. QED  BY <1>2, <1>3, NothingFramed DEF Inv, Fresh

\* The first state.
LEMMA InitInv == Init => Inv
<1> SUFFICES ASSUME Init PROVE Inv  OBVIOUS
<1>1. sent \in [Streams -> Seq(Byte)] /\ delivered \in [Streams -> Seq(Byte)]
  BY EmptySeq DEF Init
<1>2. QED  BY <1>1, FreshInv, LinkAssumption DEF Init, Fresh

\* A new connection that the Link is told of starts anew.
LEMMA ReopenInv == ASSUME Inv, NEW how \in {"SetTransport", "Close"}, Reopen(how)
                   PROVE  Inv'
<1>1. /\ written' = <<>> /\ arrived' = 0 /\ consumed' = 0
      /\ ended' = FALSE /\ eof' = FALSE /\ segments' = 0
      /\ reader' = reader /\ remaining' = remaining
  BY DEF Reopen
<1>2. connections' \in Nat /\ reader' \in Streams /\ remaining' \in Nat
  <2>1. connections \in Nat /\ reader \in Streams /\ remaining \in Nat
    BY DEF Inv, TypeOK
  <2>2. connections' = connections + 1  BY DEF Reopen
  <2>3. QED  BY <1>1, <2>1, <2>2
<1>3. active' = FALSE
  <2>1. how # "Connect"  OBVIOUS
  <2>2. active' = (active /\ how = "Connect")  BY DEF Reopen
  <2>3. QED  BY <2>1, <2>2
<1>4. sent' \in [Streams -> Seq(Byte)] /\ delivered' \in [Streams -> Seq(Byte)]
  BY EmptySeq DEF Reopen
<1>5. Fresh'  BY <1>1, <1>2, <1>3, <1>4 DEF Fresh
<1>6. Fresh' => Inv'  BY FreshInv, PTL
<1>7. QED  BY <1>5, <1>6

\* Every step keeps the receiver in step.
LEMMA NextInv == ASSUME "Connect" \notin Reopenings, Inv, [Next]_vars
                 PROVE  Inv'
<1>1. CASE UNCHANGED vars
  BY <1>1 DEF Inv, TypeOK, InStep, Framed, WholeSegment, BoundaryOf, Boundary,
              vars, transport, place, history
<1>2. CASE Arrive \/ SeeEnd \/ Shutdown  BY <1>2, TransportInv
<1>3. CASE \E s \in Streams, size \in 0..MaxBlockSize : Send(s, size)
  BY <1>3, SendInv
<1>4. CASE \E s \in Streams : Receive(s)  BY <1>4, ReceiveInv
<1>5. CASE \E how \in Reopenings : Reopen(how)
  <2>1. \A how \in Reopenings : how \in {"SetTransport", "Close"}
    BY LinkAssumption
  <2>2. QED  BY <1>5, <2>1, ReopenInv
<1>6. QED  BY <1>1, <1>2, <1>3, <1>4, <1>5 DEF Next

-----------------------------------------------------------------------------
(* Counting the payload bytes of a stream.                                 *)

IsPayload(w, s, q) == w[q].stream = s /\ w[q].at > 0
Marks(w, s, p) == {q \in 1..p : IsPayload(w, s, q)}
Count(w, s, p) == Cardinality(Marks(w, s, p))

\* The bytes counted are finitely many.
LEMMA CountType ==
  ASSUME NEW w, NEW s, NEW p \in Nat
  PROVE  IsFiniteSet(Marks(w, s, p)) /\ Count(w, s, p) \in Nat
<1>1. IsFiniteSet(1..p)
  BY FS_Interval
<1>2. Marks(w, s, p) \in SUBSET (1..p)
  BY DEF Marks
<1>3. IsFiniteSet(Marks(w, s, p))
  BY <1>1, <1>2, FS_Subset
<1>4. QED  BY <1>3, FS_CardinalityType DEF Count

\* No bytes, none of the stream.
LEMMA CountNothing == \A w, s : Count(w, s, 0) = 0
<1> TAKE w, s
<1>1. Marks(w, s, 0) = {}
  BY DEF Marks
<1>2. QED  BY <1>1, FS_EmptySet DEF Count

\* More bytes, no fewer of the stream.
LEMMA CountGrows ==
  ASSUME NEW w, NEW s, NEW a \in Nat, NEW b \in Nat, a <= b
  PROVE  Count(w, s, a) <= Count(w, s, b)
<1>1. Marks(w, s, a) \in SUBSET Marks(w, s, b)
  BY DEF Marks
<1>2. QED  BY <1>1, CountType, FS_Subset DEF Count

\* The count depends on the bytes counted.
LEMMA CountSame ==
  ASSUME NEW w, NEW v, NEW s, NEW p \in Nat, \A q \in 1..p : w[q] = v[q]
  PROVE  Count(w, s, p) = Count(v, s, p)
<1>1. Marks(w, s, p) = Marks(v, s, p)
  BY DEF Marks, IsPayload
<1>2. QED  BY <1>1 DEF Count

\* Bytes of headers and of other streams do not count.
LEMMA CountNone ==
  ASSUME NEW w, NEW s, NEW a \in Nat, NEW b \in Nat, a <= b,
         \A q \in a + 1 .. b : ~IsPayload(w, s, q)
  PROVE  Count(w, s, b) = Count(w, s, a)
<1>1. Marks(w, s, b) = Marks(w, s, a)
  <2>1. ASSUME NEW q \in 1..b, IsPayload(w, s, q) PROVE q \in 1..a
    <3>1. q \notin a + 1 .. b
      BY <2>1
    <3>2. QED  BY <3>1
  <2>2. 1..a \subseteq 1..b
    OBVIOUS
  <2>3. QED  BY <2>1, <2>2 DEF Marks
<1>2. QED  BY <1>1 DEF Count

\* Bytes of the stream's own payload all do.
LEMMA CountAll ==
  ASSUME NEW w, NEW s, NEW a \in Nat, NEW n \in Nat,
         \A q \in a + 1 .. a + n : IsPayload(w, s, q)
  PROVE  Count(w, s, a + n) = Count(w, s, a) + n
<1>1. Marks(w, s, a + n) = Marks(w, s, a) \cup (a + 1 .. a + n)
  <2>1. ASSUME NEW q \in 1..a + n, q \notin a + 1 .. a + n PROVE q \in 1..a
    BY <2>1
  <2>2. 1..a \subseteq 1..a + n /\ a + 1 .. a + n \subseteq 1..a + n
    OBVIOUS
  <2>3. QED  BY <2>1, <2>2 DEF Marks
<1>2. Marks(w, s, a) \cap (a + 1 .. a + n) = {}
  BY DEF Marks
<1>3. IsFiniteSet(a + 1 .. a + n) /\ Cardinality(a + 1 .. a + n) = n
  <2>1. a + 1 \in Int /\ a + n \in Int
    OBVIOUS
  <2>2. /\ IsFiniteSet(a + 1 .. a + n)
        /\ Cardinality(a + 1 .. a + n)
             = IF a + 1 > a + n THEN 0 ELSE (a + n) - (a + 1) + 1
    BY <2>1, FS_Interval
  <2>3. QED  BY <2>2
<1>4. IsFiniteSet(Marks(w, s, a)) /\ Cardinality(Marks(w, s, a)) \in Nat
  BY CountType DEF Count
<1> DEFINE S == Marks(w, s, a)
           T == a + 1 .. a + n
<1> HIDE DEF S, T
<1>5. Cardinality(S \cup T) = Cardinality(S) + Cardinality(T) - Cardinality(S \cap T)
  BY <1>3, <1>4, FS_Union DEF S, T
<1>6. Cardinality(S \cap T) = 0
  <2>1. S \cap T = {}
    BY <1>2 DEF S, T
  <2>2. Cardinality({}) = 0
    BY FS_EmptySet
  <2>3. QED  BY <2>1, <2>2
<1>7. Count(w, s, a + n) = Cardinality(S \cup T) /\ Count(w, s, a) = Cardinality(S)
  BY Zenon, <1>1 DEF S, T, Count
<1>8. Cardinality(T) = n /\ Cardinality(S) \in Nat
  BY Zenon, <1>3, <1>4 DEF S, T
<1>9. QED  BY <1>5, <1>6, <1>7, <1>8

-----------------------------------------------------------------------------
(* Where the bytes of a stream are.                                        *)

\* The payload bytes of stream s among the bytes w are out, in order.
Carries(w, s, out) ==
  /\ out \in Seq(Byte) /\ Len(out) = Count(w, s, Len(w))
  /\ \A p \in 1..Len(w) : IsPayload(w, s, p) => out[Count(w, s, p)] = w[p]

\* What was read of stream s are the first of its bytes, as many as Receive()
\* has passed.
StreamInv(s) ==
  /\ Carries(written, s, sent[s])
  /\ delivered[s] = SubSeq(sent[s], 1, Count(written, s, consumed))

\* A payload byte has its place in the stream.
LEMMA PayloadPlace ==
  ASSUME NEW w \in Seq(Byte), NEW s, NEW out, Carries(w, s, out),
         NEW p \in 1..Len(w), IsPayload(w, s, p)
  PROVE  Count(w, s, p) \in 1..Len(out)
<1>1. Len(w) \in Nat /\ p \in Nat /\ p - 1 \in Nat /\ p <= Len(w)
  BY LenProperties
<1>2. Count(w, s, p) = Count(w, s, p - 1) + 1
  <2> DEFINE a == p - 1
  <2>1. a \in Nat /\ 1 \in Nat /\ a + 1 = p
    BY <1>1
  <2>2. \A q \in a + 1 .. a + 1 : IsPayload(w, s, q)
    BY <2>1
  <2> HIDE DEF a
  <2>3. Count(w, s, a + 1) = Count(w, s, a) + 1
    BY <2>1, <2>2, CountAll
  <2>4. QED  BY <2>1, <2>3 DEF a
<1>3. Count(w, s, p - 1) \in Nat
  BY <1>1, CountType
<1>4. Count(w, s, p) <= Count(w, s, Len(w)) /\ Count(w, s, Len(w)) \in Nat
  BY <1>1, CountGrows, CountType
<1>5. Len(out) = Count(w, s, Len(w))
  BY DEF Carries
<1>6. QED  BY <1>2, <1>3, <1>4, <1>5

\* A segment of another stream brings the stream nothing.
LEMMA CarryOther ==
  ASSUME NEW w \in Seq(Byte), NEW c \in Seq(Byte), Len(w) <= Len(c),
         \A p \in 1..Len(w) : c[p] = w[p],
         NEW s, NEW out, Carries(w, s, out),
         \A p \in Len(w) + 1 .. Len(c) : ~IsPayload(c, s, p)
  PROVE  Carries(c, s, out)
<1>1. Len(w) \in Nat /\ Len(c) \in Nat
  BY LenProperties
<1>2. ASSUME NEW p \in 0..Len(w) PROVE Count(c, s, p) = Count(w, s, p)
  <2>1. p \in Nat /\ \A q \in 1..p : c[q] = w[q]
    BY <1>1
  <2>2. QED  BY <2>1, CountSame
<1>3. Len(out) = Count(c, s, Len(c))
  <2>1. Count(c, s, Len(c)) = Count(c, s, Len(w))
    BY <1>1, CountNone
  <2>2. Count(c, s, Len(w)) = Count(w, s, Len(w))
    BY <1>1, <1>2
  <2>3. QED  BY <2>1, <2>2 DEF Carries
<1>4. ASSUME NEW p \in 1..Len(c), IsPayload(c, s, p)
      PROVE  out[Count(c, s, p)] = c[p]
  <2>1. p \in 1..Len(w)
    <3>1. p \notin Len(w) + 1 .. Len(c)
      BY <1>4
    <3>2. QED  BY <1>1, <3>1
  <2>2. IsPayload(w, s, p) /\ c[p] = w[p]
    BY <1>4, <2>1 DEF IsPayload
  <2>3. Count(c, s, p) = Count(w, s, p)
    BY <1>2, <2>1
  <2>4. out[Count(w, s, p)] = w[p]
    BY <2>1, <2>2 DEF Carries
  <2>5. QED  BY <2>2, <2>3, <2>4
<1>5. QED  BY <1>3, <1>4 DEF Carries

\* After the bytes w come others up to a, then n of stream s, which are also
\* what comes in more after out.
Brings(w, c, a, n, s, out, more) ==
  /\ Len(w) <= a /\ Len(c) = a + n /\ \A p \in 1..Len(w) : c[p] = w[p]
  /\ \A p \in Len(w) + 1 .. a : ~IsPayload(c, s, p)
  /\ \A p \in a + 1 .. a + n : IsPayload(c, s, p)
  /\ Len(more) = Len(out) + n /\ \A i \in 1..Len(out) : more[i] = out[i]
  /\ \A i \in 1..n : more[Len(out) + i] = c[a + i]

\* A segment of the stream brings it its payload.
LEMMA CarryOwn ==
  ASSUME NEW w \in Seq(Byte), NEW c \in Seq(Byte), NEW a \in Nat, NEW n \in Nat,
         NEW s, NEW out, NEW more \in Seq(Byte),
         Carries(w, s, out), Brings(w, c, a, n, s, out, more)
  PROVE  Carries(c, s, more)
<1> USE DEF Brings
<1>1. Len(w) \in Nat /\ Len(c) \in Nat /\ out \in Seq(Byte) /\ Len(out) \in Nat
  BY LenProperties DEF Carries
<1>2. ASSUME NEW p \in 0..Len(w) PROVE Count(c, s, p) = Count(w, s, p)
  <2>1. p \in Nat /\ \A q \in 1..p : c[q] = w[q]
    BY <1>1
  <2>2. QED  BY <2>1, CountSame
<1>3. Count(c, s, a) = Len(out)
  <2>1. Count(c, s, a) = Count(c, s, Len(w))
    BY <1>1, CountNone
  <2>2. Count(c, s, Len(w)) = Count(w, s, Len(w))
    BY <1>1, <1>2
  <2>3. QED  BY <2>1, <2>2 DEF Carries
<1>4. ASSUME NEW i \in 0..n PROVE Count(c, s, a + i) = Len(out) + i
  <2>1. i \in Nat /\ \A q \in a + 1 .. a + i : IsPayload(c, s, q)
    BY <1>4
  <2>2. Count(c, s, a + i) = Count(c, s, a) + i
    BY <2>1, CountAll
  <2>3. QED  BY <1>3, <2>2
<1>5. Len(more) = Count(c, s, Len(c))
  <2>1. n \in 0..n
    OBVIOUS
  <2>2. Count(c, s, a + n) = Len(out) + n
    BY <1>4, <2>1
  <2>3. QED  BY <2>2
<1>6. ASSUME NEW p \in 1..Len(c), IsPayload(c, s, p)
      PROVE  more[Count(c, s, p)] = c[p]
  <2>1. CASE p <= Len(w)
    <3>1. p \in 1..Len(w) /\ p \in 0..Len(w)
      BY <1>1, <2>1
    <3>2. IsPayload(w, s, p) /\ c[p] = w[p]
      BY <1>6, <3>1 DEF IsPayload
    <3>3. Count(c, s, p) = Count(w, s, p)
      BY <1>2, <3>1
    <3>4. out[Count(w, s, p)] = w[p]
      BY <3>1, <3>2 DEF Carries
    <3>5. Count(w, s, p) \in 1..Len(out)
      BY <3>1, <3>2, PayloadPlace
    <3>6. QED  BY <3>2, <3>3, <3>4, <3>5
  <2>2. CASE p > Len(w)
    <3>1. p > a
      BY <1>1, <1>6, <2>2
    <3>2. PICK i \in 1..n : p = a + i
      <4>1. p - a \in 1..n /\ p = a + (p - a)
        BY <1>1, <3>1
      <4>2. QED  BY <4>1
    <3>3. Count(c, s, p) = Len(out) + i
      BY <1>4, <3>2
    <3>4. QED  BY <3>2, <3>3
  <2>3. QED  BY <1>1, <2>1, <2>2
<1>7. QED  BY <1>5, <1>6 DEF Carries

\* The first bytes of a sequence.
LEMMA HeadOfSeq ==
  ASSUME NEW t \in Seq(Byte), NEW k \in 0..Len(t)
  PROVE  /\ SubSeq(t, 1, k) \in Seq(Byte) /\ Len(SubSeq(t, 1, k)) = k
         /\ \A i \in 1..k : SubSeq(t, 1, k)[i] = t[i]
<1>1. Len(t) \in Nat /\ k \in Nat /\ \A i \in 1..k : i \in 1..Len(t)
  BY LenProperties
<1>2. \A i \in 1..k : t[i] \in Byte
  BY <1>1, ElementOfSeq
<1>3. /\ SubSeq(t, 1, k) \in Seq(Byte)
      /\ Len(SubSeq(t, 1, k)) = IF 1 <= k THEN k - 1 + 1 ELSE 0
      /\ \A i \in 1 .. k - 1 + 1 : SubSeq(t, 1, k)[i] = t[1 + i - 1]
  <2>1. 1 \in Int /\ k \in Int
    BY <1>1
  <2>2. QED  BY <2>1, <1>2, SubSeqProperties
<1>4. QED  BY <1>1, <1>3

\* From a place on, bytes that are not of stream s are passed, then a piece of
\* n that are is taken.
Reads(w, s, from, start, n, piece) ==
  /\ from <= start /\ start + n <= Len(w)
  /\ \A q \in from + 1 .. start : ~IsPayload(w, s, q)
  /\ \A q \in start + 1 .. start + n : IsPayload(w, s, q)
  /\ piece \in Seq(Byte) /\ Len(piece) = n
  /\ \A i \in 1..n : piece[i] = w[start + i]

\* The piece is what comes in out after its first a bytes, up to its b-th.
Continues(out, a, b, piece) ==
  b <= Len(out) /\ SubSeq(out, 1, a) \o piece = SubSeq(out, 1, b)

\* Receive() takes the next bytes of its stream.
LEMMA DeliverOwn ==
  ASSUME NEW w \in Seq(Byte), NEW s, NEW out, Carries(w, s, out),
         NEW from \in Nat, NEW start \in Nat, NEW n \in Nat, NEW piece,
         Reads(w, s, from, start, n, piece)
  PROVE  /\ Count(w, s, start + n) = Count(w, s, from) + n
         /\ Continues(out, Count(w, s, from), Count(w, s, start + n), piece)
<1> USE DEF Reads, Continues
<1> DEFINE m == Count(w, s, from)
<1>1. /\ Len(w) \in Nat /\ out \in Seq(Byte) /\ Len(out) \in Nat
      /\ Len(out) = Count(w, s, Len(w)) /\ m \in Nat
  BY LenProperties, CountType DEF Carries
<1>2. Count(w, s, start) = m
  BY CountNone
<1>3. ASSUME NEW i \in 0..n PROVE Count(w, s, start + i) = m + i
  <2>1. i \in Nat /\ \A q \in start + 1 .. start + i : IsPayload(w, s, q)
    BY <1>3
  <2>2. Count(w, s, start + i) = Count(w, s, start) + i
    BY <2>1, CountAll
  <2>3. QED  BY <1>2, <2>2
<1>4. Count(w, s, start + n) = m + n
  BY <1>3
<1>5. m + n <= Len(out)
  <2>1. start + n \in Nat
    OBVIOUS
  <2>2. Count(w, s, start + n) <= Count(w, s, Len(w))
    BY <1>1, <2>1, CountGrows
  <2>3. QED  BY <1>1, <1>4, <2>2
<1>6. ASSUME NEW i \in 1..n PROVE out[m + i] = piece[i]
  <2>1. start + i \in 1..Len(w) /\ IsPayload(w, s, start + i)
    BY <1>1
  <2>2. out[Count(w, s, start + i)] = w[start + i]
    BY <2>1 DEF Carries
  <2>3. QED  BY <1>3, <2>2
<1> HIDE DEF m
<1>7. SubSeq(out, 1, m) \o piece = SubSeq(out, 1, m + n)
  <2> DEFINE head == SubSeq(out, 1, m)
             all == SubSeq(out, 1, m + n)
  <2>1. /\ head \in Seq(Byte) /\ Len(head) = m
        /\ \A i \in 1..m : head[i] = out[i]
    BY <1>1, <1>5, HeadOfSeq
  <2>2. /\ all \in Seq(Byte) /\ Len(all) = m + n
        /\ \A i \in 1..m + n : all[i] = out[i]
    BY <1>1, <1>5, HeadOfSeq
  <2> HIDE DEF head, all
  <2>3. /\ head \o piece \in Seq(Byte) /\ Len(head \o piece) = m + n
        /\ \A i \in 1..m + n :
             (head \o piece)[i] = IF i <= m THEN head[i] ELSE piece[i - m]
    <3>1. /\ head \o piece \in Seq(Byte)
          /\ Len(head \o piece) = Len(head) + Len(piece)
          /\ \A i \in 1 .. Len(head) + Len(piece) :
               (head \o piece)[i] = IF i <= Len(head) THEN head[i] ELSE piece[i - Len(head)]
      BY <2>1, ConcatProperties, Zenon
    <3>2. QED  BY <2>1, <3>1
  <2>4. ASSUME NEW i \in 1..m + n PROVE (head \o piece)[i] = all[i]
    <3>1. CASE i <= m
      BY <1>1, <2>1, <2>2, <2>3, <3>1
    <3>2. CASE ~(i <= m)
      <4>1. i - m \in 1..n /\ m + (i - m) = i
        BY <1>1, <3>2
      <4>2. out[m + (i - m)] = piece[i - m]
        BY <1>6, <4>1
      <4>3. QED  BY <2>2, <2>3, <3>2, <4>1, <4>2
    <3>3. QED  BY <3>1, <3>2
  <2>5. /\ Len(head \o piece) = Len(all)
        /\ \A i \in 1 .. Len(head \o piece) : (head \o piece)[i] = all[i]
    BY <2>2, <2>3, <2>4
  <2>6. head \o piece = all
    BY ONLY <2>2, <2>3, <2>5, SeqEqual
  <2>7. QED  BY <2>6 DEF head, all
<1>8. QED  BY <1>4, <1>5, <1>7 DEF m

-----------------------------------------------------------------------------
(* Every step is a step of each stream, or a new connection, or not seen.  *)

StreamStep(s) ==
  \/ UNCHANGED <<sent[s], Payload(s, arrived), delivered[s], ended, eof>>
  \/ /\ ~ended /\ IsStrictPrefix(sent[s], sent'[s])
     /\ UNCHANGED <<Payload(s, arrived), delivered[s], ended, eof>>
  \/ /\ Payload(s, arrived)' \in Payload(s, arrived) + 1 .. Len(sent[s]) /\ ~eof
     /\ UNCHANGED <<sent[s], delivered[s], ended, eof>>
  \/ /\ IsStrictPrefix(delivered[s], delivered'[s])
     /\ Len(delivered'[s]) <= Payload(s, arrived) /\ IsPrefix(delivered'[s], sent[s])
     /\ UNCHANGED <<sent[s], Payload(s, arrived), ended, eof>>
  \/ /\ ~ended /\ ended' = TRUE
     /\ UNCHANGED <<sent[s], Payload(s, arrived), delivered[s], eof>>
  \/ /\ ended /\ Payload(s, arrived) = Len(sent[s]) /\ ~eof /\ eof' = TRUE
     /\ UNCHANGED <<sent[s], Payload(s, arrived), delivered[s], ended>>
  \/ /\ sent'[s] = <<>> /\ Payload(s, arrived)' = 0 /\ delivered'[s] = <<>>
     /\ ended' = FALSE /\ eof' = FALSE

\* Link counts as the proofs do.
LEMMA PayloadCount == \A s, p : Payload(s, p) = Count(written, s, p)
BY DEF Payload, Count, Marks, IsPayload

\* A sequence and what is appended to it have the same head.
LEMMA HeadOfMore ==
  ASSUME NEW out \in Seq(Byte), NEW more \in Seq(Byte), Len(out) <= Len(more),
         \A i \in 1..Len(out) : more[i] = out[i], NEW k \in 0..Len(out)
  PROVE  SubSeq(more, 1, k) = SubSeq(out, 1, k)
<1> DEFINE a == SubSeq(more, 1, k)
           b == SubSeq(out, 1, k)
<1>1. Len(out) \in Nat /\ Len(more) \in Nat /\ k \in 0..Len(more)
  BY LenProperties
<1>2. a \in Seq(Byte) /\ Len(a) = k /\ \A i \in 1..k : a[i] = more[i]
  BY <1>1, HeadOfSeq
<1>3. b \in Seq(Byte) /\ Len(b) = k /\ \A i \in 1..k : b[i] = out[i]
  BY HeadOfSeq
<1> HIDE DEF a, b
<1>4. Len(a) = Len(b) /\ \A i \in 1..Len(a) : a[i] = b[i]
  <2>1. \A i \in 1..k : i \in 1..Len(out)
    BY <1>1
  <2>2. QED  BY <1>2, <1>3, <2>1
<1>5. a = b
  BY ONLY <1>2, <1>3, <1>4, SeqEqual
<1>6. QED  BY <1>5 DEF a, b

\* A longer head of a sequence extends a shorter one.
LEMMA HeadsGrow ==
  ASSUME NEW out \in Seq(Byte), NEW a \in Nat, NEW b \in Nat, a <= b, b <= Len(out)
  PROVE  /\ Len(SubSeq(out, 1, b)) = b /\ IsPrefix(SubSeq(out, 1, b), out)
         /\ a < b => IsStrictPrefix(SubSeq(out, 1, a), SubSeq(out, 1, b))
<1> DEFINE x == SubSeq(out, 1, a)
           y == SubSeq(out, 1, b)
<1>1. Len(out) \in Nat /\ a \in 0..Len(out) /\ b \in 0..Len(out)
  BY LenProperties
<1>2. x \in Seq(Byte) /\ Len(x) = a /\ \A i \in 1..a : x[i] = out[i]
  BY <1>1, HeadOfSeq
<1>3. y \in Seq(Byte) /\ Len(y) = b /\ \A i \in 1..b : y[i] = out[i]
  BY <1>1, HeadOfSeq
<1> HIDE DEF x, y
<1>4. IsPrefix(y, out)
  <2>1. SubSeq(out, 1, b) = SubSeq(y, 1, b)
    <3>1. Len(y) <= Len(out) /\ b \in 0..Len(y) /\ \A i \in 1..Len(y) : out[i] = y[i]
      BY <1>1, <1>3
    <3>2. QED  BY ONLY <1>3, <3>1, out \in Seq(Byte), HeadOfMore
  <2>2. QED  BY <1>1, <1>3, <2>1 DEF IsPrefix
<1>5. ASSUME a < b PROVE IsStrictPrefix(x, y)
  <2>1. SubSeq(y, 1, a) = SubSeq(x, 1, a)
    <3>1. Len(x) <= Len(y) /\ a \in 0..Len(x)
      BY <1>2, <1>3
    <3>2. \A i \in 1..Len(x) : y[i] = x[i]
      BY <1>1, <1>2, <1>3
    <3>3. QED  BY ONLY <1>2, <1>3, <3>1, <3>2, HeadOfMore
  <2>2. x # y
    BY <1>2, <1>3, <1>5
  <2>3. Len(x) <= Len(y)
    BY <1>2, <1>3
  <2>4. SubSeq(x, 1, Len(x)) = SubSeq(y, 1, Len(x))
    BY <1>2, <2>1
  <2>5. QED  BY Zenon, <2>2, <2>3, <2>4 DEF IsPrefix, IsStrictPrefix
<1>6. QED  BY <1>3, <1>4, <1>5 DEF x, y

\* Send() writes to one stream, if it sends anything.
LEMMA SendStream ==
  ASSUME Inv, NEW t \in Streams, NEW size \in 0..MaxBlockSize, Send(t, size),
         NEW s \in Streams, StreamInv(s)
  PROVE  StreamInv(s)' /\ StreamStep(s)
<1>1. /\ written \in Seq(Byte) /\ size \in Nat /\ segments \in Nat
      /\ Len(written) \in Nat /\ HeaderSize \in Nat
      /\ arrived \in 0..Len(written) /\ consumed \in 0..arrived
  BY LinkAssumption, LenProperties DEF Inv, TypeOK
<1>2. PICK b \in Seq(Byte), payload \in Seq(Byte) :
        /\ b = Segment(t, size) /\ Len(b) = HeaderSize + size
        /\ payload = SubSeq(Segment(t, size), HeaderSize + 1, HeaderSize + size)
        /\ Len(payload) = size
        /\ \A i \in 1..size : payload[i] = b[HeaderSize + i]
        /\ \A i \in 1..HeaderSize + size : b[i].stream = t /\ b[i].at = i - HeaderSize
  <2>1. /\ Segment(t, size) \in Seq(Byte)
        /\ Len(Segment(t, size)) = HeaderSize + size
        /\ \A i \in 1..HeaderSize + size :
             /\ Segment(t, size)[i].stream = t
             /\ Segment(t, size)[i].size = size
             /\ Segment(t, size)[i].at = i - HeaderSize
    BY <1>1, SegmentBytes
  <2> DEFINE data == SubSeq(Segment(t, size), HeaderSize + 1, HeaderSize + size)
  <2>2. /\ data \in Seq(Byte) /\ Len(data) = size
        /\ \A i \in 1..size : data[i] = Segment(t, size)[HeaderSize + i]
    BY <1>1, SegmentPayload
  <2>3. QED  BY Zenon, <2>1, <2>2
<1>3. /\ written' = written \o b
      /\ sent' = [sent EXCEPT ![t] = @ \o payload] /\ ~ended
      /\ UNCHANGED <<arrived, consumed, ended, eof, delivered>>
  BY <1>2 DEF Send
<1>p. PICK w \in Seq(Byte) : w = written
  BY <1>1
<1>q. PICK out \in Seq(Byte) : out = sent[s]
  BY DEF Inv, TypeOK
<1>r. PICK len \in Nat : len = Len(w)
  BY LenProperties
<1>t. /\ written' \in Seq(Byte) /\ Len(written') = Len(written) + HeaderSize + size
      /\ \A i \in 1..Len(written) + HeaderSize + size :
           written'[i] = IF i <= Len(written) THEN written[i] ELSE b[i - Len(written)]
  <2>1. /\ written \o b \in Seq(Byte) /\ Len(written \o b) = Len(written) + Len(b)
        /\ \A i \in 1 .. Len(written) + Len(b) :
             (written \o b)[i] = IF i <= Len(written) THEN written[i] ELSE b[i - Len(written)]
    BY Zenon, <1>1, ConcatProperties
  <2>2. Len(written) + Len(b) = Len(written) + HeaderSize + size
    BY <1>1, <1>2
  <2>3. written' \in Seq(Byte) /\ Len(written') = Len(written) + HeaderSize + size
    BY <1>3, <2>1, <2>2
  <2>4. ASSUME NEW i \in 1..Len(written) + HeaderSize + size
        PROVE  written'[i] = IF i <= Len(written) THEN written[i] ELSE b[i - Len(written)]
    <3>1. i \in 1..Len(written) + Len(b)
      BY <2>2
    <3>2. QED  BY Zenon, <1>3, <2>1, <3>1
  <2>5. QED  BY Zenon, <2>3, <2>4
<1>u. PICK c \in Seq(Byte) : c = written'
  BY <1>t
<1>4. /\ w = written /\ c = written' /\ out = sent[s] /\ len = Len(w)
      /\ Len(c) = len + HeaderSize + size
      /\ \A i \in 1..len + HeaderSize + size : c[i] = IF i <= len THEN w[i] ELSE b[i - len]
  <2>1. len = Len(written)
    BY Zenon, <1>p, <1>r
  <2>2. Len(c) = len + HeaderSize + size
    BY Zenon, <1>t, <1>u, <2>1
  <2>3. ASSUME NEW i \in 1..len + HeaderSize + size
        PROVE  c[i] = IF i <= len THEN w[i] ELSE b[i - len]
    <3>1. i \in 1..Len(written) + HeaderSize + size
      BY Zenon, <2>1
    <3>2. written'[i] = IF i <= Len(written) THEN written[i] ELSE b[i - Len(written)]
      BY Zenon, <1>t, <3>1
    <3>3. CASE i <= len
      BY <1>p, <1>u, <2>1, <3>2, <3>3
    <3>4. CASE ~(i <= len)
      BY <1>p, <1>u, <2>1, <3>2, <3>4
    <3>5. QED  BY <3>3, <3>4
  <2>4. QED  BY Zenon, <1>p, <1>q, <1>r, <1>u, <2>2, <2>3
<1>5. \A p \in 1..len : c[p] = w[p]
  BY <1>1, <1>4
<1>6. \A p \in len + 1 .. len + HeaderSize : ~IsPayload(c, s, p)
  <2>1. ASSUME NEW p \in len + 1 .. len + HeaderSize PROVE ~(c[p].at > 0)
    <3>1. /\ p \in 1..len + HeaderSize + size /\ ~(p <= len)
          /\ p - len \in 1..HeaderSize + size /\ p - len - HeaderSize <= 0
      BY <1>1
    <3>2. c[p] = b[p - len] /\ b[p - len].at = (p - len) - HeaderSize
      BY <1>2, <1>4, <3>1
    <3>3. QED  BY <1>1, <3>1, <3>2
  <2>2. QED  BY <2>1 DEF IsPayload
<1>7. ASSUME NEW p \in len + HeaderSize + 1 .. len + HeaderSize + size
      PROVE  c[p].stream = t /\ c[p].at > 0
  <2>1. /\ p \in 1..len + HeaderSize + size /\ ~(p <= len)
        /\ p - len \in 1..HeaderSize + size /\ p - len - HeaderSize > 0
    BY <1>1
  <2>2. c[p] = b[p - len] /\ b[p - len].at = (p - len) - HeaderSize /\ b[p - len].stream = t
    BY <1>2, <1>4, <2>1
  <2>3. QED  BY <1>1, <2>1, <2>2
<1>8. /\ Count(c, s, arrived) = Count(w, s, arrived)
      /\ Count(c, s, consumed) = Count(w, s, consumed)
  <2>1. ASSUME NEW p \in 0..len PROVE Count(c, s, p) = Count(w, s, p)
    <3>1. p \in Nat /\ \A q \in 1..p : c[q] = w[q]
      BY <1>5
    <3>2. QED  BY <3>1, CountSame
  <2>2. arrived \in 0..len /\ consumed \in 0..len
    BY <1>1, <1>4
  <2>3. QED  BY <2>1, <2>2
<1>9. Payload(s, arrived)' = Payload(s, arrived)
  <2>1. Payload(s, arrived) = Count(w, s, arrived)
    BY <1>4, PayloadCount
  <2>2. Payload(s, arrived)' = Count(c, s, arrived)
    BY <1>3, <1>4 DEF Payload, Count, Marks, IsPayload
  <2>3. QED  BY <1>8, <2>1, <2>2
<1>10. Carries(w, s, out) /\ delivered[s] = SubSeq(out, 1, Count(w, s, consumed))
  BY Zenon, <1>4 DEF StreamInv
<1>11. CASE s # t
  <2>1. sent'[s] = out
    BY <1>3, <1>4, <1>11
  <2>2. \A p \in len + 1 .. Len(c) : ~IsPayload(c, s, p)
    <3>1. ASSUME NEW p \in len + HeaderSize + 1 .. len + HeaderSize + size
          PROVE  ~IsPayload(c, s, p)
      BY <1>7, <1>11 DEF IsPayload
    <3>2. ASSUME NEW p \in len + 1 .. Len(c)
          PROVE  \/ p \in len + 1 .. len + HeaderSize
                 \/ p \in len + HeaderSize + 1 .. len + HeaderSize + size
      BY <1>1, <1>4
    <3>3. QED  BY <1>6, <3>1, <3>2
  <2>3. Carries(c, s, out)
    <3>1. Len(w) <= Len(c) /\ len = Len(w)
      BY <1>1, <1>4
    <3>2. QED  BY <1>5, <1>10, <2>2, <3>1, CarryOther
  <2>4. StreamInv(s)'
    BY Zenon, <1>3, <1>4, <1>8, <1>10, <2>1, <2>3 DEF StreamInv
  <2>5. QED  BY <1>3, <1>4, <1>9, <2>1, <2>4 DEF StreamStep
<1>12. CASE s = t
  <2>1. PICK more \in Seq(Byte) :
          /\ more = sent'[s] /\ Len(more) = Len(out) + size
          /\ \A i \in 1 .. Len(out) + size :
               more[i] = IF i <= Len(out) THEN out[i] ELSE payload[i - Len(out)]
    <3>1. sent'[s] = out \o payload
      <4>1. sent \in [Streams -> Seq(Byte)]
        BY DEF Inv, TypeOK
      <4>2. QED  BY <1>3, <1>4, <1>12, <4>1
    <3>2. /\ out \o payload \in Seq(Byte) /\ Len(out \o payload) = Len(out) + Len(payload)
          /\ \A i \in 1 .. Len(out) + Len(payload) :
               (out \o payload)[i] = IF i <= Len(out) THEN out[i] ELSE payload[i - Len(out)]
      BY Zenon, ConcatProperties
    <3>3. QED  BY Zenon, <1>2, <3>1, <3>2
  <2>2. Len(out) \in Nat
    BY LenProperties
  <2>3. \A i \in 1..Len(out) : more[i] = out[i]
    BY <1>1, <2>1, <2>2
  <2>4. \A i \in 1..size : more[Len(out) + i] = c[(len + HeaderSize) + i]
    <3>1. ASSUME NEW i \in 1..size PROVE more[Len(out) + i] = payload[i]
      <4>1. /\ Len(out) + i \in 1 .. Len(out) + size /\ ~(Len(out) + i <= Len(out))
            /\ (Len(out) + i) - Len(out) = i
        BY <1>1, <2>2
      <4>2. QED  BY <2>1, <4>1
    <3>2. ASSUME NEW i \in 1..size PROVE c[(len + HeaderSize) + i] = b[HeaderSize + i]
      <4>1. /\ (len + HeaderSize) + i \in 1..len + HeaderSize + size
            /\ ~((len + HeaderSize) + i <= len)
            /\ ((len + HeaderSize) + i) - len = HeaderSize + i
        BY <1>1
      <4>2. QED  BY <1>4, <4>1
    <3>3. QED  BY <1>2, <3>1, <3>2
  <2>5. Carries(c, s, more)
    <3> DEFINE a == len + HeaderSize
    <3>1. a \in Nat /\ Len(w) <= a /\ Len(c) = a + size
      BY <1>1, <1>4
    <3>2. \A p \in Len(w) + 1 .. a : ~IsPayload(c, s, p)
      BY <1>4, <1>6
    <3>3. \A p \in a + 1 .. a + size : IsPayload(c, s, p)
      BY <1>7, <1>12 DEF IsPayload
    <3>4. \A p \in 1..Len(w) : c[p] = w[p]
      BY <1>4, <1>5
    <3>5. \A i \in 1..size : more[Len(out) + i] = c[a + i]
      BY <2>4
    <3> HIDE DEF a
    <3>6. Len(more) = Len(out) + size /\ more \in Seq(Byte) /\ size \in Nat
      BY <1>1, <2>1
    <3>7. Carries(w, s, out)
      BY <1>10
    <3>8. QED
      <4>1. Brings(w, c, a, size, s, out, more)
        BY Zenon, <2>3, <3>1, <3>2, <3>3, <3>4, <3>5, <3>6 DEF Brings
      <4>2. QED  BY ONLY <3>1, <3>6, <3>7, <4>1, w \in Seq(Byte), c \in Seq(Byte), CarryOwn
  <2>6. Count(w, s, consumed) \in 0..Len(out)
    <3>1. consumed \in Nat /\ consumed <= Len(w) /\ Len(w) \in Nat
      BY <1>1, <1>4
    <3>2. /\ Count(w, s, consumed) <= Count(w, s, Len(w))
          /\ Count(w, s, consumed) \in Nat /\ Count(w, s, Len(w)) \in Nat
      BY <3>1, CountGrows, CountType
    <3>3. Len(out) = Count(w, s, Len(w))
      BY <1>10 DEF Carries
    <3>4. QED  BY <3>2, <3>3
  <2>7. Len(out) <= Len(more)
    BY <1>1, <2>1, <2>2
  <2>8. SubSeq(more, 1, Count(w, s, consumed)) = SubSeq(out, 1, Count(w, s, consumed))
    BY <2>3, <2>6, <2>7, HeadOfMore
  <2>9. StreamInv(s)'
    BY Zenon, <1>3, <1>4, <1>8, <1>10, <2>1, <2>5, <2>8 DEF StreamInv
  <2>10. CASE size = 0
    <3>1. Len(more) = Len(out)
      BY <2>1, <2>2, <2>10
    <3>2. more = out
      BY ONLY <2>1, <2>3, <3>1, out \in Seq(Byte), SeqEqual
    <3>3. QED  BY <1>3, <1>4, <1>9, <2>1, <2>9, <3>2 DEF StreamStep
  <2>11. CASE size # 0
    <3>1. Len(out) \in 0..Len(out) /\ more # out
      BY <1>1, <2>1, <2>2, <2>11
    <3>2. SubSeq(more, 1, Len(out)) = SubSeq(out, 1, Len(out))
      BY <2>3, <2>7, <3>1, HeadOfMore
    <3>3. IsStrictPrefix(out, more)
      BY Zenon, <2>7, <3>1, <3>2 DEF IsStrictPrefix, IsPrefix
    <3>4. QED  BY Zenon, <1>3, <1>4, <1>9, <2>1, <2>9, <3>3 DEF StreamStep
  <2>12. QED  BY <2>10, <2>11
<1>13. QED  BY <1>11, <1>12

\* Receive() on one stream reads its next bytes, and none of any other.
LEMMA ReceiveStream ==
  ASSUME Inv, NEW t \in Streams, Receive(t), NEW s \in Streams, StreamInv(s)
  PROVE  StreamInv(s)' /\ StreamStep(s)
<1>1. PICK segment \in Current :
        \E n \in Taken(t, segment, Len(Unread) - segment.header) :
          /\ consumed' = consumed + segment.header + n
          /\ delivered' = [delivered EXCEPT ![t] =
               @ \o SubSeq(Unread, segment.header + 1, segment.header + n)]
  BY Zenon DEF Receive
<1>2. PICK n \in Taken(t, segment, Len(Unread) - segment.header) :
        /\ consumed' = consumed + segment.header + n
        /\ delivered' = [delivered EXCEPT ![t] =
             @ \o SubSeq(Unread, segment.header + 1, segment.header + n)]
  BY <1>1, Zenon
<1>3. UNCHANGED <<written, arrived, ended, eof, sent>>
  BY DEF Receive
<1>4. /\ segment.left \in Nat /\ segment.stream \in Streams
      /\ segment.header \in Nat /\ segment.header <= Len(Unread)
      /\ (consumed + segment.header) + segment.left <= Len(written)
      /\ \A p \in (consumed + segment.header) + 1
                    .. (consumed + segment.header) + segment.left :
           written[p].stream = segment.stream /\ written[p].at > 0
      /\ \A p \in consumed + 1 .. consumed + segment.header : ~(written[p].at > 0)
  BY CurrentSegment
<1>5. /\ Unread \in Seq(Byte) /\ Len(Unread) = arrived - consumed
      /\ \A i \in 1..Len(Unread) : Unread[i] = written[consumed + i]
      /\ written \in Seq(Byte) /\ Len(written) \in Nat
      /\ arrived \in 0..Len(written) /\ consumed \in 0..arrived
      /\ delivered \in [Streams -> Seq(Byte)]
  BY UnreadBytes, LenProperties DEF Inv, TypeOK
<1>6. n \in Nat /\ n <= segment.left /\ n <= Len(Unread) - segment.header
  <2>1. Len(Unread) - segment.header \in Nat  BY <1>4, <1>5
  <2>2. QED  BY <1>4, <2>1, TakenBounds
<1>7. PICK header \in Nat, start \in Nat : header = segment.header /\ start = consumed + header
  BY <1>4, <1>5
<1>8. /\ consumed \in Nat /\ arrived \in Nat /\ arrived <= Len(written)
      /\ consumed <= start /\ consumed' = start + n /\ start + n <= arrived
  <2>1. consumed' = consumed + header + n
    BY Zenon, <1>2, <1>7
  <2>2. Len(Unread) = arrived - consumed /\ n <= Len(Unread) - header
    BY Zenon, <1>5, <1>6, <1>7
  <2>3. QED  BY <1>5, <1>6, <1>7, <2>1, <2>2
<1>9. \A q \in consumed + 1 .. start : ~IsPayload(written, s, q)
  BY <1>4, <1>7 DEF IsPayload
<1>10. \A q \in start + 1 .. start + n :
         written[q].stream = segment.stream /\ written[q].at > 0
  <2>1. ASSUME NEW q \in start + 1 .. start + n PROVE q \in start + 1 .. start + segment.left
    BY <1>4, <1>6
  <2>2. QED  BY <1>4, <1>7, <2>1
<1>11. PICK out \in Seq(Byte) : out = sent[s]
  BY DEF Inv, TypeOK
<1>12. Carries(written, s, out) /\ delivered[s] = SubSeq(out, 1, Count(written, s, consumed))
  BY Zenon, <1>11 DEF StreamInv
<1>13. /\ Payload(s, arrived) = Count(written, s, arrived)
       /\ Payload(s, arrived)' = Payload(s, arrived)
  BY <1>3, PayloadCount DEF Payload
<1>14. ASSUME Count(written, s, start + n) = Count(written, s, consumed),
              delivered'[s] = delivered[s]
       PROVE  StreamInv(s)' /\ StreamStep(s)
  <2>1. StreamInv(s)'
    BY Zenon, <1>3, <1>8, <1>11, <1>12, <1>14 DEF StreamInv
  <2>2. QED  BY <1>3, <1>13, <1>14, <2>1 DEF StreamStep
<1>15. CASE s # t
  <2>1. delivered'[s] = delivered[s]
    BY <1>2, <1>5, <1>15
  <2>2. \A q \in start + 1 .. start + n : ~IsPayload(written, s, q)
    <3>1. CASE Mine(t, segment)
      BY <1>10, <1>15, <3>1 DEF Mine, IsPayload
    <3>2. CASE ~Mine(t, segment)
      <4>1. n = 0  BY <1>2, <3>2 DEF Taken
      <4>2. start + 1 .. start + n = {}  BY <4>1
      <4>3. QED  BY <4>2
    <3>3. QED  BY <3>1, <3>2
  <2>3. \A q \in consumed + 1 .. start + n : ~IsPayload(written, s, q)
    <3>1. ASSUME NEW q \in consumed + 1 .. start + n
          PROVE  q \in consumed + 1 .. start \/ q \in start + 1 .. start + n
      BY <1>8
    <3>2. QED  BY <1>9, <2>2, <3>1
  <2>4. Count(written, s, start + n) = Count(written, s, consumed)
    <3>1. start + n \in Nat /\ consumed <= start + n
      BY <1>6, <1>8
    <3>2. QED  BY <1>8, <2>3, <3>1, CountNone
  <2>5. QED  BY <1>14, <2>1, <2>4
<1>16. CASE s = t
  <2>1. PICK piece \in Seq(Byte) :
          /\ piece = SubSeq(Unread, segment.header + 1, segment.header + n)
          /\ Len(piece) = n /\ \A i \in 1..n : piece[i] = written[start + i]
    <3> DEFINE data == SubSeq(Unread, header + 1, header + n)
    <3>1. header + 1 \in Int /\ header + n \in Int
      BY <1>6, <1>7
    <3>2. Len(Unread) \in Nat /\ header + n <= Len(Unread)
      <4>1. Len(Unread) \in Nat  BY <1>5, LenProperties
      <4>2. n <= Len(Unread) - header  BY Zenon, <1>6, <1>7
      <4>3. QED  BY <1>6, <1>7, <4>1, <4>2
    <3>3. \A i \in header + 1 .. header + n : i \in 1..Len(Unread)
      BY <1>6, <1>7, <3>2
    <3>4. \A i \in header + 1 .. header + n : Unread[i] \in Byte
      BY <1>5, <3>3, ElementOfSeq
    <3>5. /\ data \in Seq(Byte)
          /\ Len(data) = IF header + 1 <= header + n
                           THEN (header + n) - (header + 1) + 1 ELSE 0
          /\ \A i \in 1 .. (header + n) - (header + 1) + 1 :
               data[i] = Unread[(header + 1) + i - 1]
      BY <3>1, <3>4, SubSeqProperties
    <3>6. Len(data) = n
      BY <1>6, <1>7, <3>5
    <3>7. ASSUME NEW i \in 1..n PROVE data[i] = written[start + i]
      <4>1. /\ i \in 1 .. (header + n) - (header + 1) + 1
            /\ (header + 1) + i - 1 = header + i
            /\ header + i \in 1..Len(Unread)
            /\ consumed + (header + i) = start + i
        <5>1. PICK len \in Nat : len = Len(Unread) /\ header + n <= len
          BY <3>2
        <5>2. consumed \in Nat /\ start = consumed + header /\ header \in Nat
          BY <1>7, <1>8
        <5>3. /\ i \in 1 .. (header + n) - (header + 1) + 1
              /\ (header + 1) + i - 1 = header + i
          BY <1>6, <5>2
        <5>4. header + i \in 1..len
          BY <1>6, <5>1, <5>2
        <5>5. consumed + (header + i) = start + i
          BY <1>6, <5>2
        <5>6. QED  BY <5>1, <5>3, <5>4, <5>5
      <4>2. data[i] = Unread[header + i]
        BY <3>5, <4>1
      <4>3. Unread[header + i] = written[consumed + (header + i)]
        BY Zenon, <1>5, <4>1
      <4>4. QED  BY <4>1, <4>2, <4>3
    <3>8. QED  BY Zenon, <1>7, <3>5, <3>6, <3>7
  <2>2. delivered'[s] = delivered[s] \o piece
    BY <1>2, <1>5, <1>16, <2>1
  <2>3. \A q \in start + 1 .. start + n : IsPayload(written, s, q)
    <3>1. CASE Mine(t, segment)
      BY <1>10, <1>16, <3>1 DEF Mine, IsPayload
    <3>2. CASE ~Mine(t, segment)
      <4>1. n = 0  BY <1>2, <3>2 DEF Taken
      <4>2. start + 1 .. start + n = {}  BY <4>1
      <4>3. QED  BY <4>2
    <3>3. QED  BY <3>1, <3>2
  <2> DEFINE before == Count(written, s, consumed)
             after == Count(written, s, start + n)
  <2>4. /\ after = before + n /\ after <= Len(out)
        /\ SubSeq(out, 1, before) \o piece = SubSeq(out, 1, after)
    <3>1. start + n <= Len(written)
      BY <1>5, <1>6, <1>8
    <3>2. QED
      <4>1. Reads(written, s, consumed, start, n, piece)
        BY Zenon, <1>8, <1>9, <2>1, <2>3, <3>1 DEF Reads
      <4>2. /\ written \in Seq(Byte) /\ Carries(written, s, out)
            /\ consumed \in Nat /\ start \in Nat /\ n \in Nat
        BY Zenon, <1>5, <1>6, <1>8, <1>12
      <4>3. /\ Count(written, s, start + n) = Count(written, s, consumed) + n
            /\ Continues(out, before, after, piece)
        BY ONLY <4>1, <4>2, DeliverOwn
      <4>4. QED  BY Zenon, <4>3 DEF Continues
  <2>5. before \in Nat /\ after <= Payload(s, arrived)
    <3>1. start + n \in Nat
      BY <1>6
    <3>2. QED  BY <1>8, <1>13, <3>1, CountType, CountGrows
  <2>6. delivered[s] = SubSeq(out, 1, before) /\ delivered'[s] = SubSeq(out, 1, after)
    BY <1>12, <2>2, <2>4
  <2>7. StreamInv(s)'
    BY Zenon, <1>3, <1>8, <1>11, <1>12, <2>6 DEF StreamInv
  <2> HIDE DEF before, after
  <2>8. CASE n = 0
    <3>1. after = before  BY <2>4, <2>5, <2>8
    <3>2. delivered'[s] = delivered[s]  BY <2>6, <3>1
    <3>3. QED  BY <1>3, <1>13, <2>7, <3>2 DEF StreamStep
  <2>9. CASE n # 0
    <3>1. after \in Nat /\ before < after /\ before <= after
      BY <1>6, <2>4, <2>5, <2>9
    <3>2. /\ Len(SubSeq(out, 1, after)) = after /\ IsPrefix(SubSeq(out, 1, after), out)
          /\ IsStrictPrefix(SubSeq(out, 1, before), SubSeq(out, 1, after))
      BY ONLY <2>4, <2>5, <3>1, out \in Seq(Byte), HeadsGrow
    <3>3. /\ IsStrictPrefix(delivered[s], delivered'[s])
          /\ Len(delivered'[s]) <= Payload(s, arrived) /\ IsPrefix(delivered'[s], sent[s])
      BY Zenon, <1>11, <2>5, <2>6, <3>2
    <3>4. QED  BY Zenon, <1>3, <1>13, <2>7, <3>3 DEF StreamStep
  <2>10. QED  BY <2>8, <2>9
<1>17. QED  BY <1>15, <1>16

\* The bytes of a stream that have arrived are some of those sent.
LEMMA ArrivedCount ==
  ASSUME Inv, NEW s \in Streams, StreamInv(s), NEW p \in 0..Len(written)
  PROVE  /\ Count(written, s, p) \in Nat /\ Count(written, s, p) <= Len(sent[s])
         /\ Count(written, s, Len(written)) = Len(sent[s])
<1>1. Len(written) \in Nat /\ p \in Nat /\ p <= Len(written)
  BY LenProperties DEF Inv, TypeOK
<1>2. Len(sent[s]) = Count(written, s, Len(written))
  BY DEF StreamInv, Carries
<1>3. QED  BY <1>1, <1>2, CountType, CountGrows

\* The transport brings each stream what it brings of it.
LEMMA TransportStream ==
  ASSUME Inv, Arrive \/ SeeEnd \/ Shutdown, NEW s \in Streams, StreamInv(s)
  PROVE  StreamInv(s)' /\ StreamStep(s)
<1>1. UNCHANGED <<written, consumed, sent, delivered>>
  BY DEF Arrive, SeeEnd, Shutdown, history, Transport!Arrive,
         Transport!SeeEnd, Transport!End
<1>2. StreamInv(s)'
  BY Zenon, <1>1 DEF StreamInv
<1>3. /\ Len(written) \in Nat /\ arrived \in 0..Len(written)
      /\ Len(sent[s]) \in Nat
  <2>1. Len(written) \in Nat /\ arrived \in 0..Len(written) /\ sent[s] \in Seq(Byte)
    BY LenProperties DEF Inv, TypeOK
  <2>2. QED  BY <2>1, LenProperties
<1>4. /\ Payload(s, arrived) = Count(written, s, arrived)
      /\ Payload(s, arrived)' = Count(written, s, arrived')
  BY <1>1, PayloadCount DEF Payload, Count, Marks, IsPayload
<1>5. CASE Arrive
  <2>1. arrived' \in arrived + 1 .. Len(written) /\ ~eof /\ UNCHANGED <<ended, eof>>
    BY <1>5 DEF Arrive, Transport!Arrive
  <2>2. arrived \in Nat /\ arrived' \in Nat /\ arrived <= arrived' /\ arrived' \in 0..Len(written)
    BY <1>3, <2>1
  <2>3. /\ Count(written, s, arrived) \in Nat /\ Count(written, s, arrived') \in Nat
        /\ Count(written, s, arrived) <= Count(written, s, arrived')
        /\ Count(written, s, arrived') <= Len(sent[s])
    BY <2>2, CountType, CountGrows, ArrivedCount
  <2>4. \/ Payload(s, arrived)' = Payload(s, arrived)
        \/ Payload(s, arrived)' \in Payload(s, arrived) + 1 .. Len(sent[s])
    BY <1>3, <1>4, <2>3
  <2>5. QED  BY Zenon, <1>1, <1>2, <2>1, <2>4 DEF StreamStep
<1>6. CASE SeeEnd
  <2>1. /\ ended /\ arrived = Len(written) /\ ~eof /\ eof' = TRUE
        /\ UNCHANGED <<arrived, ended>>
    BY <1>6 DEF SeeEnd, Transport!SeeEnd
  <2>2. Payload(s, arrived) = Len(sent[s]) /\ Payload(s, arrived)' = Payload(s, arrived)
    BY <1>3, <1>4, <2>1, ArrivedCount
  <2>3. QED  BY Zenon, <1>1, <1>2, <2>1, <2>2 DEF StreamStep
<1>7. CASE Shutdown
  <2>1. ~ended /\ ended' = TRUE /\ UNCHANGED <<arrived, eof>>
    BY <1>7 DEF Shutdown, Transport!End
  <2>2. Payload(s, arrived)' = Payload(s, arrived)
    BY <1>4, <2>1
  <2>3. QED  BY Zenon, <1>1, <1>2, <2>1, <2>2 DEF StreamStep
<1>8. QED  BY <1>5, <1>6, <1>7

\* With nothing written a stream is empty.
LEMMA EmptyStream ==
  ASSUME NEW s \in Streams, written = <<>>, arrived = 0, consumed = 0,
         sent[s] = <<>>, delivered[s] = <<>>
  PROVE  StreamInv(s) /\ Payload(s, arrived) = 0
<1>1. Count(<<>>, s, 0) = 0
  BY CountNothing
<1>2. <<>> \in Seq(Byte) /\ Len(<<>>) = 0
  BY EmptySeq
<1>3. Carries(<<>>, s, <<>>)
  BY <1>1, <1>2 DEF Carries
<1>4. SubSeq(<<>>, 1, 0) = <<>>
  OBVIOUS
<1>5. QED  BY <1>1, <1>3, <1>4, PayloadCount DEF StreamInv

\* At first.
LEMMA InitStream == ASSUME Init, NEW s \in Streams
                    PROVE  StreamInv(s) /\ Payload(s, arrived) = 0
<1>1. sent[s] = <<>> /\ delivered[s] = <<>>
  BY DEF Init
<1>2. QED  BY <1>1, EmptyStream DEF Init

\* On a new connection.
LEMMA ReopenStream ==
  ASSUME NEW how, Reopen(how), NEW s \in Streams
  PROVE  StreamInv(s)' /\ StreamStep(s)
<1>1. sent'[s] = <<>> /\ delivered'[s] = <<>>
  BY DEF Reopen
<1>2. written' = <<>> /\ arrived' = 0 /\ consumed' = 0 /\ ended' = FALSE /\ eof' = FALSE
  BY DEF Reopen
<1>3. Count(<<>>, s, 0) = 0
  BY CountNothing
<1>4. <<>> \in Seq(Byte) /\ Len(<<>>) = 0
  BY EmptySeq
<1>5. Carries(<<>>, s, <<>>)
  BY <1>3, <1>4 DEF Carries
<1>6. SubSeq(<<>>, 1, 0) = <<>>
  OBVIOUS
<1>7. StreamInv(s)'
  BY Zenon, <1>1, <1>2, <1>3, <1>5, <1>6 DEF StreamInv
<1>8. Payload(s, arrived)' = 0
  BY <1>2, <1>3 DEF Payload, Count, Marks, IsPayload
<1>9. QED  BY Zenon, <1>1, <1>2, <1>7, <1>8 DEF StreamStep

\* Every step.
LEMMA NextStream ==
  ASSUME Inv, [Next]_vars, NEW s \in Streams, StreamInv(s)
  PROVE  StreamInv(s)' /\ StreamStep(s)
<1>1. CASE UNCHANGED vars
  <2>1. UNCHANGED <<written, arrived, consumed, ended, eof, sent, delivered>>
    BY <1>1 DEF vars, transport, history
  <2>2. QED  BY Zenon, <2>1 DEF StreamInv, StreamStep, Payload
<1>2. CASE Arrive \/ SeeEnd \/ Shutdown  BY <1>2, TransportStream
<1>3. CASE \E t \in Streams, size \in 0..MaxBlockSize : Send(t, size)
  BY <1>3, SendStream
<1>4. CASE \E t \in Streams : Receive(t)  BY <1>4, ReceiveStream
<1>5. CASE \E how \in Reopenings : Reopen(how)  BY <1>5, ReopenStream
<1>6. QED  BY <1>1, <1>2, <1>3, <1>4, <1>5 DEF Next

-----------------------------------------------------------------------------
\* Type correctness and the receiver's place (Link.cpp:80-162), for any
\* streams, sizes and chunks, if no new connection is made by Connect() alone.
THEOREM KeepsPlace == ASSUME "Connect" \notin Reopenings
                      PROVE  Spec => [](TypeOK /\ InStep)
<1>1. Init => Inv  BY InitInv
<1>2. Inv /\ [Next]_vars => Inv'  BY NextInv
<1>3. Inv => TypeOK /\ InStep  BY DEF Inv
<1>4. QED  BY <1>1, <1>2, <1>3, PTL DEF Spec

\* Its state stays well-formed: no byte is read before it arrives nor arrives
\* before it is written, and what is left of a segment is never negative
\* (m_segment_remaining, Link.cpp:121-149).
THEOREM LinkTypes == ASSUME "Connect" \notin Reopenings
                     PROVE  Spec => []TypeOK
<1>1. Init => Inv  BY InitInv
<1>2. Inv /\ [Next]_vars => Inv'  BY NextInv
<1>3. Inv => TypeOK  BY DEF Inv
<1>4. QED  BY <1>1, <1>2, <1>3, PTL DEF Spec

\* Each stream is a byte stream of its own (Link.hpp:80): what Send() accepted
\* on it is what Receive() returns on it, in order, whatever the other streams
\* carry, in whatever pieces headers and payloads arrive and in whatever order
\* the streams are read; for any two streams.
THEOREM StreamsApart == ASSUME "Connect" \notin Reopenings
                        PROVE  Spec => EachStream
<1> DEFINE Both == Inv /\ StreamInv(One) /\ StreamInv(Other)
<1>1. One \in Streams /\ Other \in Streams
  BY StreamsAssumption
<1>2. Init => Both /\ OfOne!Init /\ OfOther!Init
  <2> SUFFICES ASSUME Init PROVE Both /\ OfOne!Init /\ OfOther!Init  OBVIOUS
  <2>1. Inv  BY InitInv
  <2>2. /\ StreamInv(One) /\ Payload(One, arrived) = 0
        /\ StreamInv(Other) /\ Payload(Other, arrived) = 0
    BY <1>1, InitStream
  <2>3. /\ sent[One] = <<>> /\ delivered[One] = <<>> /\ ended = FALSE /\ eof = FALSE
        /\ sent[Other] = <<>> /\ delivered[Other] = <<>>
    BY <1>1 DEF Init
  <2>4. QED  BY Zenon, <2>1, <2>2, <2>3 DEF OfOne!Init, OfOther!Init
<1>3. Both /\ [Next]_vars => Both' /\ StreamStep(One) /\ StreamStep(Other)
  BY <1>1, NextInv, NextStream
<1>4. StreamStep(One) => [OfOne!Next \/ OfOne!Init']_(OfOne!streamVars)
  <2> SUFFICES ASSUME StreamStep(One)
               PROVE  [OfOne!Next \/ OfOne!Init']_(OfOne!streamVars)  OBVIOUS
  <2> DEFINE passed == Payload(One, arrived)
  <2>1. CASE UNCHANGED <<sent[One], passed, delivered[One], ended, eof>>
    BY <2>1 DEF OfOne!streamVars
  <2>2. CASE /\ ~ended /\ IsStrictPrefix(sent[One], sent'[One])
             /\ UNCHANGED <<passed, delivered[One], ended, eof>>
    BY <2>2 DEF OfOne!Next, OfOne!Write, IsStrictPrefix, IsPrefix,
           OfOne!IsStrictPrefix, OfOne!IsPrefix
  <2>3. CASE /\ passed' \in passed + 1 .. Len(sent[One]) /\ ~eof
             /\ UNCHANGED <<sent[One], delivered[One], ended, eof>>
    BY <2>3 DEF OfOne!Next, OfOne!Arrive
  <2>4. CASE /\ IsStrictPrefix(delivered[One], delivered'[One])
             /\ Len(delivered'[One]) <= passed /\ IsPrefix(delivered'[One], sent[One])
             /\ UNCHANGED <<sent[One], passed, ended, eof>>
    BY <2>4 DEF OfOne!Next, OfOne!Read, IsStrictPrefix, IsPrefix,
           OfOne!IsStrictPrefix, OfOne!IsPrefix
  <2>5. CASE /\ ~ended /\ ended' = TRUE
             /\ UNCHANGED <<sent[One], passed, delivered[One], eof>>
    BY <2>5 DEF OfOne!Next, OfOne!End
  <2>6. CASE /\ ended /\ passed = Len(sent[One]) /\ ~eof /\ eof' = TRUE
             /\ UNCHANGED <<sent[One], passed, delivered[One], ended>>
    BY <2>6 DEF OfOne!Next, OfOne!SeeEnd
  <2>7. CASE /\ sent'[One] = <<>> /\ passed' = 0 /\ delivered'[One] = <<>>
             /\ ended' = FALSE /\ eof' = FALSE
    BY <2>7 DEF OfOne!Init
  <2>8. QED  BY <2>1, <2>2, <2>3, <2>4, <2>5, <2>6, <2>7 DEF StreamStep
<1>5. StreamStep(Other) => [OfOther!Next \/ OfOther!Init']_(OfOther!streamVars)
  <2> SUFFICES ASSUME StreamStep(Other)
               PROVE  [OfOther!Next \/ OfOther!Init']_(OfOther!streamVars)  OBVIOUS
  <2> DEFINE passed == Payload(Other, arrived)
  <2>1. CASE UNCHANGED <<sent[Other], passed, delivered[Other], ended, eof>>
    BY <2>1 DEF OfOther!streamVars
  <2>2. CASE /\ ~ended /\ IsStrictPrefix(sent[Other], sent'[Other])
             /\ UNCHANGED <<passed, delivered[Other], ended, eof>>
    BY <2>2 DEF OfOther!Next, OfOther!Write, IsStrictPrefix, IsPrefix,
           OfOther!IsStrictPrefix, OfOther!IsPrefix
  <2>3. CASE /\ passed' \in passed + 1 .. Len(sent[Other]) /\ ~eof
             /\ UNCHANGED <<sent[Other], delivered[Other], ended, eof>>
    BY <2>3 DEF OfOther!Next, OfOther!Arrive
  <2>4. CASE /\ IsStrictPrefix(delivered[Other], delivered'[Other])
             /\ Len(delivered'[Other]) <= passed /\ IsPrefix(delivered'[Other], sent[Other])
             /\ UNCHANGED <<sent[Other], passed, ended, eof>>
    BY <2>4 DEF OfOther!Next, OfOther!Read, IsStrictPrefix, IsPrefix,
           OfOther!IsStrictPrefix, OfOther!IsPrefix
  <2>5. CASE /\ ~ended /\ ended' = TRUE
             /\ UNCHANGED <<sent[Other], passed, delivered[Other], eof>>
    BY <2>5 DEF OfOther!Next, OfOther!End
  <2>6. CASE /\ ended /\ passed = Len(sent[Other]) /\ ~eof /\ eof' = TRUE
             /\ UNCHANGED <<sent[Other], passed, delivered[Other], ended>>
    BY <2>6 DEF OfOther!Next, OfOther!SeeEnd
  <2>7. CASE /\ sent'[Other] = <<>> /\ passed' = 0 /\ delivered'[Other] = <<>>
             /\ ended' = FALSE /\ eof' = FALSE
    BY <2>7 DEF OfOther!Init
  <2>8. QED  BY <2>1, <2>2, <2>3, <2>4, <2>5, <2>6, <2>7 DEF StreamStep
<1> HIDE DEF Both
<1>6. QED  BY <1>2, <1>3, <1>4, <1>5, PTL DEF Spec, EachStream
=============================================================================

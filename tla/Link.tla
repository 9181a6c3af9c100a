-------------------------------- MODULE Link --------------------------------
(***************************************************************************)
(* One direction of a Link (src/SFNUL/Link.cpp, include/SFNUL/Link.inl):   *)
(* the sending Link puts a header, stream id and size, before each segment *)
(* and hands both to its transport in one Send(); the receiving Link reads *)
(* them back and keeps its place in the segment it is in.                  *)
(*                                                                         *)
(* The transport is a ByteStream, which TcpConnection implements; like a   *)
(* TcpSocket it takes a block only if it fits below MaxBlockSize and stops *)
(* receiving while MaxBlockSize bytes wait to be read.  A Link is used by  *)
(* one thread, so each of its calls is one action.                         *)
(***************************************************************************)
EXTENDS Integers, Sequences

CONSTANTS
  Streams,         \* the stream ids in use
  MessageStreams,  \* those both hosts use with Message only
  HeaderSize,      \* bytes of m_current_stream_reader and m_segment_remaining
  SizeField,       \* bytes of the size a Message starts with
  MaxBlockSize,    \* GetMaximumBlockSize() of both hosts
  ChunkSize,       \* most bytes that one receive operation brings
  Reopenings,      \* how the receiver gets a new connection
  MaxSegments,     \* bound: segments sent on one connection
  MaxConnections   \* bound: connections

ASSUME LinkAssumption ==
  /\ Streams \subseteq 0..255 /\ 0 \in Streams /\ MessageStreams \subseteq Streams
  /\ HeaderSize \in Nat \ {0} /\ SizeField \in Nat \ {0}
  /\ MaxBlockSize \in Nat /\ MaxBlockSize > HeaderSize + SizeField
  /\ ChunkSize \in Nat \ {0}
  /\ Reopenings \subseteq {"SetTransport", "Close", "Connect"}
  /\ MaxSegments \in Nat /\ MaxConnections \in Nat

VARIABLES
  \* the transport: bytes accepted, how many of them are or were in the
  \* receiver's buffer, how many of these were read; Shutdown() of the sender
  \* and RemoteHasShutdown() of the receiver
  written, arrived, consumed, ended, eof,
  \* m_segment_active, m_current_stream_reader, m_segment_remaining
  active, reader, remaining,
  \* history: segments sent, payload bytes sent and returned on each stream,
  \* connections
  segments, sent, delivered, connections

transport == <<written, arrived, consumed, ended, eof>>
place == <<active, reader, remaining>>
history == <<segments, sent, delivered, connections>>
vars == <<transport, place, history>>

Transport == INSTANCE ByteStream WITH read <- SubSeq(written, 1, consumed)

\* A byte of a segment: its header has at <= 0, its payload at >= 1.
Byte == [stream : Streams, seg : Nat, size : Nat, at : Int]

TypeOK ==
  /\ written \in Seq(Byte)
  /\ arrived \in 0..Len(written) /\ consumed \in 0..arrived
  /\ ended \in BOOLEAN /\ eof \in BOOLEAN
  /\ active \in BOOLEAN /\ reader \in Streams /\ remaining \in Nat
  /\ segments \in Nat /\ connections \in Nat
  /\ sent \in [Streams -> Seq(Byte)] /\ delivered \in [Streams -> Seq(Byte)]

Init ==
  /\ written = <<>> /\ arrived = 0 /\ consumed = 0
  /\ ended = FALSE /\ eof = FALSE
  /\ segments = 0 /\ connections = 1
  /\ sent = [s \in Streams |-> <<>>] /\ delivered = [s \in Streams |-> <<>>]
  /\ active = FALSE /\ reader = 0 /\ remaining = 0

-----------------------------------------------------------------------------
(* The sending host.                                                       *)

Segment(s, size) ==
  [i \in 1..HeaderSize + size |->
    [stream |-> s, seg |-> segments + 1, size |-> size, at |-> i - HeaderSize]]

\* Send(s, data, size), and Send(s, message) of a Message with its size field,
\* that returns true.
Send(s, size) ==
  /\ segments < MaxSegments /\ ~ended
  /\ s \in MessageStreams => size >= SizeField
  /\ HeaderSize + size < MaxBlockSize
  /\ segments' = segments + 1
  /\ written' = written \o Segment(s, size)
  /\ sent' = [sent EXCEPT ![s] =
       @ \o SubSeq(Segment(s, size), HeaderSize + 1, HeaderSize + size)]
  /\ UNCHANGED <<arrived, consumed, ended, eof, place, delivered, connections>>

Shutdown ==
  /\ UNCHANGED <<consumed, place, history>>
  /\ Transport!End

-----------------------------------------------------------------------------
(* The transport.                                                          *)

Unread == SubSeq(written, consumed + 1, arrived)

Arrive ==
  /\ Len(Unread) < MaxBlockSize
  /\ UNCHANGED <<consumed, place, history>>
  /\ Transport!Arrive /\ arrived' <= arrived + ChunkSize

SeeEnd ==
  /\ UNCHANGED <<consumed, place, history>>
  /\ Transport!SeeEnd

-----------------------------------------------------------------------------
(* The receiving host.                                                     *)

Least(S) == CHOOSE x \in S : \A y \in S : x <= y

\* Mutants: a header is read before its last byte is there; the segment of a
\* header is taken for the one asked for.
HeaderBegun == Len(Unread) >= HeaderSize - 1
AnyStream(s, segment) == TRUE

HeaderArrived == Len(Unread) >= HeaderSize
Mine(s, segment) == segment.stream = s

\* What the header bytes say: anything, if they are not those of a header.
Header ==
  IF Head(Unread).at = 1 - HeaderSize
    THEN {[stream |-> Head(Unread).stream, left |-> Head(Unread).size,
           header |-> HeaderSize]}
    ELSE [stream : Streams, left : 0..MaxBlockSize, header : {HeaderSize}]

\* The segment that Receive() works on: the active one, or the next.
Current ==
  IF active THEN {[stream |-> reader, left |-> remaining, header |-> 0]}
  ELSE IF HeaderArrived THEN Header ELSE {}

\* Mutant: a raw read does not stop at the end of the segment.
PastSegment(segment, size) == size

WithinSegment(segment, size) == Least({size, segment.left})

\* How much of it: a Message whole or not at all, raw bytes as they come.
Taken(s, segment, there) ==
  IF ~Mine(s, segment) THEN {0}
  ELSE IF s \in MessageStreams THEN {IF there < segment.left THEN 0 ELSE segment.left}
  ELSE {Least({WithinSegment(segment, size), there}) : size \in 1..MaxBlockSize}

\* Mutant: m_segment_active is not reset.
NeverDone(s, segment, left) == FALSE

Done(s, segment, left) == Mine(s, segment) /\ left = 0

Receive(s) ==
  /\ active => reader = s
  /\ \E segment \in Current :
       \E n \in Taken(s, segment, Len(Unread) - segment.header) :
         /\ consumed' = consumed + segment.header + n
         /\ delivered' = [delivered EXCEPT ![s] =
              @ \o SubSeq(Unread, segment.header + 1, segment.header + n)]
         /\ reader' = segment.stream
         /\ remaining' = segment.left - n
         /\ active' = ~Done(s, segment, remaining')
  /\ UNCHANGED <<written, arrived, ended, eof, segments, sent, connections>>

\* A new connection.  SetTransport() and the Link's own Close() forget the
\* segment; Connect() does not, after a transport that closed itself.
Reopen(how) ==
  /\ connections < MaxConnections /\ connections' = connections + 1
  /\ written' = <<>> /\ arrived' = 0 /\ consumed' = 0
  /\ ended' = FALSE /\ eof' = FALSE
  /\ segments' = 0
  /\ sent' = [s \in Streams |-> <<>>] /\ delivered' = [s \in Streams |-> <<>>]
  /\ active' = (active /\ how = "Connect")
  /\ UNCHANGED <<reader, remaining>>

-----------------------------------------------------------------------------
Next ==
  \/ Arrive \/ SeeEnd \/ Shutdown
  \/ \E s \in Streams, size \in 0..MaxBlockSize : Send(s, size)
  \/ \E s \in Streams : Receive(s)
  \/ \E how \in Reopenings : Reopen(how)

Spec == Init /\ [][Next]_vars

\* The transport makes progress, and the receiver calls Receive() on every
\* stream again and again, as the main loop of examples/Link.cpp does.
Fairness == WF_vars(Arrive) /\ \A s \in Streams : WF_vars(Receive(s))

FairSpec == Spec /\ Fairness

-----------------------------------------------------------------------------
(* Properties.                                                             *)

Boundary(p) == p = Len(written) \/ written[p + 1].at = 1 - HeaderSize

\* The receiver never loses its place: what is left of the active segment are
\* payload bytes of the stream it is read for, and a header or the end comes
\* after it, although headers and payloads arrive in pieces and are read by
\* calls on different streams.
InStep ==
  LET end == consumed + (IF active THEN remaining ELSE 0)
  IN  /\ end <= Len(written) /\ Boundary(end)
      /\ \A p \in consumed + 1 .. end :
           written[p].stream = reader /\ written[p].at > 0

\* Nothing waits for ever: if the receiver polls all its streams, each payload
\* byte is delivered, although a Message is taken only when it is complete and
\* receiving pauses at the limit.
Delivery ==
  \A s \in Streams : \A k \in 1..MaxSegments * (MaxBlockSize - HeaderSize) :
    Len(sent[s]) >= k ~> Len(delivered[s]) >= k \/ written = <<>>
=============================================================================

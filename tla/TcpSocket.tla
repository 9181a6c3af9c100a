----------------------------- MODULE TcpSocket -----------------------------
(***************************************************************************)
(* One sfn::TcpSocket (src/SFNUL/TcpSocket.cpp), the operating-system      *)
(* socket under it and an arbitrary peer.                                  *)
(*                                                                         *)
(* Every member function and every completion handler holds the object's   *)
(* recursive mutex from its first to its last access to the state          *)
(* (Atomic::AcquireLock), so each of them is one action.  What interleaves *)
(* are these actions and the asynchronous operations they start: asio      *)
(* performs an operation (Kernel...), queues its completion in the shared  *)
(* io_context ("ready"), and a thread of NetworkResource::Start runs the   *)
(* handler later.  With IoThreads threads up to IoThreads - 1 dequeued     *)
(* completions may be held back between the dequeue and the strand, so the *)
(* next handler is one of the first IoThreads of "ready".                  *)
(*                                                                         *)
(* A byte is a natural number: the application numbers the bytes it sends  *)
(* on a connection 1, 2, 3...; so does the peer.                           *)
(***************************************************************************)
EXTENDS Integers, Sequences, SequencesExt

CONSTANTS
  MaxBlockSize,   \* GetMaximumBlockSize(), the bound on both buffers
  ChunkSize,      \* size of the arrays send_memory and receive_memory
  IoThreads,      \* the argument of NetworkResource::Start
  Calls,          \* the hazardous calls this application makes
  LossErrors,     \* what an operation on a lost connection may report
  ShutdownErrors, \* what shutdown() on a lost connection may report
  NetCapacity,    \* bytes the network holds before a sender blocks
  MaxBytes,       \* bound: bytes the application sends on one connection
  MaxPeerBytes,   \* bound: bytes the peer sends on one connection
  MaxConnects     \* bound: calls of Connect()

ASSUME SizesAssumption ==
  /\ MaxBlockSize \in Nat \ {0}
  /\ ChunkSize \in Nat \ {0}
  /\ IoThreads \in Nat \ {0}
  /\ NetCapacity \in Nat \ {0}
  /\ MaxBytes \in Nat /\ MaxPeerBytes \in Nat
  /\ MaxConnects \in Nat

\* "reset" stands for connection_aborted and connection_reset, which the
\* code never tells apart; "other" for every error it only logs.
ASSUME ErrorsAssumption ==
  /\ LossErrors \subseteq {"reset", "other"}
  /\ ShutdownErrors \subseteq {"notConnected", "reset", "other"}

VARIABLES
  \* the members of TcpSocketImpl
  connected, requestShutdown, finSent, finReceived, sending, receiving,
  sendBuf, recvBuf,
  \* asio_socket: "closed" is !is_open(); "lost" is open without connection
  conn,
  \* the operations outstanding in the kernel; sendOp holds send_memory
  connectOp, sendOp, recvOp,
  \* completions queued in the io_context
  ready,
  \* the connection: what our kernel took, what the peer's kernel took
  taken, finOut, incoming, finIn, consumed, peerConsumed,
  \* history: bytes Send() accepted, how many of them at the last
  \* ClearBuffers(), bytes Receive() returned, number of connections
  accepted, cleared, delivered, connects

flags    == <<connected, requestShutdown, finSent, finReceived>>
sendSide == <<sending, sendBuf, sendOp>>
recvSide == <<receiving, recvBuf, recvOp>>
wire     == <<taken, finOut, incoming, finIn, consumed, peerConsumed>>
history  == <<accepted, cleared, delivered, connects>>
vars == <<flags, sendSide, recvSide, conn, connectOp, ready, wire, history>>

Errors == {"ok", "aborted", "reset", "eof", "other"}

Completion(op, err, data) == [op |-> op, err |-> err, data |-> data]

\* What fits send_memory or receive_memory.
Chunks == {s \in Seq(Nat) : Len(s) <= ChunkSize}

Completions ==
  [op : {"connect", "send", "recv"}, err : Errors, data : Chunks]

FlagsType ==
  /\ connected \in BOOLEAN /\ requestShutdown \in BOOLEAN
  /\ finSent \in BOOLEAN /\ finReceived \in BOOLEAN
  /\ sending \in BOOLEAN /\ receiving \in BOOLEAN
  /\ connectOp \in BOOLEAN /\ recvOp \in BOOLEAN
  /\ finOut \in BOOLEAN /\ finIn \in BOOLEAN
ConnType == conn \in {"closed", "connecting", "est", "lost"}
BuffersType == sendBuf \in Seq(Nat) /\ recvBuf \in Seq(Nat) /\ sendOp \in Chunks
ReadyType == ready \in Seq(Completions)
WireType ==
  /\ taken \in Seq(Nat) /\ incoming \in Seq(Nat)
  /\ consumed \in 0..Len(incoming) /\ peerConsumed \in Nat
HistoryType ==
  /\ accepted \in Nat /\ cleared \in Nat /\ connects \in Nat
  /\ delivered \in Seq(Nat)

TypeOK ==
  FlagsType /\ ConnType /\ BuffersType /\ ReadyType /\ WireType /\ HistoryType

Init ==
  /\ connected = FALSE /\ requestShutdown = FALSE
  /\ finSent = FALSE /\ finReceived = FALSE
  /\ sending = FALSE /\ sendBuf = <<>> /\ sendOp = <<>>
  /\ receiving = FALSE /\ recvBuf = <<>> /\ recvOp = FALSE
  /\ conn = "closed" /\ connectOp = FALSE /\ ready = <<>>
  /\ taken = <<>> /\ finOut = FALSE
  /\ incoming = <<>> /\ finIn = FALSE
  /\ consumed = 0 /\ peerConsumed = 0
  /\ accepted = 0 /\ cleared = 0 /\ delivered = <<>> /\ connects = 0

-----------------------------------------------------------------------------
(* Steps shared by the calls and the handlers.                             *)

Smaller(a, b) == IF a < b THEN a ELSE b
Prefix(s, n) == SubSeq(s, 1, Smaller(n, Len(s)))

\* Mutants: the whole chunk, or one byte too many, leaves the buffer.
EraseChunk(buf, n) == SubSeq(buf, ChunkSize + 1, Len(buf))
EraseOneMore(buf, n) == SubSeq(buf, n + 2, Len(buf))

\* vector::erase of the first n bytes.
Erase(buf, n) == SubSeq(buf, n + 1, Len(buf))

\* Mutants: the handlers' early return on a busy array is missing.
AlwaysIdle == TRUE

SendIdle == ~sending
ReceiveIdle == ~receiving

\* What asio_socket.shutdown() reports.
ShutdownResults ==
  CASE conn = "est"        -> {"ok"}
    [] conn = "connecting" -> {"ok", "notConnected"}
    [] OTHER               -> ShutdownErrors

PostIf(cond, queue, c) == IF cond THEN Append(queue, c) ELSE queue

\* Starting an operation on a socket that is not open fails at once.
Started(op, go, queue) ==
  PostIf(go /\ conn = "closed", queue, Completion(op, "other", <<>>))

\* Mutants: wait for a full chunk; transmit all of send_memory.
CanSendFullChunk(buf, isConnected, isFinSent) ==
  Len(buf) >= ChunkSize /\ isConnected /\ ~isFinSent
BeginSendArray(buf, go) ==
  /\ sendBuf' = buf
  /\ sending' = go
  /\ sendOp' = IF go /\ conn # "closed"
               THEN [i \in 1..ChunkSize |-> IF i <= Len(buf) THEN buf[i] ELSE -1]
               ELSE <<>>

\* The second half of SendHandler: transmit the head of the buffer.
CanSend(buf, isConnected, isFinSent) ==
  buf # <<>> /\ isConnected /\ ~isFinSent

BeginSend(buf, go) ==
  /\ sendBuf' = buf
  /\ sending' = go
  /\ sendOp' = IF go /\ conn # "closed" THEN Prefix(buf, ChunkSize) ELSE <<>>

\* Mutants: an off-by-one in the limit, in ReceiveHandler and in Receive().
CanReceiveAtLimit(buf, isConnected, isFinReceived) ==
  isConnected /\ ~isFinReceived /\ Len(buf) <= MaxBlockSize
ResumesAboveLimit(rest) == Len(recvBuf) > MaxBlockSize /\ Len(rest) <= MaxBlockSize

\* Receive() restarts the receiving that the limit had paused.
Resumes(rest) == Len(recvBuf) >= MaxBlockSize /\ Len(rest) < MaxBlockSize

\* The second half of ReceiveHandler: receive unless the buffer is full.
CanReceive(buf, isConnected, isFinReceived) ==
  isConnected /\ ~isFinReceived /\ Len(buf) < MaxBlockSize

BeginReceive(buf, go) ==
  /\ recvBuf' = buf
  /\ receiving' = go
  /\ recvOp' = (go /\ conn # "closed")

\* asio_socket.close(): every outstanding operation completes aborted.
Abort(op, outstanding, queue) ==
  PostIf(outstanding, queue, Completion(op, "aborted", <<>>))

AbortAll(queue) ==
  Abort("send", sendOp # <<>>, Abort("connect", connectOp, Abort("recv", recvOp, queue)))

CloseAsioSocket(queue) ==
  /\ connected' = FALSE
  /\ conn' = "closed"
  /\ connectOp' = FALSE /\ sendOp' = <<>> /\ recvOp' = FALSE
  /\ finOut' = (finOut \/ conn = "est")
  /\ ready' = AbortAll(queue)

-----------------------------------------------------------------------------
(* The application's calls.                                                *)

\* Mutant: Shutdown() does not look at the send buffer.
FlushedNow == TRUE
Flushed == sendBuf = <<>>

Connect ==
  /\ connects < MaxConnects
  /\ ~connected
  /\ conn \in {"closed", "lost"} \/ "Redial" \in Calls
  /\ connects' = connects + 1
  /\ sendBuf' = <<>> /\ recvBuf' = <<>>
  /\ accepted' = 0 /\ cleared' = 0 /\ delivered' = <<>>
  /\ IF conn \in {"closed", "lost"}
       THEN conn' = "connecting" /\ connectOp' = TRUE /\ UNCHANGED ready
       ELSE /\ ready' = Append(ready, Completion("connect", "other", <<>>))
            /\ UNCHANGED <<conn, connectOp>>
  /\ UNCHANGED <<flags, sending, sendOp, receiving, recvOp, wire>>

\* TcpListener hands an accepted connection to a fresh TcpSocket.
SetInternalSocket ==
  /\ connects = 0 /\ accepted = 0 /\ recvBuf = <<>> /\ ready = <<>>
  /\ connects' = 1
  /\ conn' = "est"
  /\ connected' = TRUE /\ requestShutdown' = FALSE
  /\ finSent' = FALSE /\ finReceived' = FALSE
  /\ receiving' = TRUE /\ recvOp' = TRUE
  /\ UNCHANGED <<recvBuf, sendSide, connectOp, ready, wire, accepted, cleared,
                 delivered>>

\* Send(data, n) that returns true; a refused one changes nothing.
Send(n) ==
  /\ accepted + n <= MaxBytes
  /\ ~requestShutdown
  /\ Len(sendBuf) + n < MaxBlockSize
  /\ accepted' = accepted + n
  /\ LET buf == sendBuf \o [i \in 1..n |-> accepted + i]
         go  == Flushed /\ SendIdle /\ CanSend(buf, connected, finSent)
     IN  IF go
           THEN BeginSend(buf, go) /\ ready' = Started("send", go, ready)
           ELSE sendBuf' = buf /\ UNCHANGED <<sending, sendOp, ready>>
  /\ UNCHANGED <<flags, recvSide, conn, connectOp, wire, cleared, delivered,
                 connects>>

\* Receive(data, n), and Receive(message) of a complete message of n bytes.
Receive(n) ==
  /\ n \in 1..Len(recvBuf)
  /\ delivered' = delivered \o Prefix(recvBuf, n)
  /\ LET rest == Erase(recvBuf, n)
         go   == /\ Resumes(rest) /\ ReceiveIdle
                 /\ CanReceive(rest, connected, finReceived)
     IN  IF go
           THEN BeginReceive(rest, go) /\ ready' = Started("recv", go, ready)
           ELSE recvBuf' = rest /\ UNCHANGED <<receiving, recvOp, ready>>
  /\ UNCHANGED <<flags, sendSide, conn, connectOp, wire, accepted, cleared,
                 connects>>

Shutdown ==
  /\ "Shutdown" \in Calls
  /\ IF conn = "closed"
       THEN /\ connected' = FALSE
            /\ UNCHANGED <<requestShutdown, finSent, finReceived, finOut>>
       ELSE /\ connected /\ ~finSent
            /\ requestShutdown' = TRUE
            /\ \/ /\ ~Flushed
                  /\ UNCHANGED <<finSent, finReceived, finOut>>
               \/ /\ Flushed
                  /\ \E result \in ShutdownResults :
                       /\ finSent' = (result # "other")
                       /\ finReceived' = (finReceived \/ result = "reset")
                       /\ finOut' = (finOut \/ conn = "est")
            /\ UNCHANGED connected
  /\ UNCHANGED <<sendSide, recvSide, conn, connectOp, ready, taken, incoming,
                 finIn, consumed, peerConsumed, history>>

Close ==
  /\ "Close" \in Calls
  /\ UNCHANGED <<requestShutdown, sending, sendBuf, receiving, recvBuf, taken,
                 incoming, finIn, consumed, peerConsumed, history>>
  /\ \/ /\ conn = "closed"
        /\ connected' = FALSE
        /\ UNCHANGED <<finSent, finReceived, conn, connectOp, sendOp, recvOp,
                       finOut, ready>>
     \/ /\ conn # "closed" /\ finSent
        /\ CloseAsioSocket(ready)
        /\ UNCHANGED <<finSent, finReceived>>
     \/ /\ conn # "closed" /\ ~finSent
        /\ \E result \in ShutdownResults \ {"other"} :
             /\ finSent' = TRUE
             /\ finReceived' = (finReceived \/ result = "reset")
             /\ CloseAsioSocket(ready)

\* Called by HTTPClient and by TlsConnection before they give a socket up.
Reset ==
  /\ "Reset" \in Calls
  /\ finReceived' = TRUE
  /\ UNCHANGED <<connected, requestShutdown, finSent, sendSide, recvSide, conn,
                 connectOp, ready, wire, history>>

\* The application gives up what it had queued; it does not count as lost.
ClearBuffers ==
  /\ "ClearBuffers" \in Calls
  /\ sendBuf' = <<>>
  /\ delivered' = delivered \o recvBuf
  /\ cleared' = accepted
  /\ LET go == ReceiveIdle /\ CanReceive(<<>>, connected, finReceived)
     IN  IF go
           THEN BeginReceive(<<>>, go) /\ ready' = Started("recv", go, ready)
           ELSE recvBuf' = <<>> /\ UNCHANGED <<receiving, recvOp, ready>>
  /\ UNCHANGED <<flags, sending, sendOp, conn, connectOp, wire, accepted, connects>>

-----------------------------------------------------------------------------
(* The completion handlers.                                                *)

ConnectHandler(c, queue) ==
  /\ IF c.err = "ok"
       THEN LET goRecv == CanReceive(recvBuf, TRUE, FALSE)
                goSend == CanSend(sendBuf, TRUE, FALSE)
            IN  /\ connected' = TRUE /\ requestShutdown' = FALSE
                /\ finSent' = FALSE /\ finReceived' = FALSE
                /\ IF ReceiveIdle THEN BeginReceive(recvBuf, goRecv)
                                  ELSE UNCHANGED recvSide
                /\ IF SendIdle THEN BeginSend(sendBuf, goSend)
                               ELSE UNCHANGED sendSide
                /\ ready' = Started("send", SendIdle /\ goSend,
                              Started("recv", ReceiveIdle /\ goRecv, queue))
       ELSE /\ connected' = FALSE
            /\ finSent' = (finSent \/ c.err # "other")
            /\ finReceived' = (finReceived \/ c.err # "other")
            /\ ready' = queue
            /\ UNCHANGED <<requestShutdown, sendSide, recvSide>>
  /\ UNCHANGED <<conn, connectOp, wire, history>>

\* Mutant: the FIN that Shutdown() put off is forgotten.
ForgetShutdown(queue) ==
  /\ ready' = queue
  /\ UNCHANGED <<connected, finSent, finReceived, conn, connectOp, recvOp, finOut>>

\* The buffer ran empty: send the FIN that Shutdown() had to put off.
FinishShutdown(queue) ==
  IF requestShutdown /\ ~finSent /\ conn # "closed"
    THEN \E result \in ShutdownResults :
           /\ finSent' = (result \in {"ok", "reset"})
           /\ finReceived' = (finReceived \/ result = "reset")
           /\ IF result = "reset"
                THEN CloseAsioSocket(queue)
                ELSE /\ finOut' = (finOut \/ conn = "est") /\ ready' = queue
                     /\ UNCHANGED <<connected, conn, connectOp, recvOp>>
    ELSE /\ ready' = queue
         /\ UNCHANGED <<connected, finSent, finReceived, conn, connectOp, recvOp,
                        finOut>>

SendHandler(c, queue) ==
  /\ IF sendBuf = <<>> \/ c.err # "ok"
       THEN /\ sending' = FALSE /\ ready' = queue
            /\ UNCHANGED <<sendBuf, sendOp, connected, finSent, finReceived,
                           conn, connectOp, recvOp, finOut>>
       ELSE LET rest == Erase(sendBuf, Len(c.data))
                go   == CanSend(rest, connected, finSent)
            IN  /\ BeginSend(rest, go)
                /\ IF rest = <<>>
                     THEN FinishShutdown(queue)
                     ELSE /\ ready' = Started("send", go, queue)
                          /\ UNCHANGED <<connected, finSent, finReceived, conn,
                                         connectOp, recvOp, finOut>>
  /\ UNCHANGED <<requestShutdown, receiving, recvBuf, taken, incoming, finIn,
                 consumed, peerConsumed, history>>

\* Mutant: a short read is taken for the end of the stream.
IsShortRead(c) == Len(c.data) < ChunkSize
IsEof(c) == c.err = "eof"

ReceiveHandler(c, queue) ==
  /\ \/ /\ c.err = "reset"
        /\ finReceived' = TRUE /\ finSent' = TRUE
        /\ sendBuf' = <<>> /\ receiving' = FALSE
        /\ IF conn = "closed"
             THEN /\ connected' = FALSE /\ ready' = queue
                  /\ UNCHANGED <<conn, connectOp, sendOp, recvOp, finOut>>
             ELSE CloseAsioSocket(queue)
        /\ UNCHANGED recvBuf
     \/ /\ c.err \in {"aborted", "other"}
        /\ receiving' = FALSE /\ ready' = queue
        /\ UNCHANGED <<finReceived, finSent, sendBuf, recvBuf, connected, conn,
                       connectOp, sendOp, recvOp, finOut>>
     \/ /\ c.err \in {"ok", "eof"}
        /\ finReceived' = (finReceived \/ IsEof(c))
        /\ LET buf == recvBuf \o c.data
               go  == CanReceive(buf, connected, finReceived')
           IN  BeginReceive(buf, go) /\ ready' = Started("recv", go, queue)
        /\ UNCHANGED <<finSent, sendBuf, connected, conn, connectOp, sendOp, finOut>>
  /\ UNCHANGED <<requestShutdown, sending, taken, incoming, finIn, consumed,
                 peerConsumed, history>>

\* An io thread runs a completion; at most IoThreads of them are dequeued.
RunHandler(i) ==
  /\ i \in 1..Smaller(IoThreads, Len(ready))
  /\ LET queue == RemoveAt(ready, i)
     IN  \/ ready[i].op = "connect" /\ ConnectHandler(ready[i], queue)
         \/ ready[i].op = "send" /\ SendHandler(ready[i], queue)
         \/ ready[i].op = "recv" /\ ReceiveHandler(ready[i], queue)

-----------------------------------------------------------------------------
(* asio and the operating system perform the outstanding operations.       *)

KernelConnects ==
  /\ connectOp /\ conn = "connecting"
  /\ conn' = "est" /\ connectOp' = FALSE
  /\ ready' = Append(ready, Completion("connect", "ok", <<>>))
  /\ taken' = <<>> /\ finOut' = FALSE /\ incoming' = <<>> /\ finIn' = FALSE
  /\ consumed' = 0 /\ peerConsumed' = 0
  /\ UNCHANGED <<flags, sendSide, recvSide, history>>

KernelConnectFails ==
  /\ connectOp /\ conn = "connecting"
  /\ conn' = "lost" /\ connectOp' = FALSE
  /\ \E err \in LossErrors : ready' = Append(ready, Completion("connect", err, <<>>))
  /\ UNCHANGED <<flags, sendSide, recvSide, wire, history>>

KernelSends ==
  /\ sendOp # <<>> /\ conn = "est" /\ ~finOut
  /\ \E n \in 1..Smaller(Len(sendOp), NetCapacity - (Len(taken) - peerConsumed)) :
       /\ taken' = taken \o Prefix(sendOp, n)
       /\ ready' = Append(ready, Completion("send", "ok", Prefix(sendOp, n)))
  /\ sendOp' = <<>>
  /\ UNCHANGED <<flags, sending, sendBuf, recvSide, conn, connectOp, finOut,
                 incoming, finIn, consumed, peerConsumed, history>>

KernelSendFails ==
  /\ sendOp # <<>>
  /\ conn = "lost" \/ (conn = "est" /\ finOut)
  /\ \E err \in LossErrors : ready' = Append(ready, Completion("send", err, <<>>))
  /\ sendOp' = <<>>
  /\ UNCHANGED <<flags, sending, sendBuf, recvSide, conn, connectOp, wire, history>>

KernelReceives ==
  /\ recvOp /\ conn \in {"est", "lost"}
  /\ \E n \in 1..Smaller(ChunkSize, Len(incoming) - consumed) :
       /\ consumed' = consumed + n
       /\ ready' = Append(ready, Completion("recv", "ok",
                            SubSeq(incoming, consumed + 1, consumed + n)))
  /\ recvOp' = FALSE
  /\ UNCHANGED <<flags, sendSide, receiving, recvBuf, conn, connectOp, taken,
                 finOut, incoming, finIn, peerConsumed, history>>

KernelReceivesFin ==
  /\ recvOp /\ conn = "est" /\ finIn /\ consumed = Len(incoming)
  /\ ready' = Append(ready, Completion("recv", "eof", <<>>))
  /\ recvOp' = FALSE
  /\ UNCHANGED <<flags, sendSide, receiving, recvBuf, conn, connectOp, wire, history>>

KernelReceiveFails ==
  /\ recvOp /\ conn = "lost"
  /\ \E err \in LossErrors : ready' = Append(ready, Completion("recv", err, <<>>))
  /\ recvOp' = FALSE
  /\ UNCHANGED <<flags, sendSide, receiving, recvBuf, conn, connectOp, wire, history>>

\* The peer resets the connection, or the network between them dies.
ConnectionLost ==
  /\ "Loss" \in Calls
  /\ conn = "est" /\ conn' = "lost"
  /\ UNCHANGED <<flags, sendSide, recvSide, connectOp, ready, wire, history>>

-----------------------------------------------------------------------------
(* The peer, for runs of one socket.                                       *)

PeerSends ==
  /\ conn = "est" /\ ~finIn /\ Len(incoming) < MaxPeerBytes
  /\ incoming' = Append(incoming, Len(incoming) + 1)
  /\ UNCHANGED <<flags, sendSide, recvSide, conn, connectOp, ready, taken, finOut,
                 finIn, consumed, peerConsumed, history>>

PeerShutsDown ==
  /\ conn = "est" /\ ~finIn /\ finIn' = TRUE
  /\ UNCHANGED <<flags, sendSide, recvSide, conn, connectOp, ready, taken, finOut,
                 incoming, consumed, peerConsumed, history>>

PeerReceives ==
  /\ peerConsumed < Len(taken) /\ peerConsumed' = Len(taken)
  /\ UNCHANGED <<flags, sendSide, recvSide, conn, connectOp, ready, taken, finOut,
                 incoming, finIn, consumed, history>>

-----------------------------------------------------------------------------
ApplicationStep ==
  \/ Connect \/ SetInternalSocket \/ Shutdown \/ Close \/ Reset \/ ClearBuffers
  \/ \E n \in 1..MaxBytes : Send(n)
  \/ \E n \in 1..Len(recvBuf) : Receive(n)

KernelStep ==
  \/ KernelConnects \/ KernelConnectFails \/ KernelSends \/ KernelSendFails
  \/ KernelReceives \/ KernelReceivesFin \/ KernelReceiveFails \/ ConnectionLost

PeerStep == PeerSends \/ PeerShutsDown \/ PeerReceives

HandlerStep == \E i \in 1..Smaller(IoThreads, Len(ready)) : RunHandler(i)

Next == ApplicationStep \/ HandlerStep \/ KernelStep \/ PeerStep

Spec == Init /\ [][Next]_vars

-----------------------------------------------------------------------------
(* Safety.                                                                 *)

NoneQueued(queue, op) == \A i \in DOMAIN queue : queue[i].op # op
OneQueued(queue, op) ==
  \E i \in DOMAIN queue :
    queue[i].op = op /\ \A j \in DOMAIN queue : queue[j].op = op => j = i

\* An operation owns its array while its flag is up: it is outstanding in the
\* kernel, or complete with its one handler yet to run.
Owned(busy, outstanding, queue, op) ==
  /\ outstanding => busy /\ NoneQueued(queue, op)
  /\ ~outstanding /\ busy => OneQueued(queue, op)
  /\ ~busy => NoneQueued(queue, op)

\* send_memory and receive_memory are handed to the kernel by reference: at
\* most one operation ever uses each, and the flags (lines 80, 142) are
\* neither lost nor left up, whatever is closed, cleared, reset or reconnected.
OneSendInFlight == Owned(sending, sendOp # <<>>, ready, "send")
OneReceiveInFlight == Owned(receiving, recvOp, ready, "recv")

\* Whatever the order of calls and completions, the queues stay bounded: the
\* send queue below the limit (line 380), the receive queue by less than one
\* chunk above it, because receiving resumes only below the limit (line 141).
BuffersBounded ==
  /\ Len(sendBuf) < MaxBlockSize
  /\ Len(recvBuf) < MaxBlockSize + ChunkSize
  /\ receiving => Len(recvBuf) < MaxBlockSize

\* The completions of an operation that wait for their handler: at most one of
\* "send" and one of "recv", by OneSendInFlight and OneReceiveInFlight.
Queued(queue, op) == {c \in Range(queue) : c.op = op}

\* The bytes it carries.
Unprocessed(op) ==
  IF Queued(ready, op) = {} THEN <<>> ELSE (CHOOSE c \in Queued(ready, op) : TRUE).data

\* Everything Send() accepted is, once and in order, with the kernel or still
\* in send_buffer, which is trimmed only when the completion is handled (50).
SendIntegrity ==
  connected /\ conn = "est" =>
    taken \o SubSeq(sendBuf, Len(Unprocessed("send")) + 1, Len(sendBuf))
      = [i \in 1..accepted |-> i]

\* What the application has read, what waits in receive_buffer and what a
\* queued completion still carries is what the kernel received on this
\* connection, in order, however reads, pauses and completions interleave.
ReceiveIntegrity ==
  connected /\ conn \in {"est", "lost"} =>
    delivered \o recvBuf \o Unprocessed("recv") = SubSeq(incoming, 1, consumed)

\* SendHandler never erases more bytes than the buffer holds (line 50), which
\* would be undefined behaviour.
EraseWithinBuffer ==
  \A i \in DOMAIN ready :
    ready[i].op = "send" /\ sendBuf # <<>> => Len(ready[i].data) <= Len(sendBuf)

\* No lost restart: a connection with room in its receive buffer is receiving,
\* so Receive() (line 410) has resumed it after every pause.
ReceiveNeverStalls ==
  connected /\ conn = "est" /\ ~finReceived /\ Len(recvBuf) < MaxBlockSize
    => receiving

\* Queued data of a live connection is always being sent, although Send()
\* starts an operation only when it finds the buffer empty (line 384), and a
\* put-off FIN has a completion to wait for.
SendNeverStalls ==
  connected /\ conn = "est" /\ ~finSent /\ (sendBuf # <<>> \/ requestShutdown)
    => sending /\ sendBuf # <<>>

\* Unless the application closes the socket, the FIN follows the last byte
\* that Send() accepted.
FinAfterData ==
  connected /\ conn = "est" /\ finOut => taken = [i \in 1..accepted |-> i]

\* RemoteHasShutdown() turns true only when all the peer has sent is readable.
EofAfterData ==
  connected /\ conn = "est" /\ finReceived =>
    finIn /\ delivered \o recvBuf = incoming

-----------------------------------------------------------------------------
(* What documentation says and some sequences of calls refute.             *)

\* TcpSocket.hpp:52, IsConnected(): "true if the socket is part of an
\* established TCP connection".
ConnectedMeansOpen == connected => conn \in {"est", "lost"}

\* TcpSocket.hpp:77, Send(): "true if the data could be queued": the bytes
\* accepted after the last ClearBuffers() are with the kernel or queued.
QueuedDataSurvives ==
  connected /\ conn = "est" =>
    \A b \in 1..accepted :
      b > cleared => b \in Range(taken) \union Range(sendBuf)

-----------------------------------------------------------------------------
(* Liveness.  The io threads run what is ready, in order unless one holds  *)
(* its handler back, and asio performs what the network allows; the peer   *)
(* keeps reading, and the application reads what has arrived.              *)

Fairness ==
  /\ WF_vars(RunHandler(1))
  /\ WF_vars(KernelSends) /\ WF_vars(KernelSendFails)
  /\ WF_vars(KernelReceives) /\ WF_vars(KernelReceivesFin)
  /\ WF_vars(KernelReceiveFails)
  /\ WF_vars(PeerReceives)
  /\ WF_vars(\E n \in 1..Len(recvBuf) : Receive(n))

FairSpec == Spec /\ Fairness

\* Shutdown() on a live connection eventually sends the FIN, after the data
\* it had to wait for (TcpSocket.hpp:37, "required for graceful connection
\* termination").
ShutdownCompletes ==
  connected /\ requestShutdown ~> finOut \/ conn # "est"

\* Each byte Send() accepts is handed to the kernel unless the connection ends.
AcceptedBytesLeave ==
  \A k \in 1..MaxBytes :
    connected /\ accepted >= k ~> Len(taken) >= k \/ ~connected \/ conn # "est"

\* Each byte of the peer reaches an application that keeps calling Receive(),
\* through every pause at the limit.
PeerBytesDelivered ==
  \A k \in 1..MaxPeerBytes :
    connected /\ Len(incoming) >= k
      ~> Len(delivered) >= k \/ ~connected \/ conn # "est"
=============================================================================

----------------------------- MODULE UdpSocket -----------------------------
(***************************************************************************)
(* One sfn::UdpSocket (src/SFNUL/UdpSocket.cpp) and the operating-system   *)
(* socket under it.  Calls and handlers hold the object's mutex, so each   *)
(* is one action.  A sender numbers the bytes of its datagrams 1, 2, 3...  *)
(* as they reach this host.  Sending keeps no state but that of the        *)
(* operating-system socket: a datagram is sent whole, and its handler      *)
(* returns.                                                                *)
(***************************************************************************)
EXTENDS Integers, SequencesExt, FiniteSetsExt

CONSTANTS
  Senders,       \* remote endpoints
  MaxBlockSize,  \* GetMaximumBlockSize()
  MaxDatagram,   \* bytes of a datagram, at most the size of receive_memory
  UdpFaults,     \* which of "clear", "close" and "error" happen
  MaxBytes,      \* bound: bytes that arrive from one sender
  MaxUdpFaults   \* bound: calls of ClearBuffers() and Close(), errors

ASSUME UdpAssumption ==
  /\ MaxBlockSize \in Nat \ {0} /\ MaxDatagram \in Nat \ {0}
  /\ UdpFaults \subseteq {"clear", "close", "error"}
  /\ MaxBytes \in Nat /\ MaxUdpFaults \in Nat

VARIABLES
  \* asio_socket: "closed", "open", "bound" by Bind(), or "auto", bound by the
  \* system when it first sends; the datagrams it holds; a receive operation
  sock, inbox, recvOp,
  \* receive_buffer, pending_data, receiving
  buffer, pending, receiving,
  \* completions of receive operations queued in the io_context
  ready,
  \* history: bytes of each sender that arrived; bytes ReceiveFrom() returned;
  \* the senders of whose bytes Close() or ClearBuffers() threw some away; the
  \* buffers were cleared; the chain of a bound socket ended; faults
  sent, delivered, dropped, cleared, ended, udpFaults

system == <<sock, inbox, recvOp>>
members == <<buffer, pending, receiving>>
udpHistory == <<sent, delivered, dropped, cleared, ended, udpFaults>>
udpVars == <<system, members, ready, udpHistory>>

Datagram(from, data) == [from |-> from, data |-> data]

Completion(err, from, data) == [err |-> err, from |-> from, data |-> data]

UdpInit ==
  /\ sock = "closed" /\ inbox = <<>> /\ recvOp = FALSE
  /\ buffer = [e \in Senders |-> <<>>] /\ pending = 0 /\ receiving = FALSE
  /\ ready = <<>>
  /\ sent = [e \in Senders |-> 0] /\ delivered = [e \in Senders |-> <<>>]
  /\ dropped = {} /\ cleared = FALSE /\ ended = FALSE /\ udpFaults = 0

-----------------------------------------------------------------------------
(* Steps shared by the calls and the handler.                              *)

BelowLimit(bytes) == bytes < MaxBlockSize

\* The end of ReceiveHandler: receive again below the limit, on a socket in
\* state s.  An operation on a closed socket fails at once.
Receive(go, s, queue) ==
  /\ receiving' = go
  /\ recvOp' = (go /\ s # "closed")
  /\ ready' = IF go /\ s = "closed"
              THEN Append(queue, Completion("other", CHOOSE e \in Senders : TRUE, <<>>))
              ELSE queue

\* ReceiveHandler( error_code{}, 0, nullptr ), unless a receive is outstanding.
Restart(wanted, bytes, s) ==
  IF wanted /\ ~receiving THEN Receive(BelowLimit(bytes), s, ready)
  ELSE UNCHANGED <<receiving, recvOp, ready>>

\* Mutant: the limit is crossed a byte too late.
CrossesLate(n) == pending > MaxBlockSize /\ pending - n <= MaxBlockSize

\* ReceiveFrom() of n bytes resumes the receiving that the limit had paused.
Crosses(n) == pending >= MaxBlockSize /\ pending - n < MaxBlockSize

UdpFault(f) ==
  f \in UdpFaults /\ udpFaults < MaxUdpFaults /\ udpFaults' = udpFaults + 1

-----------------------------------------------------------------------------
(* The application's calls.                                                *)

\* bind() fails on a socket that is bound already, or if the address is in use.
Bind ==
  /\ sock \in {"closed", "open"} /\ sock' = "bound"
  /\ Restart(TRUE, pending, "bound")
  /\ UNCHANGED <<inbox, buffer, pending, udpHistory>>

BindFails ==
  /\ sock = "closed" /\ sock' = "open"
  /\ UNCHANGED <<inbox, recvOp, members, ready, udpHistory>>

SendTo ==
  /\ sock \in {"closed", "open"} /\ sock' = "auto"
  /\ UNCHANGED <<inbox, recvOp, members, ready, udpHistory>>

UdpClose ==
  /\ sock # "closed" /\ UdpFault("close")
  /\ sock' = "closed" /\ inbox' = <<>> /\ recvOp' = FALSE
  /\ ready' = IF recvOp
              THEN Append(ready, Completion("aborted", CHOOSE e \in Senders : TRUE, <<>>))
              ELSE ready
  /\ dropped' = dropped \cup {inbox[i].from : i \in DOMAIN inbox}
  /\ ended' = FALSE
  /\ UNCHANGED <<members, sent, delivered, cleared>>

\* Bytes, not datagrams: it returns what it finds, up to n of them.
ReceiveFrom(e, n) ==
  LET size == Min({n, Len(buffer[e])})
      opened == IF sock = "closed" THEN "open" ELSE sock
  IN  /\ sock' = opened
      /\ delivered' = [delivered EXCEPT ![e] = @ \o SubSeq(buffer[e], 1, size)]
      /\ buffer' = [buffer EXCEPT ![e] = SubSeq(@, size + 1, Len(@))]
      /\ pending' = pending - size
      /\ Restart(Crosses(size), pending', opened)
      /\ UNCHANGED <<inbox, sent, dropped, cleared, ended, udpFaults>>

\* pending_data is not reset.
UdpClearBuffers ==
  /\ pending # 0 /\ UdpFault("clear")
  /\ buffer' = [e \in Senders |-> <<>>]
  /\ dropped' = dropped \cup {e \in Senders : buffer[e] # <<>>}
  /\ cleared' = TRUE
  /\ UNCHANGED <<system, pending, receiving, ready, sent, delivered, ended>>

-----------------------------------------------------------------------------
(* The completion handler.                                                 *)

\* Mutant: a datagram replaces what waits from its sender.
Replaced(c) == [buffer EXCEPT ![c.from] = IF c.data = <<>> THEN @ ELSE c.data]

Appended(c) == [buffer EXCEPT ![c.from] = @ \o c.data]

\* An error ends the chain, also that of a new Bind() if it is the abort of
\* the Close() before it.
ReceiveHandler ==
  LET c == Head(ready)
  IN  /\ ready # <<>>
      /\ IF c.err = "ok"
         THEN /\ buffer' = Appended(c)
              /\ pending' = pending + Len(c.data)
              /\ Receive(BelowLimit(pending'), sock, Tail(ready))
              /\ UNCHANGED ended
         ELSE /\ ready' = Tail(ready) /\ receiving' = FALSE
              /\ ended' = (ended \/ sock = "bound")
              /\ UNCHANGED <<buffer, pending, recvOp>>
      /\ UNCHANGED <<sock, inbox, sent, delivered, dropped, cleared, udpFaults>>

-----------------------------------------------------------------------------
(* The operating system and the network.                                   *)

Arrive(e, size) ==
  /\ sock \in {"bound", "auto"} /\ sent[e] + size <= MaxBytes
  /\ sent' = [sent EXCEPT ![e] = @ + size]
  /\ inbox' = Append(inbox, Datagram(e, [i \in 1..size |-> sent[e] + i]))
  /\ UNCHANGED <<sock, recvOp, members, ready, delivered, dropped, cleared, ended,
                 udpFaults>>

KernelReceives ==
  /\ recvOp /\ inbox # <<>>
  /\ inbox' = Tail(inbox) /\ recvOp' = FALSE
  /\ ready' = Append(ready, Completion("ok", Head(inbox).from, Head(inbox).data))
  /\ UNCHANGED <<sock, members, udpHistory>>

KernelReceiveFails ==
  /\ recvOp /\ UdpFault("error")
  /\ recvOp' = FALSE
  /\ ready' = Append(ready, Completion("other", CHOOSE e \in Senders : TRUE, <<>>))
  /\ UNCHANGED <<sock, inbox, members, sent, delivered, dropped, cleared, ended>>

UdpCalls ==
  \/ Bind \/ BindFails \/ SendTo \/ UdpClose \/ UdpClearBuffers
  \/ \E e \in Senders, n \in 1..MaxBlockSize : ReceiveFrom(e, n)

UdpKernel ==
  \/ KernelReceives \/ KernelReceiveFails
  \/ \E e \in Senders, size \in 1..MaxDatagram : Arrive(e, size)

-----------------------------------------------------------------------------
(* Properties.                                                             *)

Increasing(s) == \A i, j \in DOMAIN s : i < j => s[i] < s[j]

\* The bytes that wait in the buffers, each known by its sender and position.
Places(b) == UNION {{e} \X DOMAIN b[e] : e \in Senders}

Buffered == Cardinality(Places(buffer))

\* A sender's bytes are returned in the order of its datagrams and none twice,
\* whatever is read of the others; none is missing, over errors and over any
\* Close() and Bind(), unless Close() or ClearBuffers() threw away some that this
\* sender's reader had not read; and never more than a datagram waits above the
\* limit.
BytesInOrder ==
  /\ \A e \in Senders :
       LET got == delivered[e] \o buffer[e]
       IN  /\ Increasing(got)
           /\ e \notin dropped => got = [i \in DOMAIN got |-> i]
  /\ Buffered < MaxBlockSize + MaxDatagram

\* A bound socket is receiving, or its reader will resume it: pending_data and
\* the buffers agree on the limit, over any Close() and Bind(), unless the
\* buffers were cleared or the chain was ended by an error or by the abort of
\* the previous binding.
UdpNeverStalls ==
  /\ receiving <=> recvOp \/ ready # <<>>
  /\ ~cleared => pending = Buffered
  /\ sock = "bound" /\ ~cleared /\ ~ended /\ ~receiving => Buffered >= MaxBlockSize

\* Datagrams of a sender wait for a receive that nobody starts: the chain ended
\* with an error or the abort of the previous binding, or pending_data stayed too
\* high after a ClearBuffers().
Stranded(e) ==
  ~receiving /\ (ended \/ cleared) /\ \E i \in DOMAIN inbox : inbox[i].from = e

\* What reaches a bound socket is delivered to a reader that polls all senders,
\* although receiving pauses at the limit and the io threads are stopped and
\* started again, and also what was received before an error or a Close(): all
\* but the bytes that Close() or ClearBuffers() throws away and the datagrams
\* that are stranded.
DatagramsDelivered ==
  \A e \in Senders, k \in 1..MaxBytes :
    sock = "bound" /\ sent[e] >= k
    ~> Len(delivered[e]) >= k \/ e \in dropped \/ Stranded(e)
=============================================================================

--------------------------- MODULE TlsConnection ---------------------------
(***************************************************************************)
(* A client and a server TlsConnection<TcpSocket>, joined by a connection  *)
(* (include/SFNUL/TlsConnection.inl, src/SFNUL/TlsConnection.cpp).  Calls  *)
(* and handlers hold the object's mutex, so each is one action; only       *)
(* SetCertificateKeyPair() takes no lock.  Botan's channel is modelled     *)
(* from how these files use it: a handshake of two flights in either       *)
(* direction, records that are decrypted in order or not at all, and a     *)
(* close_notify, answered in kind, that ends the channel both ways.        *)
(***************************************************************************)
EXTENDS Integers, SequencesExt

CONSTANTS
  MaxQueued,   \* blocks m_send_buffer takes
  MaxRecords,  \* records the TcpSocket takes before it refuses
  MaxBlocks    \* bound: blocks each application sends

ASSUME TlsAssumption == MaxQueued \in Nat /\ MaxRecords \in Nat /\ MaxBlocks \in Nat

Sides == {"client", "server"}
Other(s) == IF s = "client" THEN "server" ELSE "client"

VARIABLES
  conn,      \* the two objects, by side: see NewConnection
  cert,      \* server_cert: "none", "setting" or "set"
  preCert,   \* pre_cert_receive_buffer of the server
  verified,  \* the client can verify the server's certificate
  missed     \* history: the client's hello was left in pre_cert_receive_buffer

vars == <<conn, cert, preCert, verified, missed>>

Plain(kind) == [kind |-> kind, blocks |-> <<>>]
Data(blocks) == [kind |-> "data", blocks |-> blocks]

NewConnection ==
  [endpoint |-> "idle",   \* Botan's channel: "idle" before OnConnected(), then
                          \* "hello", "keys", "active", "closed"; "failed" when
                          \* the program ends in it; "reset" by Close()
   queued |-> <<>>,       \* m_send_buffer
   received |-> <<>>,     \* m_receive_buffer and what was read from it
   asked |-> FALSE,       \* m_request_close
   localClosed |-> FALSE, \* m_local_closed
   out |-> <<>>,          \* the TcpSocket's send buffer and the network behind it
   shut |-> FALSE,        \* the TcpSocket's request_shutdown
   accepted |-> 0,        \* history: blocks for which Send() returned true,
   closedAt |-> 0,        \* those before the channel closed,
   hole |-> FALSE]        \* and whether the TcpSocket refused a record

Init ==
  /\ conn = [s \in Sides |-> NewConnection]
  /\ cert = "none" /\ preCert = <<>> /\ verified \in BOOLEAN /\ missed = FALSE

Open(s) == conn[s].endpoint \notin {"idle", "reset"}

\* The FIN follows the last byte of the send buffer.
FinSent(s) == conn[s].shut /\ conn[s].out = <<>>

-----------------------------------------------------------------------------
(* What the callbacks and OnReceived() make of a connection c.             *)

\* OutputCallback: the result of T::Send() is ignored, and after a refused
\* record the peer can decrypt no other.
Output(c, record) ==
  IF c.shut \/ Len(c.out) >= MaxRecords THEN [c EXCEPT !.hole = TRUE]
  ELSE [c EXCEPT !.out = Append(@, IF c.hole THEN Plain("garbage") ELSE record)]

\* A close_notify goes out and the channel ends.
Closed(c) ==
  [Output(c, Plain("close")) EXCEPT !.endpoint = "closed", !.closedAt = c.accepted]

\* CloseEndpoint(), m_local_closed and T::Shutdown().
CloseLocally(c) == [Closed(c) EXCEPT !.localClosed = TRUE, !.shut = TRUE]

\* One record arrives at side s: DataCallback, or a step of the handshake.
Process(s, c, record) ==
  CASE c.endpoint = "hello" /\ record.kind = "hello" ->
         [Output(c, Plain(IF s = "server" THEN "hello" ELSE "keys")) EXCEPT !.endpoint = "keys"]
    [] c.endpoint = "keys" /\ record.kind = "keys" ->
         [(IF s = "server" THEN Output(c, Plain("keys")) ELSE c) EXCEPT !.endpoint = "active"]
    [] c.endpoint = "active" /\ record.kind = "data" ->
         [c EXCEPT !.received = @ \o record.blocks]
    [] c.endpoint = "active" /\ record.kind = "close" -> Closed(c)
    [] c.endpoint \in {"hello", "keys", "active"} /\ record.kind = "garbage" ->
         [c EXCEPT !.endpoint = "failed"]
    [] OTHER -> c

\* EndpointReceive() of the records of a piece.
Received(s, piece) ==
  LET after[k \in 1..Len(piece) + 1] ==
        IF k = 1 THEN conn[s] ELSE Process(s, after[k - 1], piece[k - 1])
  IN  after[Len(piece) + 1]

\* The data queued during the handshake.
Flush(c) ==
  IF c.endpoint = "active" /\ c.queued # <<>>
  THEN [Output(c, Data(c.queued)) EXCEPT !.queued = <<>>]
  ELSE c

\* Mutant: a shutdown asked for during the handshake is forgotten.
KeepOpen(c) == c

CloseIfAsked(c) == IF c.endpoint = "active" /\ c.asked THEN CloseLocally(c) ELSE c

Mistrusts(s) == s = "client" /\ ~verified

\* Mutant: the shutdown does not wait for the data.
CloseFirst(s, c) ==
  IF c.endpoint = "active" /\ Mistrusts(s) THEN [Closed(c) EXCEPT !.shut = TRUE]
  ELSE Flush(CloseIfAsked(c))

\* What OnReceived() does once the endpoint has taken a piece.
AfterPiece(s, c) ==
  IF c.endpoint = "active" /\ Mistrusts(s) THEN [Closed(c) EXCEPT !.shut = TRUE]
  ELSE CloseIfAsked(Flush(c))

-----------------------------------------------------------------------------
(* The application's calls.                                                *)

\* The limit is that of m_send_buffer, which is empty once the channel is
\* active.  A closed channel still accepts, and keeps, what it is given.
Send(s) ==
  LET c == [conn[s] EXCEPT !.accepted = @ + 1]
      block == c.accepted
  IN  /\ c.endpoint # "reset" /\ block <= MaxBlocks /\ Len(c.queued) < MaxQueued
      /\ conn' = [conn EXCEPT ![s] = IF c.endpoint = "active" THEN Output(c, Data(<<block>>))
                                     ELSE [c EXCEPT !.queued = Append(@, block)]]
      /\ UNCHANGED <<cert, preCert, verified, missed>>

\* Before the handshake is over it is only noted; so it is on a channel that
\* the peer has closed.
Shutdown(s) ==
  LET c == [conn[s] EXCEPT !.asked = TRUE]
  IN  /\ Open(s) /\ ~c.localClosed /\ ~FinSent(s)
      /\ conn' = [conn EXCEPT ![s] = IF c.endpoint = "active" THEN CloseLocally(c) ELSE c]
      /\ UNCHANGED <<cert, preCert, verified, missed>>

\* T::Close() sends a FIN after any part of what is queued and OnDisconnected()
\* resets the endpoint; what arrives later is refused.
Close(s) ==
  /\ Open(s)
  /\ \E n \in 0..Len(conn[s].out) :
       conn' = [conn EXCEPT ![s].out = SubSeq(@, 1, n), ![Other(s)].out = <<>>,
                            ![s].endpoint = "reset", ![s].shut = TRUE]
  /\ UNCHANGED <<cert, preCert, verified, missed>>

\* SetCertificateKeyPair() sets server_cert and then looks for the bytes that
\* came before it, for which it takes an endpoint for granted.
SetCertificate ==
  /\ cert = "none" /\ cert' = "setting"
  /\ UNCHANGED <<conn, preCert, verified, missed>>

\* Mutant: they are not looked for.
IgnoresEarly == conn["server"]

TakesEarly ==
  IF conn["server"].endpoint = "reset" /\ preCert # <<>>
  THEN [conn["server"] EXCEPT !.endpoint = "failed"]
  ELSE Received("server", preCert)

CertificateSet ==
  /\ cert = "setting" /\ cert' = "set"
  /\ conn' = [conn EXCEPT !["server"] = TakesEarly]
  /\ preCert' = <<>>
  /\ UNCHANGED <<verified, missed>>

-----------------------------------------------------------------------------
(* The handlers.                                                           *)

\* OnConnected(): the client's endpoint says hello.
OnConnected(s) ==
  LET c == [conn[s] EXCEPT !.endpoint = "hello"]
  IN  /\ conn[s].endpoint = "idle"
      /\ conn' = [conn EXCEPT ![s] = IF s = "client" THEN Output(c, Plain("hello")) ELSE c]
      /\ UNCHANGED <<cert, preCert, verified, missed>>

\* One turn of the loop of OnReceived(): n records arrive in one piece.
OnReceived(s, n) ==
  LET incoming == conn[Other(s)].out
  IN  /\ Open(s) /\ (s = "server" => cert # "none")
      /\ conn' = [conn EXCEPT
                    ![s] = AfterPiece(s, Received(s, SubSeq(incoming, 1, n))),
                    ![Other(s)].out = SubSeq(incoming, n + 1, Len(incoming))]
      /\ UNCHANGED <<cert, preCert, verified, missed>>

\* EndpointReceive() of a server without a certificate.  While one is being
\* set, the bytes may come too late to be looked for.
OnReceivedEarly(n) ==
  LET incoming == conn["client"].out
  IN  /\ conn["server"].endpoint = "hello" /\ cert \in {"none", "setting"}
      /\ conn' = [conn EXCEPT !["client"].out = SubSeq(incoming, n + 1, Len(incoming))]
      /\ \/ preCert' = preCert \o SubSeq(incoming, 1, n) /\ missed' = missed
         \/ cert = "setting" /\ missed' = TRUE /\ preCert' = preCert
      /\ UNCHANGED <<cert, verified>>

\* The system refuses what is sent to a closed socket; T::Close() follows.
OnReset(s) ==
  /\ Open(s) /\ conn[Other(s)].endpoint = "reset" /\ conn[Other(s)].out = <<>>
  /\ conn' = [conn EXCEPT ![s].endpoint = "reset", ![s].out = <<>>, ![s].shut = TRUE]
  /\ UNCHANGED <<cert, preCert, verified, missed>>

Calls ==
  \/ \E s \in Sides : Send(s) \/ Shutdown(s) \/ Close(s)
  \/ SetCertificate \/ CertificateSet

Handler(s) ==
  \/ OnConnected(s) \/ OnReset(s)
  \/ \E n \in 1..Len(conn[Other(s)].out) :
       OnReceived(s, n) \/ (s = "server" /\ OnReceivedEarly(n))

Next == Calls \/ \E s \in Sides : Handler(s)

Spec == Init /\ [][Next]_vars

\* The io threads run the handlers, and the server's application sets the
\* certificate.
Fairness ==
  /\ \A s \in Sides : WF_vars(Handler(s))
  /\ WF_vars(SetCertificate) /\ WF_vars(CertificateSet)

FairSpec == Spec /\ Fairness

-----------------------------------------------------------------------------
(* Properties.                                                             *)

\* The blocks in the records that are under way from a side.
InFlight(s) ==
  LET out == conn[s].out
      before[k \in 1..Len(out) + 1] ==
        IF k = 1 THEN <<>> ELSE before[k - 1] \o out[k - 1].blocks
  IN  before[Len(out) + 1]

\* Across the handshake, in which data is queued, and a shutdown in the middle
\* of it, each side receives what the other sent, in order and once; a side
\* that closes has handed over all it accepted before; and a server whose
\* certificate fails gets nothing.
DataIntegrity ==
  /\ \A s \in Sides :
       LET c == conn[s] o == conn[Other(s)] seen == o.received \o InFlight(s)
       IN  /\ \A i \in DOMAIN o.received : o.received[i] = i
           /\ c.localClosed /\ ~c.hole /\ c.endpoint # "reset"
                /\ o.endpoint \in {"hello", "keys", "active"}
              => seen = [i \in 1..c.closedAt |-> i]
  /\ ~verified => conn["server"].received \o InFlight("client") = <<>>

Spoiled ==
  \/ ~verified \/ missed
  \/ \E s \in Sides : conn[s].hole \/ conn[s].endpoint \in {"reset", "failed"}

\* What is accepted arrives, also what is queued before the handshake, unless
\* the receiver asks to close or the connection is spoiled: by a mistrusted
\* certificate, a record the TcpSocket refused, a Close(), or the race of
\* SetCertificateKeyPair() with the client's hello.
DataArrives ==
  \A s \in Sides, k \in 1..MaxBlocks :
    conn[s].accepted >= k /\ ~conn[s].localClosed
      ~> Len(conn[Other(s)].received) >= k \/ conn[Other(s)].asked \/ Spoiled

\* A shutdown asked for at any time is carried out, unless the peer's comes
\* first or the connection is spoiled.
ClosureCompletes ==
  \A s \in Sides :
    conn[s].asked ~> conn[s].localClosed \/ conn[Other(s)].asked \/ Spoiled
=============================================================================

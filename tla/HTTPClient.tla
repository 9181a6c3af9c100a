----------------------------- MODULE HTTPClient -----------------------------
(***************************************************************************)
(* One pipeline of sfn::HTTPClient (src/SFNUL/HTTPClient.cpp) and the      *)
(* server at the other end.                                                *)
(*                                                                         *)
(* The client is used by one thread, so each of its calls is one action,   *)
(* with the parser callbacks it runs.  The socket below is filled by the   *)
(* io threads meanwhile: Update() reads any part of what the server sent,  *)
(* and the end of the stream may arrive between its last Receive() and its *)
(* RemoteHasShutdown().  A response is two pieces, head (status and header *)
(* fields) and body, which http_parser hands to the callbacks; its kind    *)
(* tells how it ends: "keep" and "close" have a length, and only "close"   *)
(* has a header field Connection; "eof" ends with the stream.              *)
(***************************************************************************)
EXTENDS Integers, SequencesExt

CONSTANTS
  Requests,  \* requests, compared by value
  None,      \* HTTPRequest{}
  Kinds,     \* how the server's responses end
  Faults,    \* what may go wrong here: see FaultKinds
  MaxSends,  \* bound: calls of SendRequest()
  MaxFaults  \* bound: faults

\* The application repeats a request that is still in the pipeline; the server
\* closes at any time; the connection dies; the server is slower than the
\* timeout; the stream ends just before RemoteHasShutdown().
FaultKinds == {"repeat", "drop", "die", "slow", "race"}

ASSUME HTTPAssumption ==
  /\ None \notin Requests
  /\ Kinds \subseteq {"keep", "close", "eof"}
  /\ Faults \subseteq FaultKinds
  /\ MaxSends \in Nat /\ MaxFaults \in Nat

VARIABLES
  open,      \* the HTTPClient has this pipeline, with a socket
  pipeline,  \* m_pipeline: requests with what is known of their responses
  current,   \* m_current_request
  parser,    \* m_parser: "start", "message", "eof" (a body until the end of
             \* the stream), "failed", or "crashed": the process is gone
  \* the connection: requests the server has yet to answer, pieces not yet
  \* received, and its state at the server: "up", "last" (it answers no more
  \* and will close), "fin" or "dead"
  asked, incoming, server,
  stranded,  \* history: a request was added behind complete ones
  sends, faults

client == <<open, pipeline, current, parser>>
conn   == <<asked, incoming, server>>
vars   == <<client, conn, stranded, sends, faults>>

Init ==
  /\ open = FALSE /\ pipeline = <<>> /\ current = None /\ parser = "start"
  /\ asked = <<>> /\ incoming = <<>> /\ server = "up"
  /\ stranded = FALSE /\ sends = 0 /\ faults = 0

-----------------------------------------------------------------------------
(* The parser and Reconnect(), on the client's part of the state.          *)

Response(r, kind) ==
  [i \in 1..2 |-> [of |-> r, kind |-> kind, part |-> <<"head", "body">>[i]]]

IsComplete(e) == e.header /\ e.body

\* spoiled: history, the response began anew or lost its end at a Reconnect().
Fresh(r) == [req |-> r, got |-> <<>>, header |-> FALSE, body |-> FALSE, spoiled |-> FALSE]

\* The requests of p that have no response, in order.
Outstanding(p) ==
  LET upTo[k \in 1..Len(p) + 1] ==
        IF k = 1 THEN <<>>
        ELSE IF IsComplete(p[k - 1]) THEN upTo[k - 1] ELSE Append(upTo[k - 1], p[k - 1].req)
  IN  upTo[Len(p) + 1]

\* The element the callbacks update: the first whose request is the current
\* one; 0 if there is none.
Position(p, r) == SelectInSeq(p, LAMBDA e : e.req = r)

State == [pipeline |-> pipeline, current |-> current, parser |-> parser,
          asked |-> asked, renewed |-> FALSE]

\* Mutant: Reconnect() leaves the current request alone.
KeepCurrent(p, r) == r

\* Reconnect() continues with the first request that has no response.
FirstOutstanding(p, r) ==
  IF Outstanding(p) = <<>> THEN r ELSE Head(Outstanding(p))

\* What was received of a response is kept when it begins anew.
Kept(e) == [e EXCEPT !.spoiled = @ \/ (~IsComplete(e) /\ e.got # <<>>)]

\* Reconnect(): a new socket and parser; what is outstanding is sent again.
Reconnect(s) ==
  [pipeline |-> [i \in DOMAIN s.pipeline |-> Kept(s.pipeline[i])],
   current  |-> FirstOutstanding(s.pipeline, s.current),
   parser   |-> "start",
   asked    |-> Outstanding(s.pipeline),
   renewed  |-> TRUE]

\* The callbacks append to a header field: its value is "close" if exactly one
\* copy of it was received.
SaysClose(e) ==
  \E got \in {e.got} :
    Cardinality({k \in DOMAIN got : got[k].kind = "close" /\ got[k].part = "head"}) = 1

\* Mutants: the answered request stays current; none is.
StayAt(p, i) == p[i].req
NoneNext(p, i) == None

NextRequest(p, i) == IF i = Len(p) THEN None ELSE p[i + 1].req

\* Mutant: Reconnect() before SetBodyComplete().
ReconnectFirst(s, i) ==
  LET r == IF SaysClose(s.pipeline[i]) THEN Reconnect(s) ELSE s
  IN  [r EXCEPT !.pipeline[i].body = TRUE, !.current = NextRequest(r.pipeline, i)]

OnMessageComplete(s, i) ==
  LET done == [s EXCEPT !.pipeline[i].body = TRUE, !.parser = "start"]
      next == IF SaysClose(done.pipeline[i]) THEN Reconnect(done) ELSE done
  IN  [next EXCEPT !.current = NextRequest(next.pipeline, i)]

\* A piece is added to a response.
Given(e, piece) ==
  [e EXCEPT !.got = Append(@, piece), !.header = @ \/ piece.part = "head"]

\* One piece through http_parser and OnStatus, OnHeaderValue,
\* OnHeadersComplete, OnBody, OnMessageComplete.  After a Reconnect() in a
\* callback the rest of the buffer is parsed with a null parser->data.
Parsed(s, piece) ==
  LET i == Position(s.pipeline, s.current)
      put == [s EXCEPT
        !.pipeline[i] = Given(@, piece),
        !.parser = IF piece.kind = "eof" THEN "eof" ELSE "message"]
  IN  IF s.parser = "failed" THEN s
      ELSE IF s.renewed THEN [s EXCEPT !.parser = "crashed"]
      ELSE IF i = 0 THEN [s EXCEPT !.parser = "failed"]
      ELSE IF piece.part = "body" /\ piece.kind # "eof" THEN OnMessageComplete(put, i)
      ELSE put

\* http_parser_execute( nullptr, 0 ); "early" if unread data is left behind.
ParsedEnd(s, early) ==
  LET i == Position(s.pipeline, s.current)
  IN  IF s.parser = "eof" /\ i # 0
        THEN OnMessageComplete([s EXCEPT !.pipeline[i].spoiled = @ \/ early], i)
        ELSE s

-----------------------------------------------------------------------------
(* The application's calls.                                                *)

Fault(f) == f \in Faults /\ faults < MaxFaults /\ faults' = faults + 1

Running == parser # "crashed"

\* What a call leaves, after s: a Reconnect() leaves nothing of the old
\* connection.
Leaves(s, unread) ==
  /\ pipeline' = s.pipeline /\ current' = s.current /\ parser' = s.parser
  /\ asked' = s.asked
  /\ incoming' = IF s.renewed THEN <<>> ELSE unread
  /\ server' = IF s.renewed THEN "up" ELSE server
  /\ stranded' = (stranded /\ ~s.renewed)

\* HTTPClient::SendRequest, which makes the pipeline, and the pipeline's own.
SendRequest(r) ==
  /\ Running /\ sends < MaxSends /\ sends' = sends + 1
  /\ Position(pipeline, r) # 0 => "repeat" \in Faults
  /\ open' = TRUE
  /\ current' = IF pipeline = <<>> THEN r ELSE current
  /\ pipeline' = Append(pipeline, Fresh(r))
  /\ asked' = Append(asked, r)
  /\ stranded' = (stranded \/ (pipeline # <<>> /\ Outstanding(pipeline) = <<>>))
  /\ UNCHANGED <<parser, incoming, server, faults>>

\* GetResponse() of a complete response, which it takes out.
GetResponse(r) ==
  LET i == Position(pipeline, r)
  IN  /\ Running /\ i # 0 /\ IsComplete(pipeline[i])
      /\ pipeline' = RemoveAt(pipeline, i)
      /\ UNCHANGED <<open, current, parser, conn, stranded, sends, faults>>

\* Update() reads the first n pieces.
Read(n) ==
  LET after[k \in 1..n + 1] ==
        IF k = 1 THEN State ELSE Parsed(after[k - 1], incoming[k - 1])
  IN  after[n + 1]

UpdateReads(n) ==
  /\ open /\ Running /\ n > 0
  /\ \E s \in {Read(n)} : Leaves(s, SubSeq(incoming, n + 1, Len(incoming)))
  /\ UNCHANGED <<open, sends, faults>>

\* It has read n pieces and sees the end of the stream, which it does not look
\* for after a parser error.
UpdateSeesEnd(n) ==
  LET early == n < Len(incoming)
  IN  /\ open /\ Running /\ server = "fin"
      /\ IF early THEN Fault("race") ELSE UNCHANGED faults
      /\ \E s \in {Read(n)} :
           /\ ~s.renewed /\ (n > 0 => s.parser # "failed")
           /\ \E t \in {Reconnect(ParsedEnd(s, early))} : Leaves(t, <<>>)
      /\ UNCHANGED <<open, sends>>

Update == \E n \in 0..Len(incoming) : UpdateReads(n) \/ UpdateSeesEnd(n)

\* Nothing will arrive any more: only the timer can help.
Quiet == incoming = <<>> /\ (server = "dead" \/ (server = "up" /\ asked = <<>>))

\* Update() after the timeout, with requests in the pipeline.
Retry ==
  /\ open /\ Running /\ pipeline # <<>>
  /\ IF Quiet THEN UNCHANGED faults ELSE Fault("slow")
  /\ \E s \in {Reconnect(State)} : Leaves(s, <<>>)
  /\ UNCHANGED <<open, sends>>

\* And without: HTTPClient::Update destroys the pipeline.
Expire ==
  /\ open /\ Running /\ pipeline = <<>>
  /\ open' = FALSE /\ current' = None /\ parser' = "start"
  /\ asked' = <<>> /\ incoming' = <<>> /\ server' = "up" /\ stranded' = FALSE
  /\ UNCHANGED <<pipeline, sends, faults>>

-----------------------------------------------------------------------------
(* The server and the network.                                             *)

\* It answers in order, and closes after a response that ends with the stream
\* or says so.
ServerAnswers(kind) ==
  /\ open /\ server = "up" /\ asked # <<>>
  /\ incoming' = incoming \o Response(Head(asked), kind)
  /\ asked' = Tail(asked)
  /\ server' = IF kind = "keep" THEN "up" ELSE "last"
  /\ UNCHANGED <<client, stranded, sends, faults>>

ServerCloses ==
  /\ server = "last" /\ server' = "fin"
  /\ UNCHANGED <<client, asked, incoming, stranded, sends, faults>>

\* The connection ends with any part of the pieces, by a FIN or without one.
\* A response that is cut off was not the server's to end with the stream.
ServerDrops(n, how) ==
  /\ open /\ server \in {"up", "last"}
  /\ IF how = "fin" THEN Fault("drop") ELSE Fault("die")
  /\ how = "fin" => \A i \in n + 1 .. Len(incoming) : incoming[i].kind # "eof"
  /\ server' = how
  /\ incoming' = SubSeq(incoming, 1, n)
  /\ UNCHANGED <<client, asked, stranded, sends>>

-----------------------------------------------------------------------------
Next ==
  \/ \E r \in Requests : SendRequest(r) \/ GetResponse(r)
  \/ Update \/ Retry \/ Expire
  \/ \E kind \in Kinds : ServerAnswers(kind)
  \/ ServerCloses
  \/ \E n \in 0..Len(incoming), how \in {"fin", "dead"} : ServerDrops(n, how)

Spec == Init /\ [][Next]_vars

\* The main loop of examples/HTTPQuery.cpp calls Update() again and again, its
\* timer runs, and the server answers: something of this goes on.
Progress ==
  \/ Update \/ (Quiet /\ Retry)
  \/ \E kind \in Kinds : ServerAnswers(kind)
  \/ ServerCloses

FairSpec == Spec /\ WF_vars(Progress)

-----------------------------------------------------------------------------
(* Properties.                                                             *)

Whole(e) == \E kind \in Kinds : e.got = Response(e.req, kind)

\* A response that IsComplete() says is complete is the one response of its own
\* request (HTTPClient.hpp:46), whatever was answered, dropped and asked again
\* around it, unless it began on one connection and ended on another, or its end
\* was overtaken by the end of the stream: Reconnect() keeps what there was of it
\* and the server answers anew.
ResponseIntegrity ==
  \A i \in DOMAIN pipeline :
    IsComplete(pipeline[i]) /\ ~pipeline[i].spoiled => Whole(pipeline[i])

\* The parser and the pipeline agree on whose turn it is: the callbacks refuse a
\* piece only if a request was issued when all earlier ones were complete and
\* not yet fetched, the next piece is always of the current request, and none
\* follows a Reconnect() but for a response that was begun twice.
Synchronized ==
  /\ ~stranded => parser # "failed"
  /\ ~stranded /\ incoming # <<>> => Head(incoming).of = current
  /\ ~Running => \E i \in DOMAIN pipeline : pipeline[i].spoiled

\* After a Reconnect(), even inside a callback, the server is asked again only
\* what it has not answered: each request it has yet to answer waits for its
\* response, and they wait in that order.
AskedIsOutstanding ==
  open => IsSuffix(asked, Outstanding(pipeline))

\* Every request gets its response, over closed and dead connections, timeouts
\* and parser failures, if the process survives.
EveryRequestCompletes ==
  \A r \in Requests :
    r \in ToSet(Outstanding(pipeline))
      ~> r \notin ToSet(Outstanding(pipeline)) \/ ~Running
=============================================================================

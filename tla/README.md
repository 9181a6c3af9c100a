# SFNUL: a verification development

SFNUL ("simple and fast network utility library") is a C++ library of
asynchronous sockets on top of asio, with message framing (Link), object
replication (Synchronizer), TLS and an HTTP client above them. This directory
holds TLA+ models of the library's own logic, the TLC configurations that check
them and theorems that TLAPS proves about them. Paths below are relative to the
repository.

Contents: 1 inventory, 2 modules, 3 what the runs check, 4 what is proved,
5 where the code and its documentation disagree, 6 what is not modelled,
7 plan, 8 running the checks.

## 1. Inventory

The library is `src/SFNUL` and `include/SFNUL`, 7200 lines. `extlibs` (asio,
botan, http-parser) is vendored.

| component | state it keeps | operations | properties that make it correct |
|---|---|---|---|
| `NetworkResource` | one shared `io_context`, the io threads, a strand per object | `Start`, `Stop` | every completion handler runs once, also over a `Stop` and `Start`; handlers of one object never at the same time |
| `Concurrency` | a recursive mutex per object (`Atomic`) | `AcquireLock` | calls and handlers of one object exclude each other |
| `TcpSocket` | `send_buffer`, `receive_buffer`, the two transfer arrays, `sending`, `receiving`, `connected`, `request_shutdown`, `fin_sent`, `fin_received`, the asio socket | `Connect`, `Send`, `Receive`, `Shutdown`, `Close`, `ClearBuffers`, `Reset`, `SetInternalSocket`; the handlers of connect, send and receive | one operation per array; no byte lost, repeated or reordered; bounded buffers; the chains never stall; the FIN follows the data; both sides can terminate |
| `TcpListener` | accepted sockets not yet fetched, `listening`, the acceptor | `Listen`, `Close`, `GetPendingConnection`, `AcceptHandler` | each accepted connection is fetched once; one accept chain |
| `UdpSocket` | received bytes per endpoint, `pending_data`, `receiving`, the asio socket | `Bind`, `Close`, `SendTo`, `ReceiveFrom`, `ClearBuffers`, the handlers | bytes of one sender are delivered in order and once; receiving resumes after every pause |
| `Link` | the reader's current segment: stream, remaining bytes | `Send`, `Receive` of bytes or of a `Message`, `SetTransport` | each stream is a FIFO of its own; framing never loses its place |
| `SyncedObject`, `SyncedType` | id, members, `m_modified` of each member, the synchronizer | mutation, `Serialize`, `Deserialize`, moves, destruction | every change is notified |
| `Synchronizer` | `m_objects`, `m_links`; at the server `m_updates` | `CreateObject`, `AddObject`, `UpdateObject`, `RemoveObject`, `MoveObject`, `AddClient`, `Update`, `Receive` | every replica follows the server's object; the assertions of `Receive` hold |
| `TlsConnection` | data queued during the handshake, received data, `m_request_close`, `m_local_closed`, the Botan channel, `pre_cert_receive_buffer` | the calls and callbacks of a `TcpSocket`, wrapped; `SetCertificateKeyPair` | what is accepted before, during and after the handshake arrives in order; a shutdown asked for at any time is carried out, after the data |
| `HTTPClient` | per server a pipeline: the requests, their responses, the one being parsed, a timer | `SendRequest`, `GetResponse`, `Update`, parser callbacks | each response is that of its request; only what is unanswered is asked again; every request is answered in the end |
| `HTTP`, `Message`, `Endpoint`, `IpAddress`, `Utility` | value types | formatting, serialization, resolution | round trips |

**How they interact.** An application thread calls the objects; asio completes
operations in the kernel and queues handlers; the threads of `Start()` run them.
`TcpSocket` and `TcpListener` share nothing but the accepted asio socket. `Link`
calls its transport. `Synchronizer` calls `Link`s, and the objects call their
synchronizer back when they change, move or die. `TlsConnection` overrides the
callbacks `OnConnected`, `OnReceived` and `OnDisconnected` of the socket.

**What is hard.** Handlers run at any time between two calls and carry results
of a state that calls have changed since; `Send()` and `Receive()` start a chain
only on an edge (buffer empty, buffer at the limit), so that one missed edge is
a stall; `Shutdown()` leaves its work to a later handler; `Close()` and a new
`Connect()` leave old completions queued. In the synchronizer the pending
updates, the modified marks, the messages in flight and the joins of clients
have to agree with each other, and nobody looks whether a Link took a message.
The HTTP client keeps three views of one pipeline (the queue, the current
request and the parser) and reconnects inside the parser's callbacks. TLS
queues data and a shutdown until a handshake ends that runs in handlers.
`PROJECT.json` lists the hazards one by one.

## 2. Modules

| module | models | from |
|---|---|---|
| `TcpSocket` | one socket, its asio operations, an arbitrary peer | `src/SFNUL/TcpSocket.cpp` |
| `MCTcpSocket` | the call and error sets of its runs | |
| `ByteStream` | abstract: one direction of a reliable transport | `include/SFNUL/ReliableTransport.hpp` |
| `TcpConnection` | two `TcpSocket`s joined by a connection; refines `ByteStream` twice | `TcpSocket.cpp` |
| `TcpSocketProofs` | lemmas and theorems about `TcpSocket`: types, ownership, bounds | |
| `TcpSocketIntegrity` | theorems about the bytes and the ends of a first connection, and what its steps do to the two streams | |
| `TcpConnectionProofs` | theorem that `TcpConnection` refines `ByteStream` in both directions | |
| `Synchronizer` | a server, its objects, its clients and their Links | `Synchronizer.cpp`, `SyncedObject.cpp`, `SyncedType.inl` |
| `MCSynchronizer` | the client sets of its runs | |
| `Link` | one direction of a Link: the sender's framing, a `ByteStream`, the receiver's place | `Link.cpp`, `Link.inl` |
| `LinkStreams` | two of its streams, each refining `ByteStream` | |
| `MCLink` | its instance for TLC | |
| `LinkProofs` | lemmas and theorems about `Link` | |
| `SynchronizerProofs` | lemmas and theorems about `Synchronizer` | |
| `HTTPClient` | one pipeline, its parser, and a server | `HTTPClient.cpp`, `HTTP.cpp` |
| `HTTPClientProofs` | lemmas and theorems about `HTTPClient` | |
| `UdpSocket` | one socket, its asio socket, its senders | `UdpSocket.cpp` |
| `TcpListener` | one listener, its acceptor, the peers | `TcpListener.cpp`, `TcpListener.inl` |
| `NetworkResource` | `Start`, `Stop`, the io threads; composes `UdpSocket` and `TcpListener` | `NetworkResource.cpp` |
| `NetworkResourceProofs` | lemmas and theorems about both sockets under it | |
| `TlsConnection` | a client and a server over one connection | `TlsConnection.inl`, `TlsConnection.cpp` |
| `TlsConnectionProofs` | lemmas and the theorem about `TlsConnection` | |

### TcpSocket

Every member function holds the object's recursive mutex from its first to its
last access to the state, and so does every handler (`Atomic::AcquireLock`).
Each is therefore one action, with all it calls: `Send` includes the
`SendHandler( error_code{}, 0 )` it ends with, `ReceiveHandler` the `Close()` of
its reset branch. The variables are the members of `TcpSocketImpl`, plus:

- `conn`, the asio socket: closed, connecting, established, or lost (open, but
  without connection).
- `connectOp`, `sendOp`, `recvOp`, the operations outstanding in the kernel;
  `sendOp` holds the bytes of `send_memory` the operation was started with.
- `ready`, the completions queued in the `io_context` with their error and data.
- `taken`, `finOut`, `incoming`, `finIn`, `consumed`, `peerConsumed`: what each
  kernel took from its application, and what the other received.
- history variables for the properties only.

The `Kernel...` actions are asio and the operating system: partial transfers
(any number of bytes up to the chunk and the free capacity), errors of a lost
connection, aborts when the socket closes. `RunHandler(i)` runs one of the first
`IoThreads` completions: with one thread they run in order; with more, a thread
can hold a dequeued completion while others are run. Bytes are numbered, so that
order, loss and repetition can be told apart. What the errors are for is told by
the code: `reset` is `connection_aborted` or `connection_reset`, `aborted` is
`operation_aborted`, `eof`, and `other` is each error the code only logs.

`Calls` names the hazardous calls an application makes; a run without
`ClearBuffers`, for example, is about an application that does not call it.

### ByteStream and TcpConnection

`ByteStream` is what the documentation of `ReliableTransport` promises for one
direction: writes, reads, and an end of stream that shows only when everything
written has arrived. `TcpConnection` instantiates `TcpSocket` twice, each
socket's incoming side being the other's outgoing side. The mapping takes
`written` from the bytes `Send()` accepted at one end, `arrived` and `read` from
`receive_buffer` and from the results of `Receive()` at the other.

### Synchronizer

Server and clients are single-threaded processes: `Update()` and the other calls
are made from the application's main loop, each one action. The server keeps
`m_objects` (`objects`), the objects' members and marks (`dyn`, `modified`),
`m_updates` (`updates`, total, with "none" for absent) and `m_links`
(`clients`). An object has one static member, whose value is its id, and one
dynamic or stream member. `ServerUpdate` is `Update()`: any set of streamed
objects is due, then each pending update is serialized and sent to each client
in any order (`m_updates` is an unordered map), dead Links are dropped, and
`m_updates` is cleared. `ClientUpdate` is `Receive()`: it works through any
number of arrived messages and stops at the first assertion that fails
(`failed`), after which the process is gone.

A Link is a FIFO (which is what `TcpConnection` shows of the transport) that
refuses messages beyond `LinkCapacity` and loses the rest at a disconnection.
Nobody looks at the refusal, in the model as in the code.

`tainted` is a history variable: for each client the objects whose announcement
is not in order by construction of the calls: pending creation or destruction at
`AddClient()`, already held from an earlier connection, or refused by the Link.
The safety properties say that everything is right for all other objects; the
run `sync_join` shows what happens to these. `moved` is another: the objects
that were move-constructed with no update pending and not sent to all since.
`Relocate` lets `MoveObject` move such objects too (as `SetValue` and the rest
then run on them); `ModifiedPending` and `ReplicaFollows` exempt them, and no
others.

### Link

A Link is used by one thread, so `Send()` and `Receive()` are one action each.
The transport is an instance of `ByteStream`, which `TcpConnection` shows
`TcpSocket` to implement: the module says how many of the accepted bytes
(`written`) have `arrived` and were `consumed`, and like a `TcpSocket` it
refuses a block that does not fit below the block size and stops receiving while
that many bytes wait. `active`, `reader` and `remaining` are
`m_segment_active`, `m_current_stream_reader` and `m_segment_remaining`. A byte
is a record: the stream and the size its segment was sent with, and its place in
it. What the receiver takes for a header is the next `HeaderSize` bytes, and if
these are not those of a header, the stream and size it reads are arbitrary, so
that losing the place once shows as garbage, as in the code. `Receive(s)` is
both overloads: streams in `MessageStreams` are read and written with `Message`
only, whole or not at all; raw reads take any number of bytes up to what is
left and what has arrived. `Reopen` gives both hosts a new connection:
`SetTransport()` and the Link's `Close()` reset the segment; `Connect()` after
a transport that closed itself does not.

`LinkStreams` states of each stream that it implements the same `ByteStream` the
whole Link is built on: a Link makes of one reliable stream several. What it
writes is `sent`, the payload that `Send()` accepted on the stream (a history
variable: nothing reads it); as many of these bytes have arrived as there are
payload bytes of the stream among the first `arrived` of the transport, headers
not counted. It is stated of two streams, `One` and `Other`, which may be any.

### HTTPClient

The client is used by one thread, so a call is an action, and `Update()` is one
action with all the parser callbacks it runs. `pipeline` is `m_pipeline`, a
sequence of requests with the pieces received for each and the two completeness
flags; `current` is `m_current_request`; `parser` is the state of http_parser.
A response is a head and a body, in two pieces of a kind that says how it ends:
with a length (`keep`, `close`) or with the stream (`eof`), where `close` has
the header field on which `OnMessageComplete()` reconnects. The callbacks look
up the current request by value, as `Position` does. `Update()` reads any number
of the pieces that have arrived (the rest arrives later), and `UpdateSeesEnd`
is the path on which `RemoteHasShutdown()` is true, also before everything was
read, since the io threads fill the socket meanwhile. `Reconnect` is a function
of the client's state, because it also runs in the middle of the parsing;
`renewed` says that it ran, after which nothing of the old connection is left
and the rest of the buffer meets a parser whose `data` is null (`crashed`).
`Faults` are what may go wrong: the connection drops with a FIN or dies without,
the server is slower than the timeout, the FIN overtakes unread data.

### UdpSocket, TcpListener, NetworkResource

`UdpSocket` and `TcpListener` are built like `TcpSocket`: calls and handlers are
actions, `recvOp` and `acceptOps` are the operations in the kernel, `ready` and
`accepts` the completions queued. A UDP socket is closed, open, bound by
`Bind()`, or bound by the system when it first sends (`auto`). `buffer` is
`receive_buffer` with the bytes of each sender numbered as they arrive, `pending`
is `pending_data`, kept separately since `ClearBuffers()` makes them disagree. A
listener counts its accept operations, since `Close()` and `Listen()` can leave
two chains. `BindFails` leaves the socket open and unbound.

Two history variables say what is lost for good, so that the properties exempt
that and nothing else: `dropped`, the senders of whose bytes a `Close()` or a
`ClearBuffers()` threw some away, and `lost`, the connections that their peer reset
or that a `Close()` found in the system's queue. What an error leaves behind is
told from the state: `Stranded`, datagrams that no receive is started for, and
`AcceptingEnded`, no accept left after one failed. So `BytesInOrder` has no gap over
errors, failed and new bindings, `DatagramsDelivered` speaks also of a socket whose
chain ends later, and `ConnectionsFetched` of a listener whose other peers reset.

`NetworkResource` runs the handlers of either: `RunHandler` needs a
thread in `run()`, `Stop` stops the `io_context` and waits until the threads
have left (each may finish one more handler), `StopReturns` resets it. The two
objects share nothing but these threads, so a behaviour is about one of them.

### TlsConnection

Both ends of a connection are records in `conn`. Botan's channel is abstracted
to its phase (`endpoint`): a handshake of two flights each way, then records of
data, then a close_notify, answered in kind, that ends it both ways. `out` is
the send buffer of the `TcpSocket` and the network behind it, which
`TcpConnection` shows to be a FIFO; it refuses a record when it is full, and
`OutputCallback` does not notice, so that all later records are garbage to the
peer (`hole`). `OnReceived` is one turn of the loop in `OnReceived()`: a piece
of any number of records, then what the wrapper does when the endpoint has taken
it. `SetCertificateKeyPair()` takes no lock and is two steps, between which
(and between its check and its end) a handler may store the client's hello.
`verified` is what the client makes of the certificate.

## 3. What the runs check

| run | result | bounds | what it shows |
|---|---|---|---|
| `tcp_socket` | pass, 101 000 states | block size 3, chunk 2, 2 bytes out, 4 bytes in, network of 2 bytes, 1 thread | integrity of both buffers, no stall, FIN and EOF after the data; shutdown completes, accepted bytes leave, received bytes are delivered |
| `tcp_reuse` | pass, 2.1 million states | block size 2, chunk 2, 2 bytes each way, 2 connections, 2 threads, every call | one owner per array, bounded buffers, types |
| `tcp_pair` | pass, 81 000 states | block size 3, chunk 2, 4 bytes one way, 2 the other | both directions implement `ByteStream`; the termination ends |
| `tcp_clear_buffers` | violation | | see section 5 |
| `tcp_stale_connect` | violation | | see section 5 |
| `sync` | pass, 355 000 states (two symmetric clients) | 1 object, 2 values, 1 message per Link | pending updates resolve, marks imply pending updates, replicas follow, but for objects moved since they were last sent |
| `sync_objects` | pass, 52 000 states | 2 objects, 2 messages per Link | assertions fail only for tainted objects; creations and destructions arrive |
| `sync_join` | violation | 2 objects, 4 messages per Link | see section 5 |
| `link` | pass, 36 000 states | a raw stream and a Message stream, header 2, block size 5, chunk 3, 3 segments per connection, 2 connections | the receiver keeps its place; each stream implements `ByteStream`; everything is delivered |
| `http` | pass, 33 000 states | 2 requests, 3 calls of `SendRequest`, 3 kinds of responses, 2 faults of 4 kinds | a response belongs to its request; parser and pipeline agree; only what is outstanding is asked again; every request is answered |
| `resources` | pass, 98 000 states | 2 senders, block size 2, 2 bytes each; 2 connections; 2 faults; 2 threads, 1 `Stop` | bytes in order and without gaps, no stall, each connection fetched once, accepting goes on; delivery over `Stop` and `Start`, errors and resets of others |
| `tls` | pass, 43 000 states | 2 blocks each way, 2 records in the transport, 2 blocks queued | data in order and before the closure; data and shutdowns go through |

**The bounds and why they are enough.** The code compares buffer sizes with the
chunk and the block size only. A block size of 3 with a chunk of 2 has transfers
of one chunk, of part of one and of more than one, a receive buffer below, at
and above the limit, and a network that fills before the buffer does. Three
bytes cross the limit in both directions; a second connection is what stale
completions need; two threads are what reordered handlers need. In the
synchronizer a Link of one message refuses the second, and an object passes
through every state of `m_updates`; the second client is the one whose join
resets marks that the first still waits for. In the Link a header of two bytes
and chunks of three split headers and payloads at every place; a segment is
empty, as large as a block allows, or between; with three segments those of one
stream come before, between and after those of the other; and the receive buffer
pauses at its limit.
In the HTTP client two requests are one that is parsed and one that waits behind
it; a third call repeats one that was fetched; two faults hit the same
response twice, at its reconnection. A datagram of two bytes takes the buffer of
block size two from below the limit to above it, with one sender read and the
other not; two faults are a `Close()` and what follows it, or a reset peer beside one that is
not. In TLS two blocks are
one queued and one sent, or two in one flush, and a transport of two records is
full after a flush and a close_notify, which is where it refuses.
`CHECK_DEADLOCK FALSE` is set because every system here may stop: the bounds run
out, and an application may close its sockets for good.

**Fairness.** In `TcpSocket`: the io threads run what is ready (`Start()` runs
`io_context::run` on each), asio performs an operation that can make progress,
the peer keeps reading, and the application calls `Receive()` while there is
something to read. No fairness is assumed of `Send`, `Shutdown`, `Connect`,
`Close`, losses, or of the peer's sending. In `TcpConnection` both applications
also go through with the termination, since the property is about exactly that.
In `Synchronizer` both applications keep calling `Update()`, as their main loops
do; joins, disconnections and mutations are not fair. In `Link` bytes keep
arriving and the receiver calls `Receive()` on every stream again and again, as
the main loop of `examples/Link.cpp` does: a stream that nobody reads blocks the
others, which the code does not prevent. In `HTTPClient` something of this goes
on (one weak fairness of their disjunction): `Update()` is called again and
again, as in `examples/HTTPQuery.cpp`, its timer runs out when nothing arrives (15
seconds by default; with a timeout of 0 a dead connection is never noticed),
the server answers. Requests, fetches and faults are not fair. In
`NetworkResource` the threads of `Start()` run and leave `run()` when it is
stopped, `Stop()` returns, the application starts again what it stopped and
polls what it has not read; calls of `Stop`, `Bind`, `Close` and `Listen` are
not fair. In `TlsConnection` the io threads run the handlers and the server's
application sets its certificate; nothing is assumed of `Send`, `Shutdown` and
`Close`.

**Mutants.** Each property of a passing run has a mutant in `PROJECT.json`: a
definition of the model replaced by a faulty form (the operators commented as
mutants next to the original) that makes TLC report the property violated.

## 4. What is proved

The theorems hold for all sizes, bounds, sets of calls, errors, objects and
clients, and all numbers of io threads, unless a hypothesis is named. Every
invariant below was checked by TLC on the instances of the runs before it was
proved. There is one lemma per action and per handler; what several of them need
is a lemma of its own.

### TcpSocket: ownership and bounds (`TcpSocketProofs`)

- `Invariance`: `Spec => []Inv`, where `Inv` is the conjunction of `TypeOK`,
  `OneSendInFlight`, `OneReceiveInFlight` and `BuffersBounded`;
- `TypeCorrect`, `SendOwnership`, `ReceiveOwnership`, `Bounded`: each of these.

`Inv` is inductive as it stands: the properties need each other. Ownership is
stated over the whole queue of completions: while a flag is up, its operation is
outstanding and nothing of it is queued, or it is not and exactly one completion
is queued; while it is down, there is neither. That form survives the removal of
any completion (a second thread) and the appending of an aborted one. The bound
on the receive buffer needs it: a completion brings at most a chunk (`TypeOK`),
it belongs to an operation that was started below the limit, and nothing else
has grown the buffer since, because the operation still owns the array.
Its first lemmas are about appending to and removing from the queue. The
assumptions are `SizesAssumption` (positive sizes) and
`ErrorsAssumption`; no call, error or number of connections is excluded.

### TcpSocket: the bytes of a connection (`TcpSocketIntegrity`)

`FlowInvariance` proves `Flow`, on top of `Inv`: `Unconnected` and `Connecting`
say that nothing is left over when the first connection begins; `ReceiveFlow`
and `SendFlow` say where each byte is (read, in the buffer, with the one
completion, with the kernel) and `SendFlow` also that the operation in the
kernel transmits a head of the buffer; `ReceiveGoesOn` and the rest of
`SendFlow` tie the flags to the buffers. From it:

| theorem | property | hypotheses |
|---|---|---|
| `ReceiveSafe`, `ReceiveResumes` | `ReceiveIntegrity`, `ReceiveNeverStalls` | first connection |
| `SendSafe`, `SendGoesOn`, `FinIsLast` | `SendIntegrity`, `SendNeverStalls`, `FinAfterData` | first connection, no `ClearBuffers()` |
| `EofIsLast` | `EofAfterData` | first connection, no `Reset()` |
| `EraseSafe` | `EraseWithinBuffer` | first connection, no `ClearBuffers()`, one io thread |

None of the hypotheses is a convenience. The first connection: a completion that
`Close()` left queued is handled after a new `Connect()`, and its bytes go to the
new connection (TcpSocket.cpp:138). `ClearBuffers()`: the run
`tcp_clear_buffers` shows the data loss. `Reset()` raises `fin_received` by
definition. One io thread: with two, the handler of a receive that failed with a
reset can run ahead of that of an earlier send; it empties the buffer, `Send()`
queues new data, and the send's handler erases more than there is
(TcpSocket.cpp:50). TLC finds this sequence with `IoThreads = 2`. All the other
theorems hold for any number of threads.

`EraseSafe` needs an invariant about the order of the queue (`EraseInv`): no
completion that carries bytes is behind one that reports a reset, since a
connection that reports it is lost, and then the kernel takes no more bytes.

### TcpConnection (`TcpConnectionProofs`)

`StreamsBothWays` proves `BothStreams`: two `TcpSocket`s that are used as
TcpSocket.hpp:37 asks, for one connection, implement a `ByteStream` in each
direction, for all block and chunk sizes, numbers of io threads, network
capacities and amounts of data; without hypotheses but `SizesAssumption`.

The argument is made once, for one socket, in the last part of
`TcpSocketIntegrity`, and used twice, by `INSTANCE`, for the two ends. Besides
`Inv` and `Flow` it needs to know how far the connection is: `Course` says that
it is unused, being opened, open, or closed after both ends were sent and
received, with nothing left in a buffer. (`Flow` alone says nothing once the
socket is closed.) `GracefulCourse` shows that each of the socket's steps keeps
this, that it is one of six for the applications (`Seen`: nothing, `Send()`,
`Shutdown()`, arrival, `Receive()`, the end of the stream), and that the bytes
its kernel took only grow, and no more after the FIN (`Sends`). That last fact is
all that the other socket needs to know of it (`OtherHost`, `OtherHostCourse`):
each is the arbitrary peer of the other's model. `SentSoFar` and `ReceivedSoFar`
then relate the two ends of a stream: what arrives is a head of what `Send()`
accepted (`Carried`), and its FIN follows the last byte.

`Unconnected` and `Connecting` allow bytes and a FIN to be on their way to a
socket that is not connected yet: the listener's connection carries data before
`SetInternalSocket()` gives it to a `TcpSocket`.

### UdpSocket and TcpListener (`NetworkResourceProofs`)

`ResourceInvariance` proves `UdpInv /\ ListenerInv` of the composition, with
threads that start and stop at any time; without hypotheses.

- `UdpInv`: types, one receive at a time (`OneReceive`, over the queue as in
  `TcpSocket`), `Counted` (`pending_data` is what the queues hold, and more only after a
  `ClearBuffers()`; the pauses are at the limit), `InOrder`
  (what the kernel, the completion, the queue and the application have of a
  sender's bytes is increasing, in this order, and complete unless the sender is in
  `dropped`). It gives `UdpInOrder`
  (`BytesInOrder`) and `UdpResumes` (`UdpNeverStalls`).
- `ListenerInv`: types, `AcceptsOn`, `Distinct` and `Youngest` (a connection is
  in one place, and one not yet accepted is newer than all that are),
  `DeadCounted` (each socket without a connection comes from an abort). It gives
  `ListenerFetchesOnce` (`FetchedOnce`) and `ListenerAccepts` (`AcceptsOn`).

### Link (`LinkProofs`)

`KeepsPlace` and `LinkTypes` prove that `InStep` and `TypeOK` hold of a Link
for all streams, header, block and chunk sizes and all mixes of raw reads and
Messages, if `"Connect" \notin Reopenings`: every new connection is made by
`SetTransport()` or after the Link's own `Close()`. (With `Connect()` alone the
theorem is false: a half-read segment of the old connection stays active.)
`InStep` is not inductive: that the place after a segment is a boundary follows
from what the sender wrote. The strengthening `Inv` adds `Framed(written)`,
that a boundary is the end or a header whose whole segment follows, up to the
next boundary. `AppendSegment` shows that one `Send()` keeps it; `CurrentSegment`
that what `Receive()` reads next is the segment its place says; `TakenBounds`
that it takes no more of it than is left and there.

`StreamsApart` proves `EachStream` under the same condition: any two streams of a
Link refine `ByteStream`, however many others there are. Per stream, `StreamInv`
is added to `Inv`. `Carries(written, s, sent[s])` says that the payload bytes of
the stream are scattered among those of the transport in their order: the `k`-th
of them is where `k` are counted. And `delivered[s]` is a head of `sent[s]`, as
long as the count of what `Receive()` has passed. The count is a cardinality, not
a recursive function, so that it can be reasoned about: `CountNone` (headers and
other streams leave it alone), `CountAll` (a segment of the stream adds to it
byte by byte). From these `CarryOwn` and `CarryOther` show that a segment keeps
`Carries`, `DeliverOwn` that a read returns the bytes that come next, and
`SendStream`, `ReceiveStream`, `TransportStream` and `ReopenStream` that a step of
the Link is a step of the stream, a new connection, or a stutter (`StreamStep`).
That a read of one stream gives nothing of another needs the receiver's place,
`CurrentSegment`. The assumptions are `LinkAssumption` and `StreamsAssumption`.

### Synchronizer (`SynchronizerProofs`)

`ReplicationInvariance` proves `Replication` for any sets of objects, clients
and values and any capacity of the Links, with joins, disconnections, refused
messages and moves; without hypotheses but `ReplicationAssumption`. From it:
`ReplicationTypes` (`TypeOK`), `UpdatesFound` (`UpdatesResolve`), `NoLostUpdate`
(`ModifiedPending`), `AnnouncedObjectsNeverFail` (`OnlyTaintedFail`),
`ReplicasFollow` (`ReplicaFollows`).

`UpdatesResolve` and `ModifiedPending` are nearly inductive. `ReplicaFollows` is
not: it speaks of clients that have received everything, and a step that
receives the last message is right only if every message before it could be
processed. `Replication` therefore says of each client and each untainted object
(`Consistent`) that the messages on their way take the replica, one after the
other, to where the server believes it to be (`Course`, a function from the
number of messages processed to the state of the replica), that no step of the
way fails an assertion (`OnCourse`), and that it ends where the pending update
expects it (`Assumed`): absent before a create, present before an update or a
destroy, equal to the object if nothing is pending. `FreshIds` and `Bounded`
say that a new object's id is in no message and no replica.

`Receive()` handles any number of messages in one step. The model writes this as
a recursive function on the messages (`Results`), and `ResultsAre` and
`ResultsFollow` prove what it leaves by induction over a set of numbers, with
the least-element principle in place of the library's induction theorem, which
takes an operator. `Update()` sends in any order: `SentPrefix` and `SendGoesOn`
show that however many of a client's messages the Link took, the rest are of
tainted objects. Courses are indexed from 1, since the prover's encoding of
sequences mixes up functions whose domain begins at 0; the proofs have also been
run with a corrected encoding.

### TlsConnection (`TlsConnectionProofs`)

`TlsDelivers` proves `DataIntegrity` for any numbers of blocks, any capacities of
the transport and the queue, any verdict on the certificate and any interleaving
of the two handlers with the two applications; without hypotheses.

`DataIntegrity` says of each side that has received, without a hole, what the
other accepted. What makes it inductive is where the rest is: `Direction` says
that the blocks received, those in the records under way (`Carried`, which gives
each record the number of blocks before it) and those queued at the sender
(`Accounts`) are together, in this order, what was accepted. It holds only of a
side that takes data or still will, so the invariant also has to say what is
under way to a side that has not finished the handshake (`Handshake`: no data
before the flight that makes the endpoint active, nothing before the hello,
nothing of the client's beside the pieces kept in `preCert`), and that a server
the client does not trust was sent no data (`Nothing`).

`OnReceived()` takes a piece of any number of records in one step, a recursive
function. The states within a piece satisfy `Exchange`, one lemma per record and
phase (`ClientTakesHandshake`, `ServerTakesHandshake`, `PairTakes`), and only at
the end of the piece also `Settled`: a client may be active with data queued and
the certificate not yet looked at, until `OnReceived()` has done both.

### HTTPClient (`HTTPClientProofs`)

`PipelineInvariant` proves `Inv` for any requests, kinds of responses and bounds
and any drops, closures, timeouts and ends of stream, if `"repeat"` is not in
`Faults`: no request is issued while an equal one is in the pipeline. (The
callbacks look up the request by value; with two equal ones the properties are
false, see section 5.) From it: `ResponsesWhole` (`ResponseIntegrity`),
`ParserSynchronized` (`Synchronized`), `AskedInOrder` (`AskedIsOutstanding`).

`Inv` has three witnesses: `k`, how many responses are complete; `ans`, how the
server answered on this connection the requests behind them; `off`, how many
pieces of the first of these answers were read.

- `Divided`: the first `k` responses are complete and whole, unless `spoiled`;
  those behind the next one are untouched.
- `Turn`: `current` is the next one, or none if all are complete, or if a request
  was stranded, until the next connection.
- `Waiting`: the server has yet to answer the rest, in order.
- `Connected`: `parser` and the next element agree with `off` (`Stage`, `Begun`),
  the pieces under way are the rest of the answers (`Stream`), all of them while
  the server is there (`Leaving`). That is what `Synchronized` lacks to be
  inductive: each piece read is of the current request only because everything
  behind it is in order. While a request is stranded nothing is said of the
  connection, since nothing of it is read.

`Update()` is a recursive function on the pieces, with a `Reconnect()` possible
in the middle. `Reads` says what holds between two pieces, of the old connection
or, once `renewed`, of the new one; `PieceParsed` that a piece keeps it,
`PiecesRead` that any number of them does (by induction over a set of numbers, as
in the synchronizer). `EndParsed` is the end of the stream: a response that ends
with it is whole if everything was read, since only the last answer can be of
this kind and a FIN does not cut it off.

### What is only model-checked

- Liveness: out of the prover's reach (fairness and ENABLED). These are
  `ShutdownCompletes`, `AcceptedBytesLeave`, `PeerBytesDelivered`,
  `GracefulTermination`, `CreationsArrive`, `DestructionsArrive`, `Delivery`,
  `EveryRequestCompletes`, `DatagramsDelivered`, `ConnectionsFetched`,
  `DataArrives` and `ClosureCompletes`. A theorem states every other property of
  the passing runs.
- What the hypotheses named above leave out: of a `TcpSocket` the later
  connections, and of a `Link` a `Connect()` while a segment is in progress.

## 5. Where the code and its documentation disagree

- **ClearBuffers with a send in flight** (`tcp_clear_buffers`). `ClearBuffers()`
  empties `send_buffer` (TcpSocket.cpp:513) while an operation reads
  `send_memory`. If `Send()` queues new data before the completion is handled,
  the handler erases that many bytes of the new data (line 50). `Send()` had
  returned true for them.
- **A closed socket becomes connected** (`tcp_stale_connect`). A connect that
  completed before `Close()` has its handler run after it, and the handler sets
  `connected` (line 230) on a closed socket; `IsConnected()` is documented as
  "part of an established TCP connection".
- **Created twice** (`sync_join`). `AddClient()` announces all objects, also
  those whose creation is pending; the next `Update()` announces these again,
  and the client's assertion at Synchronizer.cpp:397 fails.
  `SynchronizationSFML.cpp` creates objects, adds clients and updates in this
  order. The same assertion stops a client that reconnects.

These three have runs of their own. The following were met while modelling; each
is part of a model, unless it says otherwise, and the properties exempt exactly
the states it leads to (the variable or action in parentheses).

Synchronizer:

- *Silent after a move* (`moved`). The members of a move-constructed object start
  as modified (SyncedType.hpp:77). Unless an update is pending anyway, none is
  notified, and no later change is either, until the object happens to be
  serialized for another reason (a join, or a stream member).

HTTPClient:

- *A response in two halves* (`spoiled`). `Reconnect()` keeps what was received
  of a response, and the server's second answer is appended to it; a header
  field is then the concatenation of its copies, and `IsComplete()`
  (HTTPClient.hpp:46) is true of the mixture.
- *Cut off at the end of the stream* (`spoiled`). Data and FIN that arrive
  between the last `Receive()` and `RemoteHasShutdown()` (HTTPClient.cpp:172):
  the parser is told of the end and the data is thrown away.
- *Stranded* (`stranded`). `SendRequest()` makes a request current only if the
  pipeline is empty (line 97). Behind a complete response that is not yet fetched
  no request is current, the callbacks refuse its response and the parser stays
  failed until the timer reconnects; without a timeout value nothing does.
- *Equal requests*. With a request twice in the pipeline (`"repeat"` in `Faults`,
  which the run leaves out) both responses go to the first of the two, since the
  callbacks search by value, and the second is never complete.
- *Null parser data* (`crashed`). After a `Reconnect()` in a callback the rest of
  the buffer is parsed with `parser->data` null.
- `SendRequest()` ignores the result of `Send()`; the pipeline then waits for an
  answer to a request that was never sent. (Not in the model, in which the socket
  takes every request.)

UdpSocket and TcpListener:

- `UdpSocket::ClearBuffers()` leaves `pending_data` as it is (`cleared`): at the
  limit nothing is received any more, below it the limit is reached too early.
- An error of one receive ends the chain of a bound socket for good (`ended`).
- `Close()` and `Bind()` before the aborted receive is handled (`ended`): the
  binding finds a receive outstanding, whose abort then ends the chain.
- `Bind()` after the first `SendTo()` fails, as the system has bound the socket,
  and receiving does not start (`auto`).
- A `Listen()` that fails after `open()` leaves the acceptor open, so that the
  next one fails at once (`ListenFails`); `Close()` helps.
- The accept that `Close()` aborts leaves a socket without a connection in the
  queue, which `GetPendingConnection()` hands out (`aborts`).

TlsConnection:

- A record the `TcpSocket` refuses is lost without a word (`hole`), and the next
  one makes the peer's `received_data()` throw, in a handler.
- `Send()` on a channel that is closed returns true and keeps the data for ever.
- Data queued at a client during the handshake is lost if the server's
  close_notify comes in the same piece as the end of the handshake: the endpoint
  is not active when `OnReceived()` looks at it.
- `Shutdown()` after the peer's close_notify sends no FIN, since the channel is
  no longer active; only `Close()` ends the connection.
- With a certificate that fails, `m_local_closed` stays false, so that
  `LocalHasShutdown()` never becomes true although the FIN is sent.
- `SetCertificateKeyPair()` races with the handler that stores the client's
  hello (`missed`), and uses the endpoint unchecked (TlsConnection.cpp:277).
- `m_request_close` is not reset by a new connection. (Not in the model, which has
  one connection per object.)

## 6. What is not modelled, and why

- Of `TcpSocket`: queries, endpoints, linger and keep-alive; the wording of
  logs; the destructor (a `Close()` after which no handler finds the object);
  a maximum block size that changes during operation; the message framing of
  `Send( Message )` and `Receive( Message )` beyond their effect on the buffers,
  which is that of the raw calls.
- Of `Synchronizer`: moving or destroying a synchronizer, move assignment of
  objects, lifetime managers and type ids, several servers for one client, ids
  after 2^32 objects, references kept from `Get()` past an `Update()`, a small
  message that a full Link takes after it refused a larger one (the messages of a
  model have one size; what is refused is tainted either way).
- Of `Link`: `ClearBuffers`, which throws away bytes in the middle of a segment
  and leaves it active; hosts with different block sizes, where a Message that
  one accepts may never fit at the other; raw and Message calls on one stream;
  segments above 2^32 bytes.
- Of `HTTPClient`: TLS pipelines and `LoadCertificate`, name resolution, several
  pipelines (they share nothing), `Content-Length` and the other fields but
  `Connection`, responses to other than the four kinds of piece, a head that a
  `Reconnect()` cuts in the middle (a piece is read whole; such a response would be
  `spoiled`), informational responses, sockets that refuse a request.
- Of `UdpSocket`: partial sends (a datagram is sent whole), IPv6 against IPv4.
- Of `TcpListener`: the destructor, the error path of `Close()` (asio reports none
  for an open acceptor in practice), and the data race of `HasPendingConnections`
  with the handler (the application polls under no lock).
- Of `NetworkResource`: `Start()` while threads run, `Stop()` from a handler
  (which joins its own thread), the destruction of the `io_context` with the
  last object.
- Of `TlsConnection`: `ClearBuffers`, a second connection of one object, the
  `Message` overloads, the copying of `Receive`, renegotiation and fatal alerts;
  the TLS protocol itself.
- Most of the repository's 262 000 lines are vendored (`extlibs`: asio, botan,
  http-parser) and not part of this program; the library is 7200 lines. Of those
  that keep protocol state nearly all are mapped; the rest are value types,
  certificates, queries and wording.
- The formatting in `HTTP`, `Message`, `Endpoint`, `IpAddress`, `Crypto` and the
  certificates: value types without protocol state.
- Time: timeouts and the stream period are nondeterministic choices.

## 7. Plan

1. (done) `TcpSocket`, `ByteStream`, `TcpConnection`; ownership, bounds proved.
2. (done) `Synchronizer` with its Links as FIFOs.
3. (done) `Link`: segments and streams over a `ByteStream`, one `ByteStream` per
   stream; the receiver's place proved. Left: `ClearBuffers`.
4. (done) `UdpSocket`, `TcpListener` and `NetworkResource`.
5. (done) `HTTPClient`: the pipeline, its reconnections, responses against
   requests. Left: a socket that refuses a request.
6. (done) `TlsConnection` with an abstract TLS channel. Left: `ClearBuffers` and
   a second connection.
7. (done) Proofs about a first connection of `TcpSocket`: every safety invariant
   that the runs check. Proofs about `UdpSocket`, `TcpListener`, `Synchronizer`,
   `Link`, `TlsConnection` and `HTTPClient`: every safety invariant.
8. (done) That two `TcpSocket`s implement a `ByteStream` each way.
9. (done) That a `Link` implements one for each stream.

## 8. Running the checks

    tlc -workers 2 -config tcp_socket.cfg MCTcpSocket.tla
    tlc -workers 2 -config resources.cfg NetworkResource.tla
    tlapm TcpSocketProofs.tla
    tlapm TcpSocketIntegrity.tla
    tlapm TcpConnectionProofs.tla
    tlapm NetworkResourceProofs.tla
    tlapm LinkProofs.tla
    tlapm SynchronizerProofs.tla
    tlapm TlsConnectionProofs.tla
    tlapm HTTPClientProofs.tla

The module of each configuration is in `PROJECT.json`, under `runs`.

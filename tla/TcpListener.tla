---------------------------- MODULE TcpListener ----------------------------
(***************************************************************************)
(* One sfn::TcpListener (src/SFNUL/TcpListener.cpp), its acceptor and the  *)
(* peers that connect to it.  Connections are numbered in the order in     *)
(* which the system accepts them; 0 is a socket without connection.        *)
(***************************************************************************)
EXTENDS Integers, FiniteSets, SequencesExt

CONSTANTS
  ListenerFaults,  \* which of "close", "listen", "reset" and "error" happen
  MaxPeers,        \* bound: connections the peers make
  MaxListenerFaults \* bound: calls of Close(), failures of Listen() and accepts

ASSUME ListenerAssumption ==
  /\ ListenerFaults \subseteq {"close", "listen", "reset", "error"}
  /\ MaxPeers \in Nat /\ MaxListenerFaults \in Nat

VARIABLES
  \* asio_acceptor: is_open(), the system's queue of connections, the number
  \* of accept operations
  acceptorOpen, backlog, acceptOps,
  \* listening, new_connections
  listening, newConnections,
  \* completions of accepts queued in the io_context
  accepts,
  \* history: connections made; those lost in the system's queue, reset by their
  \* peer or dropped by Close(); sockets the application fetched, successful
  \* calls of Listen(), accepts aborted by Close(), accepts that failed for
  \* good, faults
  peers, lost, fetched, listens, aborts, failed, listenerFaults

acceptor == <<acceptorOpen, backlog, acceptOps>>
listenerHistory == <<peers, lost, fetched, listens, aborts, failed, listenerFaults>>
listenerVars == <<acceptor, listening, newConnections, accepts, listenerHistory>>

Accept(err, socket) == [err |-> err, socket |-> socket]

ListenerInit ==
  /\ acceptorOpen = FALSE /\ backlog = <<>> /\ acceptOps = 0
  /\ listening = FALSE /\ newConnections = <<>> /\ accepts = <<>>
  /\ peers = 0 /\ lost = {} /\ fetched = <<>>
  /\ listens = 0 /\ aborts = 0 /\ failed = 0 /\ listenerFaults = 0

ListenerFault(f) ==
  /\ f \in ListenerFaults /\ listenerFaults < MaxListenerFaults
  /\ listenerFaults' = listenerFaults + 1

-----------------------------------------------------------------------------
(* The application's calls.                                                *)

\* open() fails on an acceptor that is open; after the handler's null socket an
\* accept is started.
Listen ==
  /\ ~acceptorOpen /\ acceptorOpen' = TRUE
  /\ listening' = TRUE /\ acceptOps' = acceptOps + 1 /\ listens' = listens + 1
  /\ UNCHANGED <<backlog, newConnections, accepts, peers, lost, fetched, aborts,
                 failed, listenerFaults>>

\* set_option(), bind() or listen() fails: the acceptor stays open.
ListenFails ==
  /\ ~acceptorOpen /\ acceptorOpen' = TRUE
  /\ ListenerFault("listen")
  /\ UNCHANGED <<backlog, acceptOps, listening, newConnections, accepts,
                 peers, lost, fetched, listens, aborts, failed>>

ListenerClose ==
  /\ acceptorOpen /\ ListenerFault("close")
  /\ acceptorOpen' = FALSE /\ listening' = FALSE
  /\ backlog' = <<>> /\ lost' = lost \cup ToSet(backlog) /\ acceptOps' = 0
  /\ accepts' = accepts \o [i \in 1..acceptOps |-> Accept("aborted", 0)]
  /\ aborts' = aborts + acceptOps
  /\ UNCHANGED <<newConnections, peers, fetched, listens, failed>>

GetPendingConnection ==
  /\ newConnections # <<>>
  /\ newConnections' = Tail(newConnections)
  /\ fetched' = Append(fetched, Head(newConnections))
  /\ UNCHANGED <<acceptor, listening, accepts, peers, lost, listens, aborts,
                 failed, listenerFaults>>

-----------------------------------------------------------------------------
(* The completion handler.                                                 *)

\* Mutants: a reset connection is queued as well; a reset ends the accepting.
QueuesAll(a) == a.err # "other"
EndsOnReset(a) == a.err \in {"other", "reset"}

\* An aborted accept leaves its socket, which was never connected.
Queues(a) == a.err \in {"ok", "aborted"}

Ends(a) == a.err = "other"

AcceptHandler(i) ==
  LET a == accepts[i] again == listening /\ ~Ends(a)
  IN  /\ accepts' = RemoveAt(accepts, i)
      /\ newConnections' = IF Queues(a) THEN Append(newConnections, a.socket)
                           ELSE newConnections
      /\ acceptOps' = IF again THEN acceptOps + 1 ELSE acceptOps
      /\ failed' = IF a.err = "other" THEN failed + 1 ELSE failed
      /\ UNCHANGED <<acceptorOpen, backlog, listening, peers, lost, fetched, listens,
                     aborts, listenerFaults>>

-----------------------------------------------------------------------------
(* The operating system and the peers.                                     *)

PeerConnects ==
  /\ acceptorOpen /\ listening /\ peers < MaxPeers
  /\ peers' = peers + 1 /\ backlog' = Append(backlog, peers + 1)
  /\ UNCHANGED <<acceptorOpen, acceptOps, listening, newConnections, accepts,
                 lost, fetched, listens, aborts, failed, listenerFaults>>

KernelAccepts ==
  /\ acceptOps > 0 /\ acceptOps' = acceptOps - 1
  /\ backlog # <<>> /\ backlog' = Tail(backlog)
  /\ accepts' = Append(accepts, Accept("ok", Head(backlog)))
  /\ UNCHANGED <<acceptorOpen, listening, newConnections, listenerHistory>>

\* A peer that is gone before it is accepted ("reset": enable_connection_aborted
\* is set), or an error such as a lack of descriptors.
KernelAcceptFails(err) ==
  /\ acceptOps > 0 /\ acceptOps' = acceptOps - 1
  /\ backlog # <<>>
  /\ IF err = "reset"
     THEN backlog' = Tail(backlog) /\ lost' = lost \cup {Head(backlog)}
     ELSE UNCHANGED <<backlog, lost>>
  /\ ListenerFault(IF err = "reset" THEN "reset" ELSE "error")
  /\ accepts' = Append(accepts, Accept(err, 0))
  /\ UNCHANGED <<acceptorOpen, listening, newConnections, peers, fetched, listens,
                 aborts, failed>>

ListenerCalls == Listen \/ ListenFails \/ ListenerClose \/ GetPendingConnection

ListenerKernel ==
  PeerConnects \/ KernelAccepts \/ \E err \in {"reset", "other"} : KernelAcceptFails(err)

-----------------------------------------------------------------------------
(* Properties.                                                             *)

\* The application fetches each accepted connection once, even when Close() and
\* Listen() before the handler leave two chains of accepts, and in their order
\* as long as there is one chain; and it fetches no more dead sockets than
\* accepts were aborted.
FetchedOnce ==
  LET got == fetched \o newConnections
  IN  /\ \A i, j \in DOMAIN got :
           i < j /\ got[i] # 0 /\ got[j] # 0
           => got[i] # got[j] /\ (listens <= 1 => got[i] < got[j])
      /\ Cardinality({i \in DOMAIN got : got[i] = 0}) <= aborts

\* A listening socket accepts: an accept is outstanding or completed, unless
\* one failed for good; and there is one for each Listen() at most, the older
\* ones left by a Close() and Listen() that ran before the handler.
AcceptsOn ==
  LET chains == acceptOps + Len(accepts)
  IN  /\ listening => chains > 0 \/ failed > 0
      /\ chains <= listens

\* An accept failed for good, and no other chain of accepts goes on.
AcceptingEnded == failed > 0 /\ acceptOps + Len(accepts) = 0

\* Every connection made to a listening socket is fetched in the end, also when
\* others are reset, the io threads are stopped and started again, or Close()
\* comes once it was accepted: all but those that are reset themselves, that
\* Close() finds unaccepted, or that wait when the accepting has ended with an
\* error.
ConnectionsFetched ==
  \A c \in 1..MaxPeers :
    c \in ToSet(backlog)
    ~> \/ c \in ToSet(fetched) \/ c \in lost
       \/ c \in ToSet(backlog) /\ AcceptingEnded
=============================================================================

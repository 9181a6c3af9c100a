---------------------------- MODULE Synchronizer ----------------------------
(***************************************************************************)
(* Object replication: one SynchronizerServer, its SyncedObjects, and a    *)
(* SynchronizerClient per element of Clients, each on a Link of its own    *)
(* (src/SFNUL/Synchronizer.cpp, SyncedObject.cpp, SyncedType.inl).         *)
(*                                                                         *)
(* The server process and each client process call into the library from   *)
(* one thread, so every call is one action.  A Link delivers the messages  *)
(* of stream 200 in order (module TcpConnection) until it is shut down;    *)
(* its TcpSocket refuses a message that does not fit the send buffer.      *)
(*                                                                         *)
(* An object has one static member, set when it is constructed (its value  *)
(* is the object's id), and one dynamic or stream member, "dyn".           *)
(***************************************************************************)
EXTENDS Integers, Sequences, FiniteSets, SequencesExt

CONSTANTS
  Clients,       \* client processes
  Values,        \* values of the dynamic member
  Relocate,      \* whether it moves objects that clients know of
  LinkCapacity,  \* messages a Link holds before Send() refuses one
  MaxObjects     \* bound: objects created by the server process

ASSUME ReplicationAssumption ==
  /\ 0 \in Values
  /\ Relocate \in BOOLEAN
  /\ LinkCapacity \in Nat \ {0}
  /\ MaxObjects \in Nat

VARIABLES
  \* the server process: m_last_id, m_objects, the members of each object and
  \* whether they are marked m_modified, m_updates, m_links
  lastId, objects, dyn, modified, updates, clients,
  \* each Link and the messages on their way to the client
  link, channel,
  \* the client processes: whether m_links holds the Link, the replicas, and
  \* the message at which an assertion stopped the client
  attached, replica, failed,
  \* history: objects a client may learn of twice, or not at all; objects moved
  \* since they were last sent to all, when no update of them was pending
  tainted, moved

server == <<lastId, objects, dyn, modified, updates, clients>>
client == <<attached, replica, failed>>
history == <<tainted, moved>>
vars == <<server, link, channel, client, history>>

Ids == 1..MaxObjects

\* Mutant: the members of an object are serialized in the wrong order.
CreateSwapped(id) == [type |-> "create", id |-> id, stat |-> dyn[id], dyn |-> id]

\* Serialize( Static ) writes every member, Serialize( Dynamic ) all but the
\* static ones; a destruction carries the id only.
Create(id)  == [type |-> "create", id |-> id, stat |-> id, dyn |-> dyn[id]]
Change(id)  == [type |-> "update", id |-> id, stat |-> 0, dyn |-> dyn[id]]
Destroy(id) == [type |-> "destroy", id |-> id, stat |-> 0, dyn |-> 0]

Messages ==
  [type : {"create", "update", "destroy"}, id : Ids, stat : Ids \union {0}, dyn : Values]

Absent == [stat |-> 0, dyn |-> 0]
NoFailure == [type |-> "none", id |-> 0]

TypeOK ==
  /\ lastId \in 0..MaxObjects
  /\ objects \subseteq Ids
  /\ dyn \in [Ids -> Values] /\ modified \in [Ids -> BOOLEAN]
  /\ updates \in [Ids -> {"none", "create", "update", "destroy"}]
  /\ clients \subseteq Clients /\ attached \subseteq Clients
  /\ link \in [Clients -> {"none", "open", "shut"}]
  /\ channel \in [Clients -> Seq(Messages)]
  /\ replica \in [Clients -> [Ids -> [stat : Ids \union {0}, dyn : Values]]]
  /\ failed \in [Clients -> [type : {"none", "create", "update", "destroy"},
                             id : Ids \union {0}]]
  /\ tainted \in [Clients -> SUBSET Ids] /\ moved \subseteq objects

Init ==
  /\ lastId = 0 /\ objects = {}
  /\ dyn = [id \in Ids |-> 0] /\ modified = [id \in Ids |-> FALSE]
  /\ updates = [id \in Ids |-> "none"]
  /\ clients = {} /\ attached = {}
  /\ link = [c \in Clients |-> "none"] /\ channel = [c \in Clients |-> <<>>]
  /\ replica = [c \in Clients |-> [id \in Ids |-> Absent]]
  /\ failed = [c \in Clients |-> NoFailure]
  /\ tainted = [c \in Clients |-> {}] /\ moved = {}

-----------------------------------------------------------------------------
(* The server's objects.                                                   *)

\* Mutant: a pending create becomes an update.
UpdatedAlways(pending, ids) ==
  [id \in Ids |-> IF id \in ids THEN "update" ELSE pending[id]]

\* UpdateObject(): a pending create carries the change.
Updated(pending, ids) ==
  [id \in Ids |->
    IF id \in ids /\ pending[id] # "create" THEN "update" ELSE pending[id]]

\* Mutant: a destroyed object's pending update is left alone.
RemovedUnlessPending(pending, id) ==
  [pending EXCEPT ![id] = CASE @ = "create" -> "none"
                            [] @ = "none"   -> "destroy"
                            [] OTHER        -> @]

\* Mutant: clear() instead of erase().
RemovedAll(pending, id) ==
  IF pending[id] = "create" THEN [i \in Ids |-> "none"]
                            ELSE [pending EXCEPT ![id] = "destroy"]

\* RemoveObject(): an object no client has heard of just disappears.
Removed(pending, id) ==
  [pending EXCEPT ![id] = IF @ = "create" THEN "none" ELSE "destroy"]

CreateObject ==
  /\ lastId < MaxObjects
  /\ lastId' = lastId + 1
  /\ objects' = objects \union {lastId'}
  /\ modified' = [modified EXCEPT ![lastId'] = TRUE]
  /\ updates' = [updates EXCEPT ![lastId'] = "create"]
  /\ UNCHANGED <<dyn, clients, link, channel, client, history>>

\* A mutation of the dynamic member: SetModified() notifies the synchronizer
\* only when the member was not marked already.  Get() and operator-> mark it
\* whether or not the application then writes a new value.
SetValue(id, value) ==
  /\ id \in objects
  /\ dyn' = [dyn EXCEPT ![id] = value]
  /\ modified' = [modified EXCEPT ![id] = TRUE]
  /\ updates' = IF modified[id] THEN updates ELSE Updated(updates, {id})
  /\ UNCHANGED <<lastId, objects, clients, link, channel, client, history>>

\* Move construction, and the end of the object moved from: the new object
\* takes its place in m_objects, and its members start as m_modified, although
\* nobody is told: until the object is written again, for a streamed member or a
\* new client, SetModified() notifies nobody.
MoveObject(id) ==
  /\ id \in objects
  /\ Relocate \/ updates[id] # "none"
  /\ modified' = [modified EXCEPT ![id] = TRUE]
  /\ moved' = IF updates[id] = "none" THEN moved \union {id} ELSE moved
  /\ UNCHANGED <<lastId, objects, dyn, updates, clients, link, channel, client,
                 tainted>>

RemoveObject(id) ==
  /\ id \in objects
  /\ objects' = objects \ {id}
  /\ updates' = Removed(updates, id)
  /\ dyn' = [dyn EXCEPT ![id] = 0] /\ modified' = [modified EXCEPT ![id] = FALSE]
  /\ moved' = moved \ {id}
  /\ UNCHANGED <<lastId, clients, link, channel, client, tainted>>

-----------------------------------------------------------------------------
(* The server's synchronizer.  Both applications add a Link once it is     *)
(* connected, as the examples do.                                          *)

\* Send() on a Link: what does not fit the TcpSocket's buffer is refused.
Sent(c, messages) ==
  IF link[c] = "open"
    THEN LET all == channel[c] \o messages
         IN  SubSeq(all, 1, Min({Len(all), LinkCapacity}))
    ELSE channel[c]

\* Nobody looks at the result: the refused messages are forgotten.
Refused(c, messages) ==
  {messages[i].id : i \in Len(Sent(c, messages)) - Len(channel[c]) + 1 .. Len(messages)}

Held(c) ==
  {id \in Ids : replica[c][id] # Absent \/ \E m \in Range(channel[c]) : m.id = id}

Message(pending, id) ==
  CASE pending[id] = "create"  -> Create(id)
    [] pending[id] = "update"  -> Change(id)
    [] pending[id] = "destroy" -> Destroy(id)

\* Mutant: serializing leaves the members marked.
StillMarked(ids) == modified

\* Serialize() unmarks every member of the objects it writes.
Serialized(ids) == [id \in Ids |-> modified[id] /\ id \notin ids]

ServerUpdate ==
  /\ updates' = [id \in Ids |-> "none"]
  /\ UNCHANGED <<lastId, objects, dyn, link, client>>
  /\ \E due \in SUBSET objects :
       LET pending == Updated(updates, due)
           ids  == {id \in Ids : pending[id] # "none"}
           live == IF ids = {} THEN clients ELSE {c \in clients : link[c] = "open"}
       IN  /\ \E order \in SetToSeqs(ids) :
                LET messages == [i \in DOMAIN order |-> Message(pending, order[i])]
                IN  /\ channel' = [c \in Clients |->
                         IF c \in live THEN Sent(c, messages) ELSE channel[c]]
                    /\ tainted' = [c \in Clients |->
                         IF c \in live THEN tainted[c] \union Refused(c, messages)
                                       ELSE tainted[c]]
           /\ clients' = live
           /\ modified' = Serialized(ids) /\ moved' = moved \ ids

AddClient(c) ==
  /\ link[c] = "open" /\ c \notin clients
  /\ clients' = clients \union {c}
  /\ \E order \in SetToSeqs(objects) :
       LET messages == [i \in DOMAIN order |-> Create(order[i])]
       IN  /\ channel' = [channel EXCEPT ![c] = Sent(c, messages)]
           /\ tainted' = [tainted EXCEPT ![c] =
                @ \union Held(c) \union Refused(c, messages)
                  \union {id \in Ids : updates[id] \in {"create", "destroy"}}]
  /\ modified' = Serialized(objects)
  /\ UNCHANGED <<lastId, objects, dyn, updates, link, client, moved>>

RemoveClient(c) ==
  /\ c \in clients /\ clients' = clients \ {c}
  /\ UNCHANGED <<lastId, objects, dyn, modified, updates, link, channel, client,
                 history>>

-----------------------------------------------------------------------------
(* The clients.  A failed assertion ends the process.                      *)

Running(c) == failed[c] = NoFailure

AddServer(c) ==
  /\ Running(c) /\ link[c] = "open" /\ c \notin attached
  /\ attached' = attached \union {c}
  /\ UNCHANGED <<server, link, channel, replica, failed, history>>

RemoveServer(c) ==
  /\ Running(c) /\ c \in attached /\ attached' = attached \ {c}
  /\ UNCHANGED <<server, link, channel, replica, failed, history>>

\* The assertions of Receive(): a new object is found under its id only if
\* no older one has that id; the others need an object to be found at all.
Legal(objs, m) == (m.type = "create") <=> (objs[m.id] = Absent)

\* Mutant: an update resets what it does not carry.
ProcessedWhole(objs, m) == [objs EXCEPT ![m.id] = [stat |-> m.stat, dyn |-> m.dyn]]

Processed(objs, m) ==
  [objs EXCEPT ![m.id] =
    CASE m.type = "create"  -> [stat |-> m.stat, dyn |-> m.dyn]
      [] m.type = "update"  -> [@ EXCEPT !.dyn = m.dyn]
      [] m.type = "destroy" -> Absent]

\* Receive() works through the messages that have arrived, unless one of them
\* fails an assertion.  With fewer ids, it is what becomes of these objects if
\* there are only their messages.
Step(result, m, ids) ==
  IF result.failed # NoFailure \/ m.id \notin ids THEN result
  ELSE IF Legal(result.objs, m)
    THEN [result EXCEPT !.objs = Processed(@, m)]
    ELSE [result EXCEPT !.failed = [type |-> m.type, id |-> m.id]]

Results(objs, messages, ids) ==
  LET before[k \in 1..Len(messages) + 1] ==
        IF k = 1 THEN [objs |-> objs, failed |-> NoFailure]
                 ELSE Step(before[k - 1], messages[k - 1], ids)
  IN  before

Received(objs, messages, ids) == Results(objs, messages, ids)[Len(messages) + 1]

ClientUpdate(c) ==
  /\ Running(c) /\ c \in attached
  /\ UNCHANGED <<server, link, attached, history>>
  /\ \E n \in 1..Len(channel[c]) :
       LET result == Received(replica[c], SubSeq(channel[c], 1, n), Ids)
       IN  /\ replica' = [replica EXCEPT ![c] = result.objs]
           /\ failed' = [failed EXCEPT ![c] = result.failed]
           /\ channel' = [channel EXCEPT ![c] = SubSeq(@, n + 1, Len(@))]

\* A Link seen to be shut down is dropped, whatever it still holds.
ClientDropsLink(c) ==
  /\ Running(c) /\ c \in attached /\ link[c] = "shut"
  /\ attached' = attached \ {c}
  /\ UNCHANGED <<server, link, channel, replica, failed, history>>

-----------------------------------------------------------------------------
(* The Links: a client process connects, once more after a disconnection.  *)

Connect(c) ==
  /\ Running(c) /\ link[c] # "open" /\ c \notin clients /\ c \notin attached
  /\ link' = [link EXCEPT ![c] = "open"]
  /\ channel' = [channel EXCEPT ![c] = <<>>]
  /\ tainted' = [tainted EXCEPT ![c] = {}]
  /\ UNCHANGED <<server, client, moved>>

Disconnect(c) ==
  /\ link[c] = "open"
  /\ link' = [link EXCEPT ![c] = "shut"]
  /\ UNCHANGED <<server, channel, client, history>>

-----------------------------------------------------------------------------
Next ==
  \/ CreateObject
  \/ \E id \in Ids : \/ MoveObject(id) \/ RemoveObject(id)
                     \/ \E value \in Values : SetValue(id, value)
  \/ ServerUpdate
  \/ \E c \in Clients :
       \/ AddClient(c) \/ RemoveClient(c) \/ AddServer(c) \/ RemoveServer(c)
       \/ ClientUpdate(c) \/ ClientDropsLink(c) \/ Connect(c) \/ Disconnect(c)

Spec == Init /\ [][Next]_vars

\* Both applications keep calling Update(), as their main loops do.  That a
\* streamed object is due is not assumed.
Fairness ==
  /\ WF_vars(ServerUpdate /\ \E id \in Ids : updates[id] # "none")
  /\ \A c \in Clients : WF_vars(ClientUpdate(c))

FairSpec == Spec /\ Fairness

-----------------------------------------------------------------------------
(* Safety.                                                                 *)

\* Send() finds every object it serializes (GetObjectByID, line 32), and
\* announces no destruction of a live one.
UpdatesResolve ==
  \A id \in Ids :
    /\ updates[id] \in {"create", "update"} => id \in objects
    /\ updates[id] = "destroy" => id \notin objects

\* No lost notification: a member marked m_modified, whose next change is not
\* notified any more (SyncedType.inl:50), belongs to an object whose update is
\* pending, unless the object was moved since it was last sent to all.
ModifiedPending ==
  \A id \in objects \ moved : modified[id] => updates[id] # "none"

Subscribed(c) ==
  c \in clients /\ link[c] = "open" /\ Running(c)

\* What the client will hold once it has everything on its way.
Pending(id) == IF updates[id] = "none" THEN <<>> ELSE <<Message(updates, id)>>
Foreseen(c, id) == Received(replica[c], channel[c] \o Pending(id), {id})

\* Each replica is on its way to the server's state, whatever the order of
\* creations, changes, moves, removals, updates and joins: the client's objects,
\* the messages in flight and m_updates together make up the server's objects,
\* and no assertion of the client is in the way.  This holds of every object
\* that was neither pending when the client joined nor known to it already,
\* none of whose messages the Link refused, and that was not moved since it
\* was last sent to all clients.
ReplicaFollows ==
  \A c \in Clients : Subscribed(c) =>
    \A id \in Ids \ (tainted[c] \union moved) :
      LET result == Foreseen(c, id)
      IN  /\ result.failed = NoFailure
          /\ result.objs[id] =
               IF id \in objects THEN [stat |-> id, dyn |-> dyn[id]] ELSE Absent

\* A client never stops at an assertion because of an object that its server
\* announced to it in full.
OnlyTaintedFail ==
  \A c \in Clients :
    ~Running(c) => failed[c].id \in tainted[c]

\* Synchronizer.cpp:397, "assert( object == GetObjectByID( id ) )": what
\* Receive() creates is new.
CreatedOnce == \A c \in Clients : failed[c].type # "create"

-----------------------------------------------------------------------------
(* Liveness, of applications that keep calling Update().                   *)

Interrupted(c, id) ==
  \/ c \notin clients \/ link[c] # "open" \/ c \notin attached
  \/ {id, failed[c].id} \intersect tainted[c] # {}

\* Every object of the server appears at each client that stays connected.
CreationsArrive ==
  \A c \in Clients, id \in Ids :
    Subscribed(c) /\ c \in attached /\ id \in objects
      ~> \/ replica[c][id] # Absent \/ id \notin objects \/ Interrupted(c, id)

\* Every replica disappears after its object, although RemoveObject() sends
\* nothing itself and leaves the announcement to the next Update().
DestructionsArrive ==
  \A c \in Clients, id \in Ids :
    Subscribed(c) /\ c \in attached /\ id \notin objects /\ replica[c][id] # Absent
      ~> replica[c][id] = Absent \/ Interrupted(c, id)
=============================================================================

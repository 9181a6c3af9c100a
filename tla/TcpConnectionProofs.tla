------------------------ MODULE TcpConnectionProofs ------------------------
(***************************************************************************)
(* Two TcpSockets joined by a TCP connection implement a byte stream in    *)
(* each direction.  Each is a TcpSocket used for one connection            *)
(* (TcpSocketIntegrity); what it sees of the other is OtherHost.           *)
(***************************************************************************)
EXTENDS TcpConnection, TLAPS, SequenceTheorems

AP == INSTANCE TcpSocketIntegrity WITH
  connected <- aConnected, requestShutdown <- aRequestShutdown,
  finSent <- aFinSent, finReceived <- aFinReceived, sending <- aSending,
  receiving <- aReceiving, sendBuf <- aSendBuf, recvBuf <- aRecvBuf,
  conn <- aConn, connectOp <- aConnectOp, sendOp <- aSendOp,
  recvOp <- aRecvOp, ready <- aReady, taken <- aTaken, finOut <- aFinOut,
  consumed <- aConsumed, accepted <- aAccepted, cleared <- aCleared,
  delivered <- aDelivered, connects <- aConnects, incoming <- bTaken,
  MaxBytes <- BytesAtoB, MaxPeerBytes <- BytesBtoA,
  finIn <- bFinOut, peerConsumed <- bConsumed

BP == INSTANCE TcpSocketIntegrity WITH
  connected <- bConnected, requestShutdown <- bRequestShutdown,
  finSent <- bFinSent, finReceived <- bFinReceived, sending <- bSending,
  receiving <- bReceiving, sendBuf <- bSendBuf, recvBuf <- bRecvBuf,
  conn <- bConn, connectOp <- bConnectOp, sendOp <- bSendOp,
  recvOp <- bRecvOp, ready <- bReady, taken <- bTaken, finOut <- bFinOut,
  consumed <- bConsumed, accepted <- bAccepted, cleared <- bCleared,
  delivered <- bDelivered, connects <- bConnects, incoming <- aTaken,
  MaxBytes <- BytesBtoA, MaxPeerBytes <- BytesAtoB,
  finIn <- aFinOut, peerConsumed <- aConsumed

-----------------------------------------------------------------------------
(* The assumptions of a TcpSocket hold of both.                            *)

LEMMA Sizes ==
  /\ MaxBlockSize \in Nat \ {0}
  /\ ChunkSize \in Nat \ {0}
  /\ IoThreads \in Nat \ {0}
  /\ NetCapacity \in Nat \ {0}
  /\ BytesAtoB \in Nat /\ BytesBtoA \in Nat
  /\ MaxConnects \in Nat
BY SizesAssumption DEF MaxConnects

LEMMA NoErrors ==
  /\ LossErrors \subseteq {"reset", "other"}
  /\ ShutdownErrors \subseteq {"notConnected", "reset", "other"}
BY DEF LossErrors, ShutdownErrors

LEMMA BothGraceful == AP!Graceful /\ BP!Graceful
BY DEF AP!Graceful, AP!NoClear, AP!NoReset, BP!Graceful, BP!NoClear, BP!NoReset,
       Calls, MaxConnects

-----------------------------------------------------------------------------
(* The steps of the model are those that TcpSocketIntegrity reasons about. *)

LEMMA InitA == A!Init => AP!Init
BY Zenon DEF A!Init, AP!Init

LEMMA HandlerA == A!HandlerStep => AP!HandlerStep
BY Zenon DEF A!HandlerStep, AP!HandlerStep, A!RunHandler, AP!RunHandler,
  A!ConnectHandler, AP!ConnectHandler, A!SendHandler, AP!SendHandler,
  A!ReceiveHandler, AP!ReceiveHandler, A!wire, AP!wire, A!history, AP!history,
  A!CanReceive, AP!CanReceive, A!CanSend, AP!CanSend, A!ReceiveIdle, AP!ReceiveIdle,
  A!SendIdle, AP!SendIdle, A!BeginReceive, AP!BeginReceive, A!BeginSend, AP!BeginSend,
  A!recvSide, AP!recvSide, A!sendSide, AP!sendSide, A!Started, AP!Started,
  A!PostIf, AP!PostIf, A!Completion, AP!Completion, A!Prefix, AP!Prefix,
  A!Smaller, AP!Smaller, A!Erase, AP!Erase, A!FinishShutdown, AP!FinishShutdown,
  A!ShutdownResults, AP!ShutdownResults, A!CloseAsioSocket, AP!CloseAsioSocket,
  A!AbortAll, AP!AbortAll, A!Abort, AP!Abort, A!IsEof, AP!IsEof, A!RemoveAt, AP!RemoveAt

LEMMA KernelA ==
  /\ A!KernelSends => AP!KernelSends
  /\ A!KernelReceives => AP!KernelReceives
  /\ A!KernelReceivesFin => AP!KernelReceivesFin
  /\ A!KernelConnects => AP!KernelConnects
BY Zenon DEF A!KernelSends, AP!KernelSends, A!KernelReceives, AP!KernelReceives,
  A!KernelReceivesFin, AP!KernelReceivesFin, A!KernelConnects, AP!KernelConnects,
  A!flags, AP!flags, A!sendSide, AP!sendSide, A!recvSide, AP!recvSide,
  A!wire, AP!wire, A!history, AP!history,
  A!Completion, AP!Completion, A!Prefix, AP!Prefix, A!Smaller, AP!Smaller

LEMMA CallA ==
  /\ A!Connect => AP!Connect
  /\ \A n : A!Send(n) => AP!Send(n)
  /\ \A n : A!Receive(n) => AP!Receive(n)
  /\ A!Shutdown => AP!Shutdown
  /\ A!Close => AP!Close
BY Zenon DEF A!Connect, AP!Connect, A!Send, AP!Send, A!Receive, AP!Receive,
  A!Shutdown, AP!Shutdown, A!Close, AP!Close,
  A!flags, AP!flags, A!sendSide, AP!sendSide, A!recvSide, AP!recvSide,
  A!wire, AP!wire, A!history, AP!history, A!Flushed, AP!Flushed,
  A!CanReceive, AP!CanReceive, A!CanSend, AP!CanSend, A!ReceiveIdle, AP!ReceiveIdle,
  A!SendIdle, AP!SendIdle, A!BeginReceive, AP!BeginReceive, A!BeginSend, AP!BeginSend,
  A!Started, AP!Started, A!PostIf, AP!PostIf, A!Completion, AP!Completion,
  A!Prefix, AP!Prefix, A!Smaller, AP!Smaller, A!Erase, AP!Erase, A!Resumes, AP!Resumes,
  A!ShutdownResults, AP!ShutdownResults, A!CloseAsioSocket, AP!CloseAsioSocket,
  A!AbortAll, AP!AbortAll, A!Abort, AP!Abort

AStep ==
  \/ AHandler \/ AKernel \/ AConnect \/ AEstablished
  \/ ASend \/ AReceive \/ AShutdown \/ AClose

LEMMA GracefulA == AStep => AP!GracefulStep /\ UNCHANGED bVars
<1> SUFFICES ASSUME AStep PROVE AP!GracefulStep /\ UNCHANGED bVars
  OBVIOUS
<1>1. UNCHANGED bVars
  BY Zenon DEF AStep, AHandler, AKernel, AConnect, AEstablished, ASend, AReceive, AShutdown, AClose
<1>2. AP!GracefulStep
  BY Zenon, HandlerA, KernelA, CallA
     DEF AStep, AHandler, AKernel, AConnect, AEstablished, ASend, AReceive, AShutdown,
         AClose, AP!GracefulStep
<1> QED BY <1>1, <1>2

(* The same of the accepted socket.                                        *)

LEMMA InitB == B!Init => BP!Init
BY Zenon DEF B!Init, BP!Init

LEMMA HandlerB == B!HandlerStep => BP!HandlerStep
BY Zenon DEF B!HandlerStep, BP!HandlerStep, B!RunHandler, BP!RunHandler,
  B!ConnectHandler, BP!ConnectHandler, B!SendHandler, BP!SendHandler,
  B!ReceiveHandler, BP!ReceiveHandler, B!wire, BP!wire, B!history, BP!history,
  B!CanReceive, BP!CanReceive, B!CanSend, BP!CanSend, B!ReceiveIdle, BP!ReceiveIdle,
  B!SendIdle, BP!SendIdle, B!BeginReceive, BP!BeginReceive, B!BeginSend, BP!BeginSend,
  B!recvSide, BP!recvSide, B!sendSide, BP!sendSide, B!Started, BP!Started,
  B!PostIf, BP!PostIf, B!Completion, BP!Completion, B!Prefix, BP!Prefix,
  B!Smaller, BP!Smaller, B!Erase, BP!Erase, B!FinishShutdown, BP!FinishShutdown,
  B!ShutdownResults, BP!ShutdownResults, B!CloseAsioSocket, BP!CloseAsioSocket,
  B!AbortAll, BP!AbortAll, B!Abort, BP!Abort, B!IsEof, BP!IsEof, B!RemoveAt, BP!RemoveAt

LEMMA KernelB ==
  /\ B!KernelSends => BP!KernelSends
  /\ B!KernelReceives => BP!KernelReceives
  /\ B!KernelReceivesFin => BP!KernelReceivesFin
BY Zenon DEF B!KernelSends, BP!KernelSends, B!KernelReceives, BP!KernelReceives,
  B!KernelReceivesFin, BP!KernelReceivesFin,
  B!flags, BP!flags, B!sendSide, BP!sendSide, B!recvSide, BP!recvSide,
  B!wire, BP!wire, B!history, BP!history,
  B!Completion, BP!Completion, B!Prefix, BP!Prefix, B!Smaller, BP!Smaller

LEMMA CallB ==
  /\ B!SetInternalSocket => BP!SetInternalSocket
  /\ \A n : B!Send(n) => BP!Send(n)
  /\ \A n : B!Receive(n) => BP!Receive(n)
  /\ B!Shutdown => BP!Shutdown
  /\ B!Close => BP!Close
BY Zenon DEF B!SetInternalSocket, BP!SetInternalSocket, B!Send, BP!Send, B!Receive, BP!Receive,
  B!Shutdown, BP!Shutdown, B!Close, BP!Close,
  B!flags, BP!flags, B!sendSide, BP!sendSide, B!recvSide, BP!recvSide,
  B!wire, BP!wire, B!history, BP!history, B!Flushed, BP!Flushed,
  B!CanReceive, BP!CanReceive, B!CanSend, BP!CanSend, B!ReceiveIdle, BP!ReceiveIdle,
  B!SendIdle, BP!SendIdle, B!BeginReceive, BP!BeginReceive, B!BeginSend, BP!BeginSend,
  B!Started, BP!Started, B!PostIf, BP!PostIf, B!Completion, BP!Completion,
  B!Prefix, BP!Prefix, B!Smaller, BP!Smaller, B!Erase, BP!Erase, B!Resumes, BP!Resumes,
  B!ShutdownResults, BP!ShutdownResults, B!CloseAsioSocket, BP!CloseAsioSocket,
  B!AbortAll, BP!AbortAll, B!Abort, BP!Abort

BStep ==
  \/ BHandler \/ BKernel \/ BAccept
  \/ BSend \/ BReceive \/ BShutdown \/ BClose

LEMMA GracefulB == BStep => BP!GracefulStep /\ UNCHANGED aVars
<1> SUFFICES ASSUME BStep PROVE BP!GracefulStep /\ UNCHANGED aVars
  OBVIOUS
<1>1. UNCHANGED aVars
  BY Zenon DEF BStep, BHandler, BKernel, BAccept, BSend, BReceive, BShutdown, BClose
<1>2. BP!GracefulStep
  BY Zenon, HandlerB, KernelB, CallB
     DEF BStep, BHandler, BKernel, BAccept, BSend, BReceive, BShutdown,
         BClose, BP!GracefulStep
<1> QED BY <1>1, <1>2

-----------------------------------------------------------------------------
(* The inductive invariant: that of each socket.                           *)

InvA == AP!Inv /\ AP!Flow /\ AP!Course
InvB == BP!Inv /\ BP!Flow /\ BP!Course

\* What a step of "a" is for "b".
LEMMA StepA ==
  ASSUME InvA, InvB, AStep
  PROVE  InvA' /\ InvB' /\ AP!Seen
<1>1. AP!GracefulStep /\ UNCHANGED bVars
  BY GracefulA
<1>2. InvA' /\ AP!Seen /\ AP!Sends
  <2>1. AP!Inv /\ AP!Flow /\ AP!Course /\ AP!Graceful /\ AP!GracefulStep
    BY <1>1, BothGraceful DEF InvA
  <2>2. AP!Inv' /\ AP!Flow' /\ AP!Course' /\ AP!Seen /\ AP!Sends
    BY ONLY <2>1, Sizes, NoErrors, AP!GracefulCourse
  <2> QED BY <2>2 DEF InvA
<1>3. BP!OtherHost
  <2>1. aFinOut' \in BOOLEAN /\ aConsumed' \in Nat
    <3>1. AP!FlagsType' /\ AP!WireType'
      BY Zenon, <1>2 DEF InvA, AP!Inv, AP!TypeOK
    <3>2. aFinOut' \in BOOLEAN
      BY <3>1 DEF AP!FlagsType
    <3>3. aConsumed' \in Nat
      BY <3>1 DEF AP!WireType
    <3> QED BY <3>2, <3>3
  <2>2. /\ \E data \in Seq(Nat) : aTaken' = aTaken \o data /\ (aFinOut => data = <<>>)
        /\ aFinOut => aFinOut'
    BY Zenon, <1>2 DEF AP!Sends
  <2> QED BY Zenon, <1>1, <2>1, <2>2
      DEF BP!OtherHost, bVars, BP!flags, BP!sendSide, BP!recvSide, BP!history
<1>4. InvB'
  <2>1. BP!Inv /\ BP!Flow /\ BP!Course /\ BP!OtherHost
    BY <1>3 DEF InvB
  <2>2. BP!Inv' /\ BP!Flow' /\ BP!Course'
    BY ONLY <2>1, Sizes, NoErrors, BP!OtherHostCourse
  <2> QED BY <2>2 DEF InvB
<1> QED BY <1>2, <1>4

\* What a step of "b" is for "a".
LEMMA StepB ==
  ASSUME InvB, InvA, BStep
  PROVE  InvB' /\ InvA' /\ BP!Seen
<1>1. BP!GracefulStep /\ UNCHANGED aVars
  BY GracefulB
<1>2. InvB' /\ BP!Seen /\ BP!Sends
  <2>1. BP!Inv /\ BP!Flow /\ BP!Course /\ BP!Graceful /\ BP!GracefulStep
    BY <1>1, BothGraceful DEF InvB
  <2>2. BP!Inv' /\ BP!Flow' /\ BP!Course' /\ BP!Seen /\ BP!Sends
    BY ONLY <2>1, Sizes, NoErrors, BP!GracefulCourse
  <2> QED BY <2>2 DEF InvB
<1>3. AP!OtherHost
  <2>1. bFinOut' \in BOOLEAN /\ bConsumed' \in Nat
    <3>1. BP!FlagsType' /\ BP!WireType'
      BY Zenon, <1>2 DEF InvB, BP!Inv, BP!TypeOK
    <3>2. bFinOut' \in BOOLEAN
      BY <3>1 DEF BP!FlagsType
    <3>3. bConsumed' \in Nat
      BY <3>1 DEF BP!WireType
    <3> QED BY <3>2, <3>3
  <2>2. /\ \E data \in Seq(Nat) : bTaken' = bTaken \o data /\ (bFinOut => data = <<>>)
        /\ bFinOut => bFinOut'
    BY Zenon, <1>2 DEF BP!Sends
  <2> QED BY Zenon, <1>1, <2>1, <2>2
      DEF AP!OtherHost, aVars, AP!flags, AP!sendSide, AP!recvSide, AP!history
<1>4. InvA'
  <2>1. AP!Inv /\ AP!Flow /\ AP!Course /\ AP!OtherHost
    BY <1>3 DEF InvA
  <2>2. AP!Inv' /\ AP!Flow' /\ AP!Course'
    BY ONLY <2>1, Sizes, NoErrors, AP!OtherHostCourse
  <2> QED BY <2>2 DEF InvA
<1> QED BY <1>2, <1>4


-----------------------------------------------------------------------------
(* The invariant.                                                          *)

LEMMA InvInit == Init => InvA /\ InvB
<1> SUFFICES ASSUME Init PROVE InvA /\ InvB
  OBVIOUS
<1>1. AP!Init /\ BP!Init
  BY InitA, InitB DEF Init
<1>2. AP!Inv /\ AP!Flow /\ AP!Course
  BY ONLY <1>1, Sizes, NoErrors, AP!FreshSocket
<1>3. BP!Inv /\ BP!Flow /\ BP!Course
  BY ONLY <1>1, Sizes, NoErrors, BP!FreshSocket
<1> QED BY <1>2, <1>3 DEF InvA, InvB

\* Each process is the other's host: when nothing happens the other host is idle.
LEMMA InvStutters == ASSUME InvA, InvB, UNCHANGED vars PROVE InvA' /\ InvB'
<1>1. UNCHANGED aVars /\ UNCHANGED bVars
  BY DEF vars
<1>2. /\ aFinOut \in BOOLEAN /\ aConsumed \in Nat /\ aTaken \in Seq(Nat)
      /\ bFinOut \in BOOLEAN /\ bConsumed \in Nat /\ bTaken \in Seq(Nat)
  <2>1. AP!FlagsType /\ AP!WireType /\ BP!FlagsType /\ BP!WireType
    BY Zenon DEF InvA, InvB, AP!Inv, AP!TypeOK, BP!Inv, BP!TypeOK
  <2>2. aFinOut \in BOOLEAN /\ bFinOut \in BOOLEAN
    BY <2>1 DEF AP!FlagsType, BP!FlagsType
  <2>3. aConsumed \in Nat /\ bConsumed \in Nat
    BY <2>1 DEF AP!WireType, BP!WireType
  <2>4. aTaken \in Seq(Nat) /\ bTaken \in Seq(Nat)
    BY <2>1 DEF AP!WireType, BP!WireType
  <2> QED BY <2>2, <2>3, <2>4
<1>3. aTaken \o <<>> = aTaken /\ bTaken \o <<>> = bTaken /\ <<>> \in Seq(Nat)
  BY <1>2, ConcatEmptySeq
<1>4. /\ aTaken' = aTaken /\ aFinOut' = aFinOut /\ aConsumed' = aConsumed
      /\ bTaken' = bTaken /\ bFinOut' = bFinOut /\ bConsumed' = bConsumed
  BY <1>1 DEF aVars, bVars
<1>5. BP!OtherHost
  BY Zenon, <1>1, <1>2, <1>3, <1>4
     DEF BP!OtherHost, bVars, BP!flags, BP!sendSide, BP!recvSide, BP!history
<1>6. AP!OtherHost
  BY Zenon, <1>1, <1>2, <1>3, <1>4
     DEF AP!OtherHost, aVars, AP!flags, AP!sendSide, AP!recvSide, AP!history
<1>7. BP!Inv /\ BP!Flow /\ BP!Course /\ AP!Inv /\ AP!Flow /\ AP!Course
  BY DEF InvA, InvB
<1>8. BP!Inv' /\ BP!Flow' /\ BP!Course'
  BY ONLY <1>5, <1>7, Sizes, NoErrors, BP!OtherHostCourse
<1>9. AP!Inv' /\ AP!Flow' /\ AP!Course'
  BY ONLY <1>6, <1>7, Sizes, NoErrors, AP!OtherHostCourse
<1> QED BY <1>8, <1>9 DEF InvA, InvB

LEMMA NextSteps == Next => AStep \/ BStep
BY DEF Next, AStep, BStep

\* Both invariants hold throughout.
LEMMA InvAlways == Spec => [](InvA /\ InvB)
<1>1. InvA /\ InvB /\ [Next]_vars => InvA' /\ InvB'
  BY Zenon, NextSteps, StepA, StepB, InvStutters
<1> QED BY <1>1, InvInit, PTL DEF Spec

-----------------------------------------------------------------------------
(* Every step is a step of both streams or leaves them alone.              *)

StreamsStep == [AtoB!Next]_(AtoB!streamVars) /\ [BtoA!Next]_(BtoA!streamVars)

LEMMA NumbersLen == ASSUME NEW n \in Nat PROVE Len([i \in 1..n |-> i]) = n
OBVIOUS

LEMMA StreamsA == ASSUME InvA, InvB, AStep PROVE StreamsStep
<1>1. InvA' /\ AP!Seen /\ UNCHANGED bVars
  BY StepA, GracefulA
<1>2. AP!Inv /\ AP!Flow /\ AP!Course /\ AP!Graceful /\ AP!Inv' /\ AP!Flow' /\ AP!Course' /\ AP!Seen
  BY <1>1, BothGraceful DEF InvA
<1>3. AP!Sending
  BY ONLY <1>2, Sizes, NoErrors, AP!SenderStep
<1>4. PICK w \in Nat, e \in BOOLEAN : w = bAccepted /\ e = bRequestShutdown
  <2>1. BP!FlagsType /\ BP!HistoryType
    BY Zenon DEF InvB, BP!Inv, BP!TypeOK
  <2>2. bAccepted \in Nat /\ bRequestShutdown \in BOOLEAN
    BY <2>1 DEF BP!FlagsType, BP!HistoryType
  <2> QED BY <2>2
<1>5. AP!Carried(w, e) /\ AP!Carried(w, e)'
  <2>1. BP!Inv /\ BP!Flow /\ BP!Course /\ BP!Graceful
    BY BothGraceful DEF InvB
  <2>2. /\ \E s \in Seq(Nat) : bTaken \o s = BP!Numbers(bAccepted)
        /\ bFinOut => bRequestShutdown /\ bTaken = BP!Numbers(bAccepted)
    BY ONLY <2>1, Sizes, NoErrors, BP!SentSoFar
  <2>3. bTaken' = bTaken /\ bFinOut' = bFinOut
    BY <1>1 DEF bVars
  <2> QED BY Zenon, <1>4, <2>2, <2>3 DEF AP!Carried, AP!Numbers, BP!Numbers
<1>6. AP!Receiving(w, e)
  <2>1. \A written \in Nat, ended \in BOOLEAN :
          AP!Carried(written, ended) /\ AP!Carried(written, ended)' => AP!Receiving(written, ended)
    BY ONLY <1>2, Sizes, NoErrors, AP!ReceiverStep
  <2> QED BY Zenon, <1>5, <2>1
<1>7. [AtoB!Next]_(AtoB!streamVars)
  <2>1. /\ bDelivered' = bDelivered /\ bRecvBuf' = bRecvBuf /\ bFinReceived' = bFinReceived
    BY <1>1 DEF bVars
  <2> QED BY Zenon, <1>3, <2>1
        DEF AP!Sending, AP!Numbers, AtoB!Next, AtoB!Write, AtoB!End, AtoB!streamVars,
            AtoB!IsStrictPrefix, AtoB!IsPrefix, AP!IsStrictPrefix, AP!IsPrefix
<1>8. [BtoA!Next]_(BtoA!streamVars)
  <2>1. bAccepted' = bAccepted /\ bRequestShutdown' = bRequestShutdown
    BY <1>1 DEF bVars
  <2>2. Len([i \in 1..bAccepted |-> i]) = w
    BY <1>4, NumbersLen
  <2> QED BY Zenon, <1>4, <1>6, <2>1, <2>2
        DEF AP!Receiving, AP!Numbers, BtoA!Next, BtoA!Arrive, BtoA!Read, BtoA!SeeEnd,
            BtoA!streamVars, BtoA!IsStrictPrefix, BtoA!IsPrefix, AP!IsStrictPrefix, AP!IsPrefix
<1> QED BY <1>7, <1>8 DEF StreamsStep


LEMMA StreamsB == ASSUME InvB, InvA, BStep PROVE StreamsStep
<1>1. InvB' /\ BP!Seen /\ UNCHANGED aVars
  BY StepB, GracefulB
<1>2. BP!Inv /\ BP!Flow /\ BP!Course /\ BP!Graceful /\ BP!Inv' /\ BP!Flow' /\ BP!Course' /\ BP!Seen
  BY <1>1, BothGraceful DEF InvB
<1>3. BP!Sending
  BY ONLY <1>2, Sizes, NoErrors, BP!SenderStep
<1>4. PICK w \in Nat, e \in BOOLEAN : w = aAccepted /\ e = aRequestShutdown
  <2>1. AP!FlagsType /\ AP!HistoryType
    BY Zenon DEF InvA, AP!Inv, AP!TypeOK
  <2>2. aAccepted \in Nat /\ aRequestShutdown \in BOOLEAN
    BY <2>1 DEF AP!FlagsType, AP!HistoryType
  <2> QED BY <2>2
<1>5. BP!Carried(w, e) /\ BP!Carried(w, e)'
  <2>1. AP!Inv /\ AP!Flow /\ AP!Course /\ AP!Graceful
    BY BothGraceful DEF InvA
  <2>2. /\ \E s \in Seq(Nat) : aTaken \o s = AP!Numbers(aAccepted)
        /\ aFinOut => aRequestShutdown /\ aTaken = AP!Numbers(aAccepted)
    BY ONLY <2>1, Sizes, NoErrors, AP!SentSoFar
  <2>3. aTaken' = aTaken /\ aFinOut' = aFinOut
    BY <1>1 DEF aVars
  <2> QED BY Zenon, <1>4, <2>2, <2>3 DEF BP!Carried, BP!Numbers, AP!Numbers
<1>6. BP!Receiving(w, e)
  <2>1. \A written \in Nat, ended \in BOOLEAN :
          BP!Carried(written, ended) /\ BP!Carried(written, ended)' => BP!Receiving(written, ended)
    BY ONLY <1>2, Sizes, NoErrors, BP!ReceiverStep
  <2> QED BY Zenon, <1>5, <2>1
<1>7. [BtoA!Next]_(BtoA!streamVars)
  <2>1. /\ aDelivered' = aDelivered /\ aRecvBuf' = aRecvBuf /\ aFinReceived' = aFinReceived
    BY <1>1 DEF aVars
  <2> QED BY Zenon, <1>3, <2>1
        DEF BP!Sending, BP!Numbers, BtoA!Next, BtoA!Write, BtoA!End, BtoA!streamVars,
            BtoA!IsStrictPrefix, BtoA!IsPrefix, BP!IsStrictPrefix, BP!IsPrefix
<1>8. [AtoB!Next]_(AtoB!streamVars)
  <2>1. aAccepted' = aAccepted /\ aRequestShutdown' = aRequestShutdown
    BY <1>1 DEF aVars
  <2>2. Len([i \in 1..aAccepted |-> i]) = w
    BY <1>4, NumbersLen
  <2> QED BY Zenon, <1>4, <1>6, <2>1, <2>2
        DEF BP!Receiving, BP!Numbers, AtoB!Next, AtoB!Arrive, AtoB!Read, AtoB!SeeEnd,
            AtoB!streamVars, AtoB!IsStrictPrefix, AtoB!IsPrefix, BP!IsStrictPrefix, BP!IsPrefix
<1> QED BY <1>7, <1>8 DEF StreamsStep

LEMMA StreamsInit == Init => AtoB!Init /\ BtoA!Init
<1> SUFFICES ASSUME Init PROVE AtoB!Init /\ BtoA!Init
  OBVIOUS
<1>1. /\ aAccepted = 0 /\ aRequestShutdown = FALSE /\ bDelivered = <<>> /\ bRecvBuf = <<>>
      /\ bAccepted = 0 /\ bRequestShutdown = FALSE /\ aDelivered = <<>> /\ aRecvBuf = <<>>
      /\ aFinReceived = FALSE /\ bFinReceived = FALSE
  BY DEF Init, A!Init, B!Init
<1>2. [i \in 1..0 |-> i] = <<>> /\ Len(<<>>) + Len(<<>>) = 0
  OBVIOUS
<1> QED BY <1>1, <1>2 DEF AtoB!Init, BtoA!Init

\* Two connected TcpSockets implement a byte stream in each direction: the
\* bytes that Send() accepted on one side are what Receive() returns on the
\* other, in order, and RemoteHasShutdown() is seen after Shutdown() only and
\* when every one of them has arrived; for all buffer and chunk sizes, numbers
\* of io threads, network capacities and amounts of data.
THEOREM StreamsBothWays == Spec => BothStreams
<1>1. InvA /\ InvB /\ [Next]_vars => StreamsStep
  <2>1. ASSUME UNCHANGED vars PROVE StreamsStep
    <3>1. UNCHANGED aVars /\ UNCHANGED bVars
      BY <2>1 DEF vars
    <3>2. UNCHANGED AtoB!streamVars /\ UNCHANGED BtoA!streamVars
      BY <3>1 DEF aVars, bVars, AtoB!streamVars, BtoA!streamVars
    <3> QED BY <3>2 DEF StreamsStep
  <2> QED BY Zenon, <2>1, NextSteps, StreamsA, StreamsB
<1> QED BY <1>1, InvAlways, StreamsInit, PTL
       DEF Spec, StreamsStep, BothStreams, AtoB!Stream, BtoA!Stream
=============================================================================

--------------------------- MODULE TcpConnection ---------------------------
(***************************************************************************)
(* Two TcpSocket objects on two hosts joined by one TCP connection: "a"    *)
(* calls Connect(), "b" is the socket a TcpListener makes for it           *)
(* (SetInternalSocket).  What one kernel took is what the other receives:  *)
(* each socket's "incoming", "finIn" and "peerConsumed" are the other's    *)
(* "taken", "finOut" and "consumed".                                       *)
(*                                                                         *)
(* The applications follow the documented graceful termination: each sends *)
(* and reads as it likes, calls Shutdown() once, and closes its socket     *)
(* when LocalHasShutdown() and RemoteHasShutdown() hold.                   *)
(***************************************************************************)
EXTENDS Integers, Sequences, SequencesExt

CONSTANTS
  MaxBlockSize, ChunkSize, IoThreads, NetCapacity,  \* see TcpSocket
  BytesAtoB, BytesBtoA  \* bounds: bytes each side sends

ASSUME SizesAssumption ==
  /\ MaxBlockSize \in Nat \ {0} /\ ChunkSize \in Nat \ {0}
  /\ IoThreads \in Nat \ {0} /\ NetCapacity \in Nat \ {0}
  /\ BytesAtoB \in Nat /\ BytesBtoA \in Nat

VARIABLES
  \* see TcpSocket
  aConnected, aRequestShutdown, aFinSent, aFinReceived, aSending,
  aReceiving, aSendBuf, aRecvBuf, aConn, aConnectOp, aSendOp, aRecvOp,
  aReady, aTaken, aFinOut, aConsumed, aAccepted, aCleared, aDelivered,
  aConnects,
  bConnected, bRequestShutdown, bFinSent, bFinReceived, bSending,
  bReceiving, bSendBuf, bRecvBuf, bConn, bConnectOp, bSendOp, bRecvOp,
  bReady, bTaken, bFinOut, bConsumed, bAccepted, bCleared, bDelivered,
  bConnects

aVars ==
  <<aConnected, aRequestShutdown, aFinSent, aFinReceived, aSending,
    aReceiving, aSendBuf, aRecvBuf, aConn, aConnectOp, aSendOp, aRecvOp,
    aReady, aTaken, aFinOut, aConsumed, aAccepted, aCleared, aDelivered,
    aConnects>>

bVars ==
  <<bConnected, bRequestShutdown, bFinSent, bFinReceived, bSending,
    bReceiving, bSendBuf, bRecvBuf, bConn, bConnectOp, bSendOp, bRecvOp,
    bReady, bTaken, bFinOut, bConsumed, bAccepted, bCleared, bDelivered,
    bConnects>>

vars == <<aVars, bVars>>

Calls == {"Shutdown", "Close"}
LossErrors == {}
ShutdownErrors == {}
MaxConnects == 1

A == INSTANCE TcpSocket WITH
  connected <- aConnected, requestShutdown <- aRequestShutdown,
  finSent <- aFinSent, finReceived <- aFinReceived, sending <- aSending,
  receiving <- aReceiving, sendBuf <- aSendBuf, recvBuf <- aRecvBuf,
  conn <- aConn, connectOp <- aConnectOp, sendOp <- aSendOp,
  recvOp <- aRecvOp, ready <- aReady, taken <- aTaken, finOut <- aFinOut,
  consumed <- aConsumed, accepted <- aAccepted, cleared <- aCleared,
  delivered <- aDelivered, connects <- aConnects, incoming <- bTaken,
  MaxBytes <- BytesAtoB, MaxPeerBytes <- BytesBtoA,
  finIn <- bFinOut, peerConsumed <- bConsumed

B == INSTANCE TcpSocket WITH
  connected <- bConnected, requestShutdown <- bRequestShutdown,
  finSent <- bFinSent, finReceived <- bFinReceived, sending <- bSending,
  receiving <- bReceiving, sendBuf <- bSendBuf, recvBuf <- bRecvBuf,
  conn <- bConn, connectOp <- bConnectOp, sendOp <- bSendOp,
  recvOp <- bRecvOp, ready <- bReady, taken <- bTaken, finOut <- bFinOut,
  consumed <- bConsumed, accepted <- bAccepted, cleared <- bCleared,
  delivered <- bDelivered, connects <- bConnects, incoming <- aTaken,
  MaxBytes <- BytesBtoA, MaxPeerBytes <- BytesAtoB,
  finIn <- aFinOut, peerConsumed <- aConsumed

Init == A!Init /\ B!Init

-----------------------------------------------------------------------------
(* The program on host a; "b" takes no part in its steps.                  *)

AHandler == A!HandlerStep /\ UNCHANGED bVars
AKernel ==
  /\ A!KernelSends \/ A!KernelReceives \/ A!KernelReceivesFin
  /\ UNCHANGED bVars
AConnect == A!Connect /\ UNCHANGED bVars
AEstablished == A!KernelConnects /\ UNCHANGED bVars
ASend == aConnects > 0 /\ (\E n \in 1..BytesAtoB : A!Send(n)) /\ UNCHANGED bVars
AReceive == (\E n \in 1..Len(aRecvBuf) : A!Receive(n)) /\ UNCHANGED bVars
AShutdown == ~aRequestShutdown /\ A!Shutdown /\ UNCHANGED bVars
AClose == aFinSent /\ aFinReceived /\ A!Close /\ UNCHANGED bVars

(* The program on host b, from the moment its listener accepts.            *)

BHandler == B!HandlerStep /\ UNCHANGED aVars
BKernel ==
  /\ B!KernelSends \/ B!KernelReceives \/ B!KernelReceivesFin
  /\ UNCHANGED aVars
BAccept == aConn = "est" /\ B!SetInternalSocket /\ UNCHANGED aVars
BSend == bConnects > 0 /\ (\E n \in 1..BytesBtoA : B!Send(n)) /\ UNCHANGED aVars
BReceive == (\E n \in 1..Len(bRecvBuf) : B!Receive(n)) /\ UNCHANGED aVars
BShutdown == ~bRequestShutdown /\ B!Shutdown /\ UNCHANGED aVars
BClose == bFinSent /\ bFinReceived /\ B!Close /\ UNCHANGED aVars

Next ==
  \/ AHandler \/ AKernel \/ AConnect \/ AEstablished
  \/ ASend \/ AReceive \/ AShutdown \/ AClose
  \/ BHandler \/ BKernel \/ BAccept
  \/ BSend \/ BReceive \/ BShutdown \/ BClose

(* Fairness: the io threads and the kernels work, and both applications    *)
(* go through with the termination; neither has to send anything.          *)
Fairness ==
  /\ WF_vars(A!RunHandler(1) /\ UNCHANGED bVars)
  /\ WF_vars(B!RunHandler(1) /\ UNCHANGED aVars)
  /\ WF_vars(AKernel) /\ WF_vars(BKernel)
  /\ WF_vars(AConnect) /\ WF_vars(AEstablished) /\ WF_vars(BAccept)
  /\ WF_vars(AReceive) /\ WF_vars(BReceive)
  /\ WF_vars(AShutdown) /\ WF_vars(BShutdown)
  /\ WF_vars(AClose) /\ WF_vars(BClose)

Spec == Init /\ [][Next]_vars /\ Fairness

-----------------------------------------------------------------------------
AtoB == INSTANCE ByteStream WITH
  written <- [i \in 1..aAccepted |-> i],
  arrived <- Len(bDelivered) + Len(bRecvBuf), read <- bDelivered,
  ended <- aRequestShutdown, eof <- bFinReceived

BtoA == INSTANCE ByteStream WITH
  written <- [i \in 1..bAccepted |-> i],
  arrived <- Len(aDelivered) + Len(aRecvBuf), read <- aDelivered,
  ended <- bRequestShutdown, eof <- aFinReceived

\* Each direction of the connection implements the byte stream that
\* ReliableTransport promises, across both sockets' buffers, chunked and
\* partial transfers, pauses at the limit and put-off shutdowns.
BothStreams == AtoB!Stream /\ BtoA!Stream

\* The documented termination ends: whatever the two sides send, both reach
\* the closed state, and by then each has read all the other sent.  Neither
\* waits for a FIN that the other puts off for ever.
GracefulTermination ==
  <>(/\ aConn = "closed" /\ bConn = "closed" /\ aConnects = 1 /\ bConnects = 1
     /\ bDelivered = [i \in 1..aAccepted |-> i]
     /\ aDelivered = [i \in 1..bAccepted |-> i])
=============================================================================

-------------------------- MODULE NetworkResource --------------------------
(***************************************************************************)
(* Start() and Stop() (src/SFNUL/NetworkResource.cpp): the io threads that *)
(* run the handlers of all objects, here of a UdpSocket or of a            *)
(* TcpListener.  The two share nothing but these threads, so a behaviour   *)
(* is about one of them.  The application is one thread, which waits in    *)
(* Stop() until the io threads are joined.                                 *)
(***************************************************************************)
EXTENDS UdpSocket, TcpListener

CONSTANTS
  MaxThreads,  \* bound: the argument of Start()
  MaxStops     \* bound: calls of Stop()

ASSUME ThreadsAssumption == MaxThreads \in Nat \ {0} /\ MaxStops \in Nat

VARIABLES
  inUse,    \* the object this behaviour is about
  threads,  \* asio_threads that are still in io_context->run()
  stopped,  \* the io_context was stopped and not yet reset
  stopping, \* the application is in Stop()
  stops     \* calls of Stop()

io == <<threads, stopped, stopping, stops>>
vars == <<udpVars, listenerVars, inUse, io>>

Init ==
  /\ UdpInit /\ ListenerInit /\ inUse \in {"udp", "listener"}
  /\ threads = 0 /\ stopped = FALSE /\ stopping = FALSE /\ stops = 0

-----------------------------------------------------------------------------
(* Start, Stop and the io threads.                                         *)

Start ==
  /\ threads = 0 /\ ~stopping
  /\ \E n \in 1..MaxThreads : threads' = n
  /\ UNCHANGED <<udpVars, listenerVars, inUse, stopped, stopping, stops>>

\* Stop() until it joins the threads.
Stop ==
  /\ ~stopping /\ threads > 0 /\ stops < MaxStops
  /\ stopping' = TRUE /\ stopped' = TRUE /\ stops' = stops + 1
  /\ UNCHANGED <<udpVars, listenerVars, inUse, threads>>

\* A thread leaves run() once its handler has returned.
ThreadReturns ==
  /\ stopped /\ threads > 0 /\ threads' = threads - 1
  /\ UNCHANGED <<udpVars, listenerVars, inUse, stopped, stopping, stops>>

\* Mutant: the io_context is not reset.
StaysStopped == stopped

Reset == FALSE

StopReturns ==
  /\ stopping /\ threads = 0
  /\ stopping' = FALSE /\ stopped' = Reset
  /\ UNCHANGED <<udpVars, listenerVars, inUse, threads, stops>>

-----------------------------------------------------------------------------
(* The objects.                                                            *)

OnlyUdp == inUse = "udp" /\ UNCHANGED <<listenerVars, inUse, io>>
OnlyListener == inUse = "listener" /\ UNCHANGED <<udpVars, inUse, io>>

\* A thread that was in run() when it was stopped may finish one more handler.
\* All but one of the threads can hold a completion back before the strand.
RunHandler ==
  \/ threads > 0 /\ OnlyUdp /\ ReceiveHandler
  \/ OnlyListener /\ \E i \in 1..threads : i <= Len(accepts) /\ AcceptHandler(i)

Call == ~stopping /\ ((OnlyUdp /\ UdpCalls) \/ (OnlyListener /\ ListenerCalls))

System == (OnlyUdp /\ UdpKernel) \/ (OnlyListener /\ ListenerKernel)

Next == Start \/ Stop \/ ThreadReturns \/ StopReturns \/ RunHandler \/ Call \/ System

Spec == Init /\ [][Next]_vars

\* The threads run, Stop() joins them, the application starts them again, the
\* system completes what it can, and the application polls.
Reads == ~stopping /\ OnlyUdp /\ \E e \in Senders : buffer[e] # <<>> /\ ReceiveFrom(e, MaxBlockSize)
Fetches == ~stopping /\ OnlyListener /\ GetPendingConnection

Fairness ==
  /\ WF_vars(Start) /\ WF_vars(ThreadReturns) /\ WF_vars(StopReturns)
  /\ WF_vars(RunHandler) /\ WF_vars(OnlyUdp /\ KernelReceives)
  /\ WF_vars(OnlyListener /\ KernelAccepts) /\ WF_vars(Reads) /\ WF_vars(Fetches)

FairSpec == Spec /\ Fairness
=============================================================================

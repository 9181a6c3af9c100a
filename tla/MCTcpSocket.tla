---------------------------- MODULE MCTcpSocket ----------------------------
(***************************************************************************)
(* Instances of TcpSocket for TLC: the calls an application makes and the  *)
(* errors the operating system reports.                                    *)
(***************************************************************************)
EXTENDS TcpSocket

\* The application uses the socket for one connection, as the examples do.
OneConnection == {"Shutdown", "Close", "Loss"}

\* Every call in every order, and a second Connect().
AnyOrder == {"Shutdown", "Close", "Reset", "ClearBuffers", "Redial", "Loss"}

\* The two findings need one hazardous call each.
Clearing == {"Shutdown", "ClearBuffers"}
Redialling == {"Shutdown", "Close"}

AnyLoss == {"reset", "other"}
AnyShutdownError == {"notConnected", "reset", "other"}
=============================================================================

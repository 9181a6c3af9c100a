----------------------------- MODULE ByteStream -----------------------------
(***************************************************************************)
(* What ReliableTransport (include/SFNUL/ReliableTransport.hpp) promises   *)
(* for one direction of a connection: the bytes that Send() accepted can   *)
(* be read at the other end in order, none lost, none twice, and the       *)
(* remote end is told of a shutdown only when every one of them is there.  *)
(***************************************************************************)
EXTENDS Integers, Sequences, SequencesExt

VARIABLES
  written,  \* bytes Send() accepted
  arrived,  \* how many of them the receiver could have read by now
  read,     \* bytes Receive() returned
  ended,    \* the sender called Shutdown()
  eof       \* the receiver sees RemoteHasShutdown()

streamVars == <<written, arrived, read, ended, eof>>

Init ==
  /\ written = <<>> /\ arrived = 0 /\ read = <<>>
  /\ ended = FALSE /\ eof = FALSE

Write ==
  /\ ~ended
  /\ IsStrictPrefix(written, written')
  /\ UNCHANGED <<arrived, read, ended, eof>>

Arrive ==
  /\ arrived' \in arrived + 1 .. Len(written)
  /\ ~eof
  /\ UNCHANGED <<written, read, ended, eof>>

Read ==
  /\ IsStrictPrefix(read, read')
  /\ Len(read') <= arrived /\ IsPrefix(read', written)
  /\ UNCHANGED <<written, arrived, ended, eof>>

End ==
  /\ ~ended /\ ended' = TRUE
  /\ UNCHANGED <<written, arrived, read, eof>>

SeeEnd ==
  /\ ended /\ arrived = Len(written)
  /\ ~eof /\ eof' = TRUE
  /\ UNCHANGED <<written, arrived, read, ended>>

Next == Write \/ Arrive \/ Read \/ End \/ SeeEnd

Stream == Init /\ [][Next]_streamVars
=============================================================================

------------------------------- MODULE MCLink -------------------------------
(***************************************************************************)
(* An instance of Link for TLC: a raw stream 0 and a stream 1 of Messages. *)
(***************************************************************************)
EXTENDS LinkStreams

TwoStreams == {0, 1}
OnlySecond == {1}
Explicit == {"SetTransport", "Close"}
=============================================================================

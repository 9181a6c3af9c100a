---------------------------- MODULE LinkStreams ----------------------------
(***************************************************************************)
(* Each stream of a Link implements the byte stream that the Link itself   *)
(* uses.  It is stated of any two of the streams.                          *)
(***************************************************************************)
EXTENDS Link, FiniteSets, SequencesExt

CONSTANTS One, Other

ASSUME StreamsAssumption == One \in Streams /\ Other \in Streams

\* The payload bytes of a stream among the first p bytes written.
Payload(s, p) == Cardinality({q \in 1..p : written[q].stream = s /\ written[q].at > 0})

OfOne == INSTANCE ByteStream WITH
  written <- sent[One], arrived <- Payload(One, arrived), read <- delivered[One]

OfOther == INSTANCE ByteStream WITH
  written <- sent[Other], arrived <- Payload(Other, arrived),
  read <- delivered[Other]

\* On every connection each stream is a byte stream of its own, whatever the
\* others carry and in whatever order they are read (Link.hpp:80, "Dequeue data
\* on a stream"): a step is one of the stream, a new connection, or not seen.
EachStream ==
  /\ OfOne!Init /\ [][OfOne!Next \/ OfOne!Init']_(OfOne!streamVars)
  /\ OfOther!Init /\ [][OfOther!Next \/ OfOther!Init']_(OfOther!streamVars)
=============================================================================

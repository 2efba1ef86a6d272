----------------------------- MODULE StreamUnits -----------------------------
(* The data of a stream, as PeerStreams and Fanout cut it into chunks: units *)
(* that are numbered in the order they are sent.                             *)
EXTENDS Integers

\* The units of a chunk.
Units(from, to) == [i \in 1..(to - from + 1) |-> from + i - 1]
=============================================================================

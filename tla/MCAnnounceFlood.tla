--------------------------- MODULE MCAnnounceFlood ---------------------------
(* AnnounceFlood on the networks of Topologies.                              *)
EXTENDS AnnounceFlood, Topologies

\* A namespace, and two tracks in namespaces that share a prefix with it.
Names == {"ns", "t1", "t2"}
NameSpaces == [ns |-> <<1>>, t1 |-> <<1, 2>>, t2 |-> <<1, 3>>]
Kinds == [ns |-> TRUE, t1 |-> FALSE, t2 |-> FALSE]

\* Every name has one publishing relay, an end of the line.
OneOrigin == <<{"ns"}, {}, {"t2"}>>

\* Both ends publish the same track.
TwoOriginsTrack == <<{"t1"}, {}, {"t1"}>>

\* Relay 1 alone publishes a track.
PairTrack == <<{"t1"}, {}>>

\* The line is a tree, as the theorem on Agreement asks.
ASSUME LineIsTree == Client = RelineClient => IsTree(LineDist, LineUp)
=============================================================================

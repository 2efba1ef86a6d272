--------------------------- MODULE MCTrackRanking ---------------------------
(* Instances of TrackRanking for TLC. *)
EXTENDS TrackRanking

\* Connection 1 publishes and subscribes, 2 only subscribes.
PublishedBy == [t \in Track |-> IF t = 1 THEN 1 ELSE 3]
=============================================================================

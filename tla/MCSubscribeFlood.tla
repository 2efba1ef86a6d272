--------------------------- MODULE MCSubscribeFlood ---------------------------
(* SubscribeFlood on the networks of Topologies.                             *)
EXTENDS SubscribeFlood, Topologies

\* One client at each end of the line, none in the middle.
EndClients == <<1, 0, 1>>

\* One client, at relay 1.
OneClient == <<1, 0, 0>>

\* The line is a tree, as the theorem on Agreement asks.
ASSUME LineIsTree == Client = RelineClient => IsTree(LineDist, LineUp)
=============================================================================

----------------------------- MODULE MCForwarding -----------------------------
(* Forwarding on the networks of Topologies.                                 *)
EXTENDS Forwarding, Topologies

\* One client at relay 1 and one at relay 2.
TwoClients == <<1, 1, 0>>

\* In a pair: one client at relay 2.
SecondClient == <<0, 1>>
=============================================================================

---------------------------- MODULE MCNodeNetwork ----------------------------
(* NodeNetwork on the networks of Topologies.                                *)
EXTENDS NodeNetwork, Topologies
=============================================================================

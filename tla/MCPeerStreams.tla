----------------------------- MODULE MCPeerStreams -----------------------------
(* PeerStreams with streams and egress sessions that are alike.              *)
EXTENDS PeerStreams, TLC

Alike == Permutations(Stream) \cup Permutations(Egress)
=============================================================================

----------------------------- MODULE MCPeerMutex -----------------------------
(* Instances of PeerMutex for TLC. *)
EXTENDS PeerMutex

TwoPeers   == 1..2
ThreePeers == 1..3
=============================================================================

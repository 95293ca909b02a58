---------------------------- MODULE MCPeerRequests ----------------------------
(* Small instances of PeerRequests for TLC.                                  *)
EXTENDS PeerRequests, TLC

CONSTANTS r1, r2

(* Requests differ in nothing but their names.                               *)
MCSymmetry == Permutations(Requests)
=============================================================================

---------------------------- MODULE MCPeerRegistry ----------------------------
(* Small instances of PeerRegistry for TLC.                                  *)
EXTENDS PeerRegistry, TLC

CONSTANTS a1, a2, c1, c2, c3

(* Connections differ in nothing but their name.                             *)
ConnSymmetry == Permutations(Conns)
=============================================================================

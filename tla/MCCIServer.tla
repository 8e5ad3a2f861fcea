----------------------------- MODULE MCCIServer -----------------------------
(* CIServer for TLC: peers and descriptors are interchangeable where no     *)
(* liveness is checked.                                                     *)
EXTENDS CIServer, TLC

PeerSymmetry == Permutations(Peers)
Symmetry     == Permutations(Peers) \cup Permutations(Fds)
=============================================================================

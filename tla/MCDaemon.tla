------------------------------ MODULE MCDaemon ------------------------------
(* Daemon for TLC: starts in any order, one of them with a path.  Pids may  *)
(* be exchanged, and so may the starts that have no path.                  *)
EXTENDS Daemon, TLC

CONSTANTS s1, s2, s3

MCByPath == {s3}
Symmetry == Permutations(Pids) \cup Permutations({s1, s2})
=============================================================================

---------------------------- MODULE MCGitBackend ----------------------------
(* Values for the constants of GitBackend. *)
EXTENDS GitBackend, TLC

CONSTANTS d1, d2, d3, s1, s2, s3, s4

Interchangeable == Permutations(Device) \cup Permutations(Snapshot)
=============================================================================

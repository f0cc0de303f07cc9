-------------------------- MODULE MCPointerBackend --------------------------
(* Values for the constants of PointerBackend. *)
EXTENDS PointerBackend, TLC

CONSTANTS d1, d2, s1, s2, s3

Interchangeable == Permutations(Device) \cup Permutations(Snapshot)
=============================================================================

----------------------------- MODULE MCSyncLock -----------------------------
(* Values for the constants of SyncLock. *)
EXTENDS SyncLock, TLC

CONSTANTS a, b, c

LiveUnlock == Spec /\ Fairness("unlock --stale")

ProcSymmetry == Permutations(Proc)
=============================================================================

----------------------- MODULE MCSnapshotTransaction -----------------------
(* Values for the constants of SnapshotTransaction: a directory d with the  *)
(* files x and y in it, and a file f.                                       *)
EXTENDS SnapshotTransaction, TLC

CONSTANTS d, x, y, f, v1, v2

MCInside == [t \in Target |-> IF t = d THEN Target \cap {x, y} ELSE {}]

=============================================================================

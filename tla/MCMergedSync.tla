---------------------------- MODULE MCMergedSync ----------------------------
(* Values for the constants of MergedSync. *)
EXTENDS MergedSync, TLC

CONSTANTS d1, d2, p1, p2, p3, c1, c2

OneFile == [p \in Path |-> IF p = p1 THEN c1 ELSE Absent]
FileOutsideGroup == [p \in Path |-> IF p = p3 THEN c1 ELSE Absent]
Ungrouped == {}
OneGroup == {{p1, p2}}
Unprotected == {}

\* The devices, and the two paths that merge together, are interchangeable.
Symmetry == Permutations(Device) \cup Permutations({p1, p2})
=============================================================================

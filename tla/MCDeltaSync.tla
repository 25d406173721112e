----------------------------- MODULE MCDeltaSync -----------------------------
(* Small instances of DeltaSync: one or two cells, every queue short. *)
EXTENDS DeltaSync, TLC

CONSTANTS c1, c2

Symmetry == Permutations(Cells)
=============================================================================

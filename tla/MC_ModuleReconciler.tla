------------------------- MODULE MC_ModuleReconciler -------------------------
(* Model-checking instance of ModuleReconciler: the constants are given    *)
(* as model values in the .cfg files.                                      *)
EXTENDS ModuleReconciler, TLC

CONSTANTS k1, k2, n1, n2, j1, j2, j3

\* Nodes are interchangeable (safety runs only).
NodeSymmetry == Permutations({n1, n2})
=============================================================================

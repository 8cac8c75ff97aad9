------------------------- MODULE MC_DriverContainer -------------------------
(* Model-checking instance of DriverContainer: the kernels are model       *)
(* values given in the .cfg files.                                         *)
EXTENDS DriverContainer

CONSTANTS k1, k2
=============================================================================

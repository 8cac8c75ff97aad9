------------------------- MODULE MC_HubReconciler -------------------------
EXTENDS HubReconciler, TLC

CONSTANTS c1, c2, kv1, kv2
=============================================================================

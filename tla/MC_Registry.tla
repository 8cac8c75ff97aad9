----------------------------- MODULE MC_Registry -----------------------------
EXTENDS Registry, TLC

CONSTANTS N, l1, l2
=============================================================================

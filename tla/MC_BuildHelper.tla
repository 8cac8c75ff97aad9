--------------------------- MODULE MC_BuildHelper ---------------------------
EXTENDS BuildHelper

CONSTANTS v1, v2, c1, s1
=============================================================================

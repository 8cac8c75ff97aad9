------------------------- MODULE MC_NodeEventFilter -------------------------
EXTENDS NodeEventFilter, TLC

CONSTANTS n1, n2, m1, m2, l1, l2, k1, k2

\* m1 selects nodes labelled l1, m2 nodes labelled l1 and l2.
MCSelector == (m1 :> {l1}) @@ (m2 :> {l1, l2})
=============================================================================

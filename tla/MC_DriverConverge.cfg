\* The DaemonSets of a Module converge to its targeted kernels under a
\* lagging informer cache, three outside events and two failed API calls.
CONSTANTS
    k1 = k1
    k2 = k2
    Kernels = {k1, k2}
    MaxNames = 3
    MaxEvents = 3
    MaxErrors = 2
SPECIFICATION FairSpec
PROPERTY DaemonSetsConverge
\* With the queue and the watch empty and no outside event left, the
\* controller idles: that is the converged state, not a deadlock.
CHECK_DEADLOCK FALSE

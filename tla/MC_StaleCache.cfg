\* A Module reconciled again before the informer cache has seen the
\* DaemonSet its previous pass created.
CONSTANTS
    k1 = k1
    k2 = k2
    Kernels = {k1, k2}
    MaxNames = 2
    MaxEvents = 1
    MaxErrors = 1
SPECIFICATION Spec
INVARIANT AtMostOneDaemonSetPerKernel

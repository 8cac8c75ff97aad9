\* The Job informer cache lags: k1 is built (no sign section), k2 has no
\* mapping. Two nodes, no spec edit, one failed API call, no node change.
CONSTANTS
    k1 = k1
    k2 = k2
    n1 = n1
    n2 = n2
    j1 = j1
    j2 = j2
    j3 = j3
    NoDS = NoDS
    Kernels = {k1, k2}
    Mapped = {k1}
    BuildKernels = {k1}
    SignKernels = {}
    NoUnsignedImage = {}
    Nodes = {n1, n2}
    JobNames = {j1, j2}
    MaxGen = 0
    MaxErrors = 1
    MaxEnvEvents = 0
    HasDevicePlugin = FALSE
    JobCacheLags = TRUE
SYMMETRY NodeSymmetry
SPECIFICATION Spec
\* The controller idles once its queue is empty and the cluster is still.
CHECK_DEADLOCK FALSE
INVARIANT AtMostOneJobPerKernelAndStage

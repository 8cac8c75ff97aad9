\* k1 has a sign section naming no unsigned image and no build section;
\* k2 needs nothing. One node change; no symmetry (liveness).
CONSTANTS
    k1 = k1
    k2 = k2
    n1 = n1
    n2 = n2
    j1 = j1
    j2 = j2
    j3 = j3
    NoDS = NoDS
    Kernels = {k1, k2}
    Mapped = {k1, k2}
    BuildKernels = {}
    SignKernels = {k1}
    NoUnsignedImage = {k1}
    Nodes = {n1, n2}
    JobNames = {j1}
    MaxGen = 1
    MaxErrors = 0
    MaxEnvEvents = 1
    HasDevicePlugin = FALSE
    JobCacheLags = FALSE
SPECIFICATION Spec
\* The controller idles once its queue is empty and the cluster is still.
CHECK_DEADLOCK FALSE
PROPERTY EventuallyCollected

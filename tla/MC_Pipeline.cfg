\* Build then sign: k1 is built and signed; k2 has no kernel mapping, so its
\* nodes are dropped and a DaemonSet left for it is collected. Two nodes,
\* one spec edit, one failed API call, one node change or manual deletion.
CONSTANTS
    k1 = k1
    k2 = k2
    n1 = n1
    n2 = n2
    j1 = j1
    j2 = j2
    j3 = j3
    NoDS = NoDS
    Kernels = {k1, k2}
    Mapped = {k1}
    BuildKernels = {k1}
    SignKernels = {k1}
    NoUnsignedImage = {}
    Nodes = {n1, n2}
    JobNames = {j1, j2, j3}
    MaxGen = 1
    MaxErrors = 1
    MaxEnvEvents = 1
    HasDevicePlugin = TRUE
    JobCacheLags = FALSE
SYMMETRY NodeSymmetry
SPECIFICATION Spec
\* The controller idles once its queue is empty and the cluster is still.
CHECK_DEADLOCK FALSE
INVARIANT TypeOK
INVARIANT WorkloadImageExists
INVARIANT WorkloadBuiltForItsGeneration
\* The Jobs, seen per (kernel, type), implement JobLifecycle.
PROPERTY JobLifecycleSpec

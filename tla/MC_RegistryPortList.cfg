\* The same references; an image of a registry host with a port whose
\* manifest is a manifest list.
CONSTANTS
    N = N
    l1 = l1
    l2 = l2
    Name <- N
    Layers = {l1, l2}
    NoResult = NoResult
    GOARCH = "amd64"
SPECIFICATION Spec
CHECK_DEADLOCK FALSE
INVARIANT AbsentMeansNotStored

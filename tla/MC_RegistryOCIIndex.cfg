\* The same references; a stored image whose manifest is an OCI image index
\* (a multi-arch image pushed in OCI format), asked for its last layer.
CONSTANTS
    N = N
    l1 = l1
    l2 = l2
    Name <- N
    Layers = {l1, l2}
    NoResult = NoResult
    GOARCH = "amd64"
SPECIFICATION Spec
CHECK_DEADLOCK FALSE
INVARIANT LastLayerNeverPanics

\* Every reference shape, stored or not, single- or multi-arch, one or two
\* layers, each archive with or without the module file. A call returns:
\* the run stops in its final state.
CONSTANTS
    N = N
    l1 = l1
    l2 = l2
    Name <- N
    Layers = {l1, l2}
    NoResult = NoResult
    GOARCH = "amd64"
SPECIFICATION Spec
CHECK_DEADLOCK FALSE
INVARIANT ImageExistsAnswersExactly
INVARIANT VerifyAnswersForTopLayer
INVARIANT ExtractedIsEntry
INVARIANT WalkVisitsEveryFile

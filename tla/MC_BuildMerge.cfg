\* Every pair of build sections with up to two arguments over two names and
\* two values (repeated names included), one ConfigMap, one secret, and nil.
\* One call returns: the run stops in its final state.
CONSTANTS
    v1 = v1
    v2 = v2
    c1 = c1
    s1 = s1
    ArgNames = {1, 2}
    ArgValues = {v1, v2}
    ConfigMaps = {c1}
    Secrets = {s1}
    NoCM = NoCM
    NilBuild = NilBuild
    NoResult = NoResult
    MaxArgs = 2
SPECIFICATION Spec
CHECK_DEADLOCK FALSE
INVARIANT BuildArgsMerged

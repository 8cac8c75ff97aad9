\* Two clusters, one spec edit, one failed call, and a cluster relabel or
\* kernel upgrade, with the periodic resync; no symmetry (liveness).
CONSTANTS
    c1 = c1
    c2 = c2
    NoMW = NoMW
    NoBuild = NoBuild
    kv1 = kv1
    kv2 = kv2
    Claims = {kv1, kv2}
    Clusters = {c1, c2}
    MaxGen = 1
    MaxErrors = 1
    MaxEvents = 1
SPECIFICATION SpecWithResync
INVARIANT ManifestWorkBuiltForItsGeneration
PROPERTY EventuallyDeployed
 

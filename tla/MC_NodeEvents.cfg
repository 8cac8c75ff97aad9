\* Nodes join, leave, are relabelled (into or out of a selector) and
\* reboot into another kernel (three changes);
\* no resync.
CONSTANTS
    n1 = n1
    n2 = n2
    m1 = m1
    m2 = m2
    l1 = l1
    l2 = l2
    k1 = k1
    k2 = k2
    NoLabel = NoLabel
    Absent = Absent
    Nodes = {n1, n2}
    Modules = {m1, m2}
    SelLabels = {l1, l2}
    Kernels = {k1, k2}
    Selector <- MCSelector
    EventKinds = {"label", "kernel", "create", "delete"}
    MaxEvents = 3
    MaxListErrors = 0
    SyncedBeforeReboot = TRUE
SPECIFICATION Spec
PROPERTY EventuallyCoversNodes

-------------------------- MODULE NodeEventFilter --------------------------
(***************************************************************************)
(* Which node events make the Module controller reconcile which Modules    *)
(* (internal/filter/filter.go, ModuleReconciler.SetupWithManager), composed *)
(* with the work queue and an atomic view of a Module reconcile.           *)
(*                                                                         *)
(* A node event passes ModuleReconcilerNodePredicate (no deletions, the    *)
(* kernel label set, labels changed) and FindModulesForNode enqueues the   *)
(* Modules whose selector matches the node's labels: on an update the      *)
(* handler maps both the old and the new object. The node kernel           *)
(* reconciler copies Status.NodeInfo.KernelVersion into the kernel label,  *)
(* which is how a kernel upgrade becomes a label change. A reconcile of a  *)
(* Module makes its DaemonSets the kernels of its targeted nodes           *)
(* (ModuleReconciler.tla models the steps of that pass).                   *)
(***************************************************************************)
EXTENDS Naturals, FiniteSets

CONSTANTS
    Nodes,
    Modules,
    SelLabels,      \* the label pairs (key=value) module selectors use
    Selector,       \* per Module: the label pairs its selector requires
    Kernels,
    NoLabel,        \* the kernel label is not set
    Absent,         \* the node object does not exist
    EventKinds,     \* the kinds of node change the cluster makes
    MaxEvents,      \* bound on node changes
    MaxListErrors,  \* bound on failed Module lists in FindModulesForNode
    SyncedBeforeReboot \* a node reboots only after its kernel label caught up

ASSUME Selector \in [Modules -> SUBSET SelLabels]
ASSUME SyncedBeforeReboot \in BOOLEAN
ASSUME EventKinds \subseteq {"label", "kernel", "create", "delete"}

\* A Node object: its selector labels, the kernel label, the kernel version
\* of its status, and whether it has a NoSchedule taint. The taint is the
\* one it has when the cluster starts: the node predicate drops a taint
\* change without a label change, so no event of this module follows one.
NodeObj == [labels : SUBSET SelLabels, kernelLabel : Kernels \cup {NoLabel},
            kernel : Kernels, tainted : BOOLEAN]

VARIABLES
    node,        \* per node: its object, or Absent
    queue,       \* the Modules in the work queue
    deployed,    \* per Module: the kernels it has a DaemonSet for
    events,      \* node changes so far
    listErrors   \* failed Module lists so far

vars == <<node, queue, deployed, events, listErrors>>

TypeOK ==
    /\ node \in [Nodes -> NodeObj \cup {Absent}]
    /\ queue \subseteq Modules
    /\ deployed \in [Modules -> SUBSET Kernels]
    /\ events \in 0..MaxEvents
    /\ listErrors \in 0..MaxListErrors

-----------------------------------------------------------------------------
(* Predicates and the node-to-Module mapping                               *)

\* HasLabel(kernelLabel): the label is set and not empty.
HasLabel(o) == o.kernelLabel # NoLabel

\* predicate.LabelChangedPredicate on an update.
LabelChanged(old, new) ==
    old.labels # new.labels \/ old.kernelLabel # new.kernelLabel

\* Mutation of ModuleReconcilerNodePredicate: the label is looked for on
\* the old object.
ModuleReconcilerNodePredicateOld(old, new) ==
    HasLabel(old) /\ LabelChanged(old, new)

\* predicate.And(skipDeletions, HasLabel, LabelChangedPredicate) on an
\* update event (HasLabel looks at ObjectNew).
ModuleReconcilerNodePredicate(old, new) ==
    HasLabel(new) /\ LabelChanged(old, new)

\* On a create event skipDeletions and LabelChangedPredicate pass.
ModuleReconcilerCreatePredicate(o) == HasLabel(o)

\* FindModulesForNode: the Modules whose selector matches the node's
\* (new) labels.
FindModulesForNode(o) == {m \in Modules : Selector[m] \subseteq o.labels}

\* The handler's requests reach the queue, unless listing the Modules fails
\* (the error is logged and no request is returned).
Enqueue(ms) ==
    \/ /\ queue' = queue \cup ms
       /\ UNCHANGED listErrors
    \/ /\ listErrors < MaxListErrors
       /\ listErrors' = listErrors + 1
       /\ UNCHANGED queue

NoEnqueue == UNCHANGED <<queue, listErrors>>

\* Mutation of UpdateRequests: only the new object is mapped.
UpdateRequestsNewOnly(old, new) == FindModulesForNode(new)

\* EnqueueRequestsFromMapFunc on an update event: the requests of the old
\* and of the new object.
UpdateRequests(old, new) == FindModulesForNode(old) \cup FindModulesForNode(new)

\* An update event of node n from its current object to new.
UpdateNode(n, new) ==
    /\ node' = [node EXCEPT ![n] = new]
    /\ IF ModuleReconcilerNodePredicate(node[n], new)
         THEN Enqueue(UpdateRequests(node[n], new)) ELSE NoEnqueue

-----------------------------------------------------------------------------
(* Module reconcile, atomically                                            *)

\* getNodesListBySelector (selector, no NoSchedule taint) grouped by kernel.
TargetedKernels(m) ==
    {node[n].kernel : n \in {x \in Nodes : node[x] # Absent
                                /\ Selector[m] \subseteq node[x].labels
                                /\ ~node[x].tainted}}

\* Mutation of ReconcileModule: DaemonSets are created but never collected.
ReconcileModuleKeepStale(m) ==
    /\ m \in queue
    /\ queue' = queue \ {m}
    /\ deployed' = [deployed EXCEPT ![m] = @ \cup TargetedKernels(m)]
    /\ UNCHANGED <<node, events, listErrors>>

\* A worker takes m off the queue; the pass creates or patches a DaemonSet
\* per targeted kernel and collects the others.
ReconcileModule(m) ==
    /\ m \in queue
    /\ queue' = queue \ {m}
    /\ deployed' = [deployed EXCEPT ![m] = TargetedKernels(m)]
    /\ UNCHANGED <<node, events, listErrors>>

\* The informers' periodic resync delivers every Module again (not
\* assumed to happen).
Resync ==
    /\ queue' = Modules
    /\ UNCHANGED <<node, deployed, events, listErrors>>

\* The node kernel reconciler (NodeKernelReconcilerPredicate: the kernel
\* label differs from Status.NodeInfo.KernelVersion) sets the label.
NodeKernelReconcile(n) ==
    /\ node[n] # Absent
    /\ node[n].kernelLabel # node[n].kernel
    /\ UpdateNode(n, [node[n] EXCEPT !.kernelLabel = node[n].kernel])
    /\ UNCHANGED <<deployed, events>>

-----------------------------------------------------------------------------
(* The cluster                                                             *)

NodeChange(kind) ==
    /\ kind \in EventKinds
    /\ events < MaxEvents
    /\ events' = events + 1
    /\ UNCHANGED deployed

RelabelNode(n, L) ==
    /\ NodeChange("label")
    /\ node[n] # Absent /\ node[n].labels # L
    /\ UpdateNode(n, [node[n] EXCEPT !.labels = L])

\* The node reboots into another kernel: its status changes.
UpgradeKernel(n, k) ==
    /\ NodeChange("kernel")
    /\ node[n] # Absent /\ node[n].kernel # k
    /\ SyncedBeforeReboot => node[n].kernelLabel = node[n].kernel
    /\ UpdateNode(n, [node[n] EXCEPT !.kernel = k])

\* A node joins; its kernel label is not set yet.
CreateNode(n, L, k) ==
    LET o == [labels |-> L, kernelLabel |-> NoLabel, kernel |-> k,
              tainted |-> FALSE]
    IN /\ NodeChange("create")
       /\ node[n] = Absent
       /\ node' = [node EXCEPT ![n] = o]
       /\ IF ModuleReconcilerCreatePredicate(o)
            THEN Enqueue(FindModulesForNode(o)) ELSE NoEnqueue

\* skipDeletions: a deletion never enqueues.
DeleteNode(n) ==
    /\ NodeChange("delete")
    /\ node[n] # Absent
    /\ node' = [node EXCEPT ![n] = Absent]
    /\ NoEnqueue

-----------------------------------------------------------------------------

\* Every Module's DaemonSets match its nodes when the cluster starts.
Init ==
    /\ node \in [Nodes -> {o \in NodeObj : o.kernelLabel = o.kernel} \cup {Absent}]
    /\ queue = {}
    /\ deployed = [m \in Modules |-> TargetedKernels(m)]
    /\ events = 0
    /\ listErrors = 0

Next ==
    \/ \E m \in Modules : ReconcileModule(m)
    \/ Resync
    \/ \E n \in Nodes : NodeKernelReconcile(n)
    \/ \E n \in Nodes, L \in SUBSET SelLabels : RelabelNode(n, L)
    \/ \E n \in Nodes, k \in Kernels : UpgradeKernel(n, k)
    \/ \E n \in Nodes, L \in SUBSET SelLabels, k \in Kernels : CreateNode(n, L, k)
    \/ \E n \in Nodes : DeleteNode(n)

\* Workers drain the queue and the node kernel reconciler runs; the
\* resync is not assumed.
EventFairness ==
    /\ \A m \in Modules : WF_vars(ReconcileModule(m))
    /\ \A n \in Nodes : WF_vars(NodeKernelReconcile(n))

Spec == Init /\ [][Next]_vars /\ EventFairness

-----------------------------------------------------------------------------
(* Properties                                                              *)

\* The kernels each Module should have a DaemonSet for, now.
ShouldRun(m) ==
    {node[n].kernel : n \in {x \in Nodes : node[x] # Absent /\ ~node[x].tainted
                                /\ Selector[m] \subseteq node[x].labels}}

\* Node events alone, without the resync, bring every Module to its new
\* nodes and kernels: a node that joins, gets a selector label or reboots
\* into a new kernel passes the predicate once the node kernel reconciler
\* sets its kernel label, and FindModulesForNode enqueues the Modules its
\* labels match.
EventuallyCoversNodes ==
    <>[](\A m \in Modules : ShouldRun(m) \subseteq deployed[m])
=============================================================================

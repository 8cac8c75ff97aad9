-------------------------- MODULE ModuleReconciler --------------------------
(***************************************************************************)
(* ModuleReconciler.Reconcile (controllers/module_reconciler.go) for one   *)
(* Module, one API call per step, interleaved with the cluster: nodes      *)
(* change kernel or stop being targeted, the Module spec is edited, Jobs   *)
(* run, DaemonSets roll out, API calls fail.                               *)
(*                                                                         *)
(* The work queue serialises reconciles of one Module, so one pass runs at *)
(* a time; a pass starts when the Module's key is queued: by an event on   *)
(* the Module, its DaemonSets or Jobs, or a node, or by an error return.   *)
(* The periodic resync is not assumed.                                     *)
(***************************************************************************)
EXTENDS JobManager
LOCAL INSTANCE FiniteSetsExt

CONSTANTS
    Nodes,
    Mapped,           \* kernels GetModuleLoaderDataForKernel resolves
    BuildKernels,     \* kernels whose resolved configuration has a build section
    NoUnsignedImage,  \* kernels whose sign section names no unsigned image
    MaxErrors,        \* bound on failed API calls
    MaxEnvEvents,     \* bound on node changes and manual Job deletions
    NoDS,             \* no DaemonSet for a kernel
    HasDevicePlugin   \* the Module has a device plugin section

ASSUME Mapped \subseteq Kernels /\ BuildKernels \subseteq Mapped
ASSUME NoUnsignedImage \subseteq SignKernels
ASSUME MaxErrors \in Nat /\ MaxEnvEvents \in Nat /\ HasDevicePlugin \in BOOLEAN

\* Node.Status.NodeInfo.KernelVersion: a kernel version, with or without a
\* trailing "+".
RawKernel == [version : Kernels, plus : BOOLEAN]

\* strings.TrimSuffix(kernelVersion, "+")
TrimSuffix(r) == r.version

\* A driver-container DaemonSet: the spec generation its pod template was
\* computed from, and Status.NumberAvailable.
DaemonSet == [gen : Gens, avail : 0..Cardinality(Nodes)]

PCs == {"idle", "loop", "build", "sign", "driver", "plugin",
        "gc_ds", "gc_build", "gc_sign", "status"}

VARIABLES
    nodeKernel,        \* per node: its kernel version
    nodeTargeted,      \* per node: matches the selector and has no NoSchedule taint
    gen,               \* the Module spec generation
    ds,                \* per kernel: its driver-container DaemonSet, or NoDS
    dp,                \* the device plugin DaemonSet exists
    status,            \* Module.Status.ModuleLoader
    errors,            \* failed API calls so far
    envEvents,         \* node changes and manual Job deletions so far
    queued,            \* the Module's key is in the work queue
    \* Reconcile's local state
    pc,
    passGen,           \* the generation of the Module fetched by the pass
    targetedNodes,
    nodesWithMapping,
    mldMappings,       \* the kernel versions that have a ModuleLoaderData
    dsByKernelVersion, \* the DaemonSets listed at the start of the pass
    passDP,            \* NumberAvailable of the device plugin DaemonSet in
                       \* that list (its kernel-version marker key), 0 if none
    todo,              \* kernel versions the range loop has not visited
    cur                \* the kernel version of the current iteration

clusterVars == <<nodeKernel, nodeTargeted, gen, envEvents>>
passVars == <<passGen, targetedNodes, nodesWithMapping, mldMappings,
              dsByKernelVersion, passDP, todo, cur>>
workloads == <<ds, dp>>
vars == <<jobVars, clusterVars, workloads, status, errors, queued, pc, passVars>>

Status == [matching : 0..Cardinality(Nodes), desired : 0..Cardinality(Nodes),
           available : Nat, dpAvailable : Nat]

TypeOK ==
    /\ JobTypeOK
    /\ nodeKernel \in [Nodes -> RawKernel]
    /\ nodeTargeted \in [Nodes -> BOOLEAN]
    /\ gen \in Gens
    /\ ds \in [Kernels -> DaemonSet \cup {NoDS}]
    /\ dp \in BOOLEAN /\ passDP \in 0..Cardinality(Nodes)
    /\ status \in Status
    /\ errors \in 0..MaxErrors
    /\ queued \in BOOLEAN
    /\ envEvents \in 0..MaxEnvEvents
    /\ pc \in PCs
    /\ passGen \in Gens
    /\ targetedNodes \subseteq Nodes
    /\ nodesWithMapping \subseteq targetedNodes
    /\ mldMappings \subseteq Mapped
    /\ dsByKernelVersion \in [Kernels -> DaemonSet \cup {NoDS}]
    /\ todo \subseteq mldMappings
    /\ cur \in Kernels

-----------------------------------------------------------------------------
(* Reconcile                                                               *)

\* The locals of a finished pass are dead; they are reset.
EndPass ==
    /\ pc' = "idle"
    /\ passGen' = 0
    /\ targetedNodes' = {}
    /\ nodesWithMapping' = {}
    /\ mldMappings' = {}
    /\ dsByKernelVersion' = [k \in Kernels |-> NoDS]
    /\ passDP' = 0
    /\ todo' = {}
    /\ cur' = CHOOSE k \in Kernels : TRUE

Init ==
    /\ jobs = {}
    /\ images = Kernels \ (BuildKernels \cup SignKernels)
    /\ built = {}
    /\ signed = {}
    /\ jobCache = {}
    /\ nodeKernel \in [Nodes -> RawKernel]
    /\ nodeTargeted \in [Nodes -> BOOLEAN]
    /\ gen = 0
    /\ ds = [k \in Kernels |-> NoDS]
    /\ dp = FALSE
    /\ status = [matching |-> 0, desired |-> 0, available |-> 0, dpAvailable |-> 0]
    /\ errors = 0
    /\ envEvents = 0
    /\ queued = TRUE
    /\ pc = "idle"
    /\ passGen = 0
    /\ targetedNodes = {}
    /\ nodesWithMapping = {}
    /\ mldMappings = {}
    /\ dsByKernelVersion = [k \in Kernels |-> NoDS]
    /\ passDP = 0
    /\ todo = {}
    /\ cur = CHOOSE k \in Kernels : TRUE

AvailOf(d) == IF d = NoDS THEN 0 ELSE d.avail

OwnedKinds == {"DaemonSet", "Build", "Job"}

\* The work queue adds the Module's key; a key added while a pass runs is
\* processed again after it.
Enqueue(changed) == queued' = (queued \/ changed)

\* An event on a Job of the Module, at the write. When the Job informer
\* lags, it delivers the event where it syncs, as a pass starts
\* (JobCacheSync), which is when the key is taken anyway.
JobEvent == Enqueue("Job" \in OwnedKinds /\ ~JobCacheLags /\ jobs' # jobs)

DaemonSetEvent == Enqueue("DaemonSet" \in OwnedKinds /\ workloads' # workloads)

\* The device plugin's pods (SetDevicePluginAsDesired) run on the nodes
\* where the module is loaded: they are taken to be available exactly
\* where the module loader's pods are.
DevicePluginAvail ==
    IF dp THEN MapThenSumSet(LAMBDA k : AvailOf(ds[k]), Kernels) ELSE 0

\* Mutation of StartPass: nodes are grouped by kernel before the
\* selector and taint filter is applied.
StartPassUnfiltered ==
    LET tn == {n \in Nodes : nodeTargeted[n]}
        wm == {n \in Nodes : TrimSuffix(nodeKernel[n]) \in Mapped}
        kv == {TrimSuffix(nodeKernel[n]) : n \in wm}
    IN /\ pc = "idle"
       /\ queued /\ queued' = FALSE
       /\ pc' = "loop"
       /\ passGen' = gen
       /\ targetedNodes' = tn
       /\ nodesWithMapping' = wm
       /\ mldMappings' = kv
       /\ todo' = kv
       /\ dsByKernelVersion' = ds /\ passDP' = DevicePluginAvail
       /\ JobCacheSync
       /\ UNCHANGED <<clusterVars, workloads, status, errors, cur>>

\* getRequestedModule, getNodesListBySelector (isNodeSchedulable),
\* getRelevantKernelMappingsAndNodes (one mapping per trimmed kernel
\* version, nodes whose kernel has none are dropped) and
\* ModuleDaemonSetsByKernelVersion.
StartPass ==
    LET tn == {n \in Nodes : nodeTargeted[n]}
        wm == {n \in tn : TrimSuffix(nodeKernel[n]) \in Mapped}
        kv == {TrimSuffix(nodeKernel[n]) : n \in wm}
    IN /\ pc = "idle"
       /\ queued /\ queued' = FALSE
       /\ pc' = "loop"
       /\ passGen' = gen
       /\ targetedNodes' = tn
       /\ nodesWithMapping' = wm
       /\ mldMappings' = kv
       /\ todo' = kv
       /\ dsByKernelVersion' = ds /\ passDP' = DevicePluginAvail
       /\ JobCacheSync
       /\ UNCHANGED <<clusterVars, workloads, status, errors, cur>>

\* One iteration of `for kernelVersion, mld := range mldMappings`, in the
\* order Go's map iteration happens to give.
PickKernel(k) ==
    /\ pc = "loop"
    /\ k \in todo
    /\ cur' = k
    /\ todo' = todo \ {k}
    /\ pc' = "build"
    /\ UNCHANGED <<jobVars, clusterVars, workloads, status, errors, queued, passGen,
                   targetedNodes, nodesWithMapping, mldMappings,
                   dsByKernelVersion, passDP>>

\* The loop over the kernel versions is over.
EndLoop ==
    /\ pc = "loop"
    /\ todo = {}
    /\ pc' = "plugin"
    /\ UNCHANGED <<jobVars, clusterVars, workloads, status, errors, queued, passVars>>

\* Mutation of SyncStage: a stage that is not finished counts as completed.
SyncStageNotWaiting(s, onCompleted) ==
    LET st == SyncStatus(cur, s, passGen) IN
    /\ SyncEnabled(cur, s)
    /\ jobs' = SyncJobs(cur, s, passGen)
    /\ \/ st \in {"Completed", "Created", "InProgress"} /\ pc' = onCompleted
          /\ UNCHANGED passVars
       \/ st = "Failed" /\ pc' = "loop" /\ UNCHANGED passVars
       \/ st = "Error" /\ EndPass
    /\ IF st = "Error" THEN queued' = TRUE ELSE JobEvent
    /\ UNCHANGED <<images, built, signed, jobCache, clusterVars, workloads, status,
                   errors>>

\* Sync of stage s and the switch on its status: Completed goes on to the
\* next stage, Created / InProgress / Failed `continue` with the next
\* kernel, an error makes Reconcile return it.
SyncStage(s, onCompleted) ==
    LET st == SyncStatus(cur, s, passGen) IN
    /\ SyncEnabled(cur, s)
    /\ jobs' = SyncJobs(cur, s, passGen)
    /\ \/ st = "Completed" /\ pc' = onCompleted /\ UNCHANGED passVars
       \/ st \in {"Created", "InProgress", "Failed"} /\ pc' = "loop"
          /\ UNCHANGED passVars
       \/ st = "Error" /\ EndPass
    /\ IF st = "Error" THEN queued' = TRUE ELSE JobEvent
    /\ UNCHANGED <<images, built, signed, jobCache, clusterVars, workloads, status,
                   errors>>

\* handleBuild: ShouldSync is true iff there is a build section.
HandleBuild ==
    /\ pc = "build"
    /\ \/ /\ cur \notin BuildKernels
          /\ pc' = "sign"
          /\ UNCHANGED <<jobVars, clusterVars, workloads, status, errors, queued,
                         passVars>>
       \/ /\ cur \in BuildKernels
          /\ SyncStage("build", "sign")

\* MakeJobTemplate has an image to sign: the intermediate image that
\* handleSigning passes when the kernel is built, else the sign section's
\* UnsignedImage; with neither it fails ("no image to sign given").
HasImageToSign(k) == k \in BuildKernels \/ k \notin NoUnsignedImage

\* handleSigning: ShouldSync is true iff there is a sign section and the
\* image is not in the registry; Sync fails when there is no image to sign.
HandleSigning ==
    /\ pc = "sign"
    /\ \/ /\ cur \notin SignKernels \/ cur \in images
          /\ pc' = "driver"
          /\ UNCHANGED <<jobVars, clusterVars, workloads, status, errors, queued,
                         passVars>>
       \/ /\ cur \in SignKernels /\ cur \notin images
          /\ ~HasImageToSign(cur)
          /\ EndPass
          /\ queued' = TRUE
          /\ UNCHANGED <<jobVars, clusterVars, workloads, status, errors>>
       \/ /\ cur \in SignKernels /\ cur \notin images
          /\ HasImageToSign(cur)
          /\ SyncStage("sign", "driver")

\* handleDevicePlugin: nothing without a device plugin section; otherwise
\* CreateOrPatch of the DaemonSet <module>-device-plugin.
HandleDevicePlugin ==
    /\ pc = "plugin"
    /\ dp' = (dp \/ HasDevicePlugin)
    /\ pc' = "gc_ds"
    /\ UNCHANGED <<jobVars, clusterVars, ds, status, errors, passVars>>
    /\ DaemonSetEvent

HandleDriverContainer ==
    /\ pc = "driver"
    /\ ds' = [ds EXCEPT ![cur] = [gen |-> passGen, avail |-> AvailOf(@)]]
    /\ pc' = "loop"
    /\ UNCHANGED <<jobVars, dp, clusterVars, status, errors, passVars>>
    /\ DaemonSetEvent

StaleDaemonSets == {k \in Kernels : dsByKernelVersion[k] # NoDS /\ k \notin mldMappings}

Delete(ks) == [k \in Kernels |-> IF k \in ks THEN NoDS ELSE ds[k]]

\* garbageCollect, first pass: delete every stale DaemonSet.
GarbageCollectDaemonSets ==
    /\ pc = "gc_ds"
    /\ ds' = Delete(StaleDaemonSets)
    /\ pc' = "gc_build"
    /\ UNCHANGED <<jobVars, dp, clusterVars, status, errors, passVars>>
    /\ DaemonSetEvent

\* The DaemonSet GC fails after deleting some of the stale DaemonSets:
\* garbageCollect returns the error before the Job GC, and the Module is
\* requeued.
GarbageCollectDaemonSetsFails ==
    /\ pc = "gc_ds"
    /\ errors < MaxErrors
    /\ errors' = errors + 1
    /\ \E gone \in SUBSET StaleDaemonSets : ds' = Delete(gone)
    /\ EndPass
    /\ UNCHANGED <<jobVars, dp, clusterVars, status>>
    /\ queued' = TRUE

\* garbageCollect, second and third passes: the build, then the sign Jobs.
GarbageCollectBuilds ==
    /\ pc = "gc_build"
    /\ jobs' = GarbageCollectJobs("build")
    /\ pc' = "gc_sign"
    /\ JobEvent
    /\ UNCHANGED <<images, built, signed, jobCache, clusterVars, workloads, status,
                   errors, passVars>>

GarbageCollectSigns ==
    /\ pc = "gc_sign"
    /\ jobs' = GarbageCollectJobs("sign")
    /\ pc' = "status"
    /\ JobEvent
    /\ UNCHANGED <<images, built, signed, jobCache, clusterVars, workloads, status,
                   errors, passVars>>

\* ModuleUpdateStatus, the device plugin block: written only when the
\* Module has a device plugin, from the listed DaemonSets whose key carries
\* the device plugin marker.
DevicePluginAvailable ==
    IF HasDevicePlugin THEN passDP ELSE status.dpAvailable

\* ModuleUpdateStatus: counts from the pass's node lists, NumberAvailable
\* summed over the DaemonSets listed at the start of the pass.
ModuleUpdateStatus ==
    /\ pc = "status"
    /\ status' = [matching  |-> Cardinality(targetedNodes),
                  desired   |-> Cardinality(nodesWithMapping),
                  available |-> MapThenSumSet(
                                  LAMBDA k : AvailOf(dsByKernelVersion[k]),
                                  Kernels),
                  dpAvailable |-> DevicePluginAvailable]
    /\ Enqueue(status' # status)
    /\ EndPass
    /\ UNCHANGED <<jobVars, clusterVars, workloads, errors>>

\* Any API or registry call of the pass fails: Reconcile returns the error
\* and the work queue requeues the Module (rate limited).
ApiError ==
    /\ pc \notin {"loop", "gc_ds"}
    /\ pc = "idle" => queued
    /\ queued' = TRUE
    /\ pc = "plugin" => HasDevicePlugin
    /\ errors < MaxErrors
    /\ errors' = errors + 1
    /\ EndPass
    /\ UNCHANGED <<jobVars, clusterVars, workloads, status>>

-----------------------------------------------------------------------------
(* The cluster                                                             *)

NodeKernelChanges(n, r) ==
    /\ envEvents < MaxEnvEvents
    /\ r # nodeKernel[n]
    /\ nodeKernel' = [nodeKernel EXCEPT ![n] = r]
    /\ envEvents' = envEvents + 1
    /\ queued' = TRUE
    /\ UNCHANGED <<jobVars, nodeTargeted, gen, workloads, status, errors, pc, passVars>>

\* A node's labels stop (or start) matching the selector, or it gets (or
\* loses) a NoSchedule taint.
NodeTargetingChanges(n) ==
    /\ envEvents < MaxEnvEvents
    /\ nodeTargeted' = [nodeTargeted EXCEPT ![n] = ~@]
    /\ envEvents' = envEvents + 1
    /\ queued' = TRUE
    /\ UNCHANGED <<jobVars, nodeKernel, gen, workloads, status, errors, pc, passVars>>

EditModule ==
    /\ gen < MaxGen
    /\ gen' = gen + 1
    /\ queued' = TRUE
    /\ UNCHANGED <<jobVars, nodeKernel, nodeTargeted, envEvents, workloads, status,
                   errors, pc, passVars>>

\* Pods of the kernel's DaemonSet become available on the targeted nodes
\* running that kernel.
ReadyNodes(k) ==
    Cardinality({n \in Nodes : nodeTargeted[n] /\ TrimSuffix(nodeKernel[n]) = k})

DaemonSetRollsOut(k) ==
    /\ ds[k] # NoDS
    /\ ds[k].avail # ReadyNodes(k)
    /\ ds' = [ds EXCEPT ![k].avail = ReadyNodes(k)]
    /\ UNCHANGED <<jobVars, clusterVars, dp, status, errors, pc, passVars>>
    /\ DaemonSetEvent

JobControllerRuns(n) ==
    /\ JobRuns(n)
    /\ JobEvent
    /\ UNCHANGED <<clusterVars, workloads, status, errors, pc, passVars>>

OperatorDeletesJob ==
    /\ envEvents < MaxEnvEvents
    /\ \E j \in jobs : OperatorDeletesFailedJob(j)
    /\ envEvents' = envEvents + 1
    /\ JobEvent
    /\ UNCHANGED <<nodeKernel, nodeTargeted, gen, workloads, status, errors, pc,
                   passVars>>

-----------------------------------------------------------------------------

Reconcile ==
    \/ StartPass
    \/ \E k \in Kernels : PickKernel(k)
    \/ EndLoop
    \/ HandleDevicePlugin
    \/ HandleBuild
    \/ HandleSigning
    \/ HandleDriverContainer
    \/ GarbageCollectDaemonSets
    \/ GarbageCollectBuilds
    \/ GarbageCollectSigns
    \/ ModuleUpdateStatus

Environment ==
    \/ \E n \in Nodes, r \in RawKernel : NodeKernelChanges(n, r)
    \/ \E n \in Nodes : NodeTargetingChanges(n)
    \/ EditModule
    \/ \E k \in Kernels : DaemonSetRollsOut(k)
    \/ \E n \in JobNames : JobControllerRuns(n)
    \/ OperatorDeletesJob

Next == Reconcile \/ ApiError \/ GarbageCollectDaemonSetsFails \/ Environment

\* A queued Module is dequeued and its pass runs to its end (the work
\* queue's workers); the Job controller runs every Job to completion; the
\* DaemonSet controller rolls out. Node changes,
\* edits, errors and manual deletions are not forced, and neither is the
\* periodic resync: a pass starts only from the queue.
Fairness ==
    /\ WF_vars(Reconcile)
    /\ \A n \in JobNames : WF_vars(JobControllerRuns(n))
    /\ \A k \in Kernels : WF_vars(DaemonSetRollsOut(k))

Spec == Init /\ [][Next]_vars /\ Fairness

-----------------------------------------------------------------------------
(* Properties                                                              *)

\* Kernels that have a targeted node and a kernel mapping now.
ActiveKernels ==
    {TrimSuffix(nodeKernel[n]) : n \in {m \in Nodes : nodeTargeted[m]}} \cap Mapped

\* At most one Job per (kernel version, job type) in the API server
\* (spec.md 3; GetModuleJobByKernel fails on two, jobhelper_test.go:121):
\* Sync creates a Job, with a generated name, whenever its listing finds
\* none for the kernel and type, across passes, errors and requeues.
AtMostOneJobPerKernelAndStage ==
    \A k \in Kernels, s \in Stages : Cardinality(JobsOf(k, s)) <= 1

\* A driver-container DaemonSet only ever runs an image that is in the
\* registry: handleDriverContainer is reached only after handleBuild and
\* handleSigning report their stage completed or not needed.
WorkloadImageExists ==
    \A k \in Kernels : ds[k] # NoDS => k \in images

\* A DaemonSet of a built kernel is written for generation g only after a
\* build Job of g's template succeeded: Sync reports Completed only for a
\* Job whose hash is the pass's desired hash, even when the spec is edited
\* while an older Job runs or has succeeded. (The sign stage is not
\* compared: ShouldSync(Sign) is false once the signed image exists, so a
\* DaemonSet may move to g on an image signed for an older generation.)
WorkloadBuiltForItsGeneration ==
    \A k \in BuildKernels : ds[k] # NoDS => <<k, ds[k].gen>> \in built

\* Convergence: once the cluster stops changing, every kernel that has
\* targeted nodes and a mapping runs a DaemonSet of the current spec, unless
\* one of its Jobs for the current spec failed.
BlockedOnFailedJob(k) ==
    \E j \in jobs : j.kernel = k /\ j.phase = "failed" /\ j.hash = gen

EventuallyDeployed ==
    <>[](\A k \in ActiveKernels :
            (ds[k] # NoDS /\ ds[k].gen = gen) \/ BlockedOnFailedJob(k))

\* Garbage collection: eventually no DaemonSet is left for a kernel version
\* that no targeted node runs or that has no mapping.
EventuallyCollected ==
    <>[](\A k \in Kernels : ds[k] # NoDS => k \in ActiveKernels)

\* Status: eventually Module.Status is what the cluster currently is, the
\* module loader's and the device plugin's available pods counted apart.
CurrentStatus ==
    [matching  |-> Cardinality({n \in Nodes : nodeTargeted[n]}),
     desired   |-> Cardinality({n \in Nodes : nodeTargeted[n] /\
                                  TrimSuffix(nodeKernel[n]) \in Mapped}),
     available |-> MapThenSumSet(LAMBDA k : AvailOf(ds[k]), Kernels),
     dpAvailable |-> DevicePluginAvail]

JobSlots ==
    [ks \in Kernels \X Stages |->
        IF JobsOf(ks[1], ks[2]) = {}
          THEN [phase |-> "none", hash |-> 0]
          ELSE LET j == CHOOSE x \in JobsOf(ks[1], ks[2]) : TRUE
               IN [phase |-> j.phase, hash |-> j.hash]]

Lifecycle == INSTANCE JobLifecycle WITH slot <- JobSlots

\* The reconciler's passes, the managers' Sync and garbage collection, the
\* Job controller and the operator together implement the Job lifecycle:
\* a Job is created for an existing template, runs once, and is deleted
\* only when it succeeded, failed, or its template is outdated, never
\* while it runs for the current template.
JobLifecycleSpec == Lifecycle!Spec
=============================================================================

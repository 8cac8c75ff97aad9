--------------------------- MODULE DriverContainer ---------------------------
(***************************************************************************)
(* The DaemonSet side of a Module reconcile (controllers/module_reconciler *)
(* .go) against a cache-backed client: ModuleDaemonSetsByKernelVersion     *)
(* lists the DaemonSets from the informer cache, handleDriverContainer     *)
(* patches the listed DaemonSet of each kernel or creates one with a       *)
(* GenerateName, and garbageCollect deletes the listed DaemonSets of       *)
(* kernels no longer targeted. The cache sees the API server's writes in   *)
(* order, some time later; each change it sees enqueues the Module (Owns). *)
(*                                                                         *)
(* A pass is one step: the work queue never runs two passes of one Module  *)
(* at once. Build and sign are left out (ModuleReconciler.tla has them):   *)
(* every targeted kernel is ready for its DaemonSet.                       *)
(***************************************************************************)
EXTENDS Naturals, Sequences, FiniteSets

CONSTANTS
    Kernels,
    MaxNames,    \* bound on DaemonSets of one kernel that exist at once
    MaxEvents,   \* bound on events that enqueue the Module from outside
    MaxErrors    \* bound on failed API calls

\* A generated name is abstracted to the kernel and a serial number.
DaemonSet == [kernel : Kernels, n : 1..MaxNames]

VARIABLES
    store,    \* the Module's DaemonSets in the API server
    cache,    \* the informer's view of them
    watch,    \* states of store the informer has not seen yet, oldest first
    active,   \* the kernels of the targeted nodes (the keys of mldMappings)
    queued,   \* the Module is in the work queue
    events, errors

vars == <<store, cache, watch, active, queued, events, errors>>

TypeOK ==
    /\ store \subseteq DaemonSet /\ cache \subseteq DaemonSet
    /\ watch \in Seq(SUBSET DaemonSet)
    /\ active \subseteq Kernels /\ queued \in BOOLEAN
    /\ events \in 0..MaxEvents /\ errors \in 0..MaxErrors

Init ==
    /\ store = {} /\ cache = {} /\ watch = <<>>
    /\ active \in SUBSET Kernels
    /\ queued = TRUE     \* the Module's creation
    /\ events = 0 /\ errors = 0

\* ModuleDaemonSetsByKernelVersion: the cached DaemonSets keyed by their
\* kernel label; of two with one label, one ends up in the map.
ByKernelVersion(c) ==
    {f \in [{d.kernel : d \in c} -> c] : \A k \in DOMAIN f : f[k].kernel = k}

\* GenerateName: the server picks a name no object has; one the informer
\* may still hold for a deleted DaemonSet is avoided too, as its UID would
\* differ. The least such serial stands for any of them.
FreshNames(k) ==
    {n \in 1..MaxNames :
        \A s \in {store, cache} \cup {watch[i] : i \in DOMAIN watch} :
            [kernel |-> k, n |-> n] \notin s}

GeneratedName(k) == CHOOSE n \in FreshNames(k) : \A m \in FreshNames(k) : n <= m

\* The pass changed the API server: the informer will see the new state.
Publish(s) == IF s = store THEN <<>> ELSE <<s>>

\* One Reconcile pass with dsByKernelVersion = idx. handleDriverContainer
\* runs for the kernels of done (mldMappings is a Go map: any order), then
\* either a call fails and the error requeues the Module, or every kernel
\* is done and garbageCollect deletes the listed DaemonSets of kernels
\* that are not targeted. A listed DaemonSet the server no longer has
\* cannot be patched (NotFound): that kernel's call fails. Deleting one
\* that is already gone succeeds or fails (the error disjunct): the
\* DaemonSet creator's GarbageCollect is not under src/.
Reconcile ==
    /\ queued
    /\ \E idx \in ByKernelVersion(cache), done \in SUBSET active :
        LET missing == done \ DOMAIN idx        \* GenerateName: created
            new     == {[kernel |-> k, n |-> GeneratedName(k)] : k \in missing}
            gone    == {k \in DOMAIN idx : idx[k] \notin store}
            synced  == store \cup new
            swept   == synced \ {idx[k] : k \in DOMAIN idx \ active}
        IN /\ done \cap gone = {}
           /\ \A k \in missing : FreshNames(k) # {}
           /\ \/ /\ done = active                  \* pass succeeds
                 /\ store' = swept
                 /\ watch' = watch \o Publish(synced)
                               \o (IF swept = synced THEN <<>> ELSE <<swept>>)
                 /\ queued' = FALSE
                 /\ UNCHANGED errors
              \/ /\ done # active                  \* a listed DaemonSet is gone
                 /\ (active \ done) \cap gone # {}
                 /\ store' = synced /\ watch' = watch \o Publish(synced)
                 /\ UNCHANGED <<queued, errors>>
              \/ /\ errors < MaxErrors             \* a create, patch or delete fails
                 /\ errors' = errors + 1
                 /\ store' = synced /\ watch' = watch \o Publish(synced)
                 /\ UNCHANGED queued
    /\ UNCHANGED <<cache, active, events>>

\* The informer sees the next state of the API server without the
\* Owns(DaemonSet) watch: the owning Module is not enqueued.
CacheSyncUnowned ==
    /\ watch # <<>>
    /\ cache' = Head(watch) /\ watch' = Tail(watch)
    /\ UNCHANGED <<store, active, queued, events, errors>>

\* The informer sees the next state of the API server; the Owns(DaemonSet)
\* watch enqueues the owning Module.
CacheSync ==
    /\ watch # <<>>
    /\ cache' = Head(watch) /\ watch' = Tail(watch)
    /\ queued' = TRUE
    /\ UNCHANGED <<store, active, events, errors>>

\* A node event, a Module edit or a resync enqueues the Module; node
\* changes may change the kernels it targets.
Trigger(ks) ==
    /\ events < MaxEvents
    /\ events' = events + 1
    /\ active' = ks /\ queued' = TRUE
    /\ UNCHANGED <<store, cache, watch, errors>>

Next == Reconcile \/ CacheSync \/ \E ks \in SUBSET Kernels : Trigger(ks)

Spec == Init /\ [][Next]_vars

\* The work queue's workers take every queued Module, and the informer
\* delivers every change of the API server: both are weakly fair. Node
\* events and Module edits come from outside and are not.
FairSpec == Spec /\ WF_vars(Reconcile) /\ WF_vars(CacheSync)

-----------------------------------------------------------------------------
(* Properties                                                              *)

\* A kernel has at most one driver-container DaemonSet (spec.md: one
\* Workload per kernel version), however the passes of the Module and the
\* informer cache interleave: handleDriverContainer creates a DaemonSet only
\* when the listed ones lack that kernel.
AtMostOneDaemonSetPerKernel ==
    \A k \in Kernels : Cardinality({d \in store : d.kernel = k}) <= 1

\* Whatever the lag of the cache, the passes that fail on a listed DaemonSet
\* the server has already collected (NotFound) and the injected errors, the
\* DaemonSets come to match the targeted kernels and stay so: every targeted
\* kernel has one, and every DaemonSet of a kernel no longer targeted,
\* duplicates included, is collected. It rests on the Owns(DaemonSet) watch
\* requeueing the Module once the cache has caught up.
DaemonSetsConverge ==
    <>[](\A k \in Kernels : (k \in active) <=> (\E d \in store : d.kernel = k))
=============================================================================

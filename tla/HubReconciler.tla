--------------------------- MODULE HubReconciler ---------------------------
(***************************************************************************)
(* ManagedClusterModuleReconciler.Reconcile (controllers/hub/              *)
(* managedclustermodule_reconciler.go) for one ManagedClusterModule, one   *)
(* API call per step: per selected cluster BuildAndSign and a ManifestWork *)
(* CreateOrPatch, whose errors are logged and skipped; then ManifestWork   *)
(* GC, build GC and the status (statusupdater.go), whose errors are        *)
(* returned. The work queue is explicit: a pass starts only when the       *)
(* ManagedClusterModule was enqueued by an event, a returned error or the  *)
(* periodic resync.                                                        *)
(***************************************************************************)
EXTENDS Naturals, FiniteSets

CONSTANTS
    Clusters,
    MaxGen,        \* bound on edits of the ManagedClusterModule spec
    MaxErrors,     \* bound on failed API calls
    MaxEvents,     \* bound on cluster relabels
    NoMW,          \* no ManifestWork for the cluster
    NoBuild,       \* no build running for the cluster
    Claims         \* values of a cluster's kernel-versions ClusterClaim

Gens == 0..MaxGen

PCs == {"idle", "loop", "build", "mw", "gc", "gcbuild", "status"}

VARIABLES
    selected,     \* per cluster: its labels match the selector
    claim,        \* per cluster: its kernel-versions ClusterClaim
    gen,          \* the ManagedClusterModule spec generation
    mw,           \* per cluster: the generation its ManifestWork carries, or NoMW
    applied,      \* per cluster: the agent applied the ManifestWork's content
    building,     \* per cluster: the (generation, claim) being built and
                  \* signed, or NoBuild
    builtGens,    \* per cluster: the (generation, claim) pairs whose build
                  \* and sign completed
    status,       \* NumberDesired and NumberApplied
    queued,       \* the ManagedClusterModule is in the work queue
    errors,
    events,
    \* Reconcile's local state
    pc, passGen, passClaim, clusters, todo, cur

passVars == <<pc, passGen, passClaim, clusters, todo, cur>>
vars == <<selected, claim, gen, mw, applied, building, builtGens, status, queued,
          errors, events, passVars>>

TypeOK ==
    /\ selected \in [Clusters -> BOOLEAN]
    /\ gen \in Gens
    /\ mw \in [Clusters -> Gens \cup {NoMW}]
    /\ applied \in [Clusters -> BOOLEAN]
    /\ claim \in [Clusters -> Claims]
    /\ building \in [Clusters -> (Gens \X Claims) \cup {NoBuild}]
    /\ builtGens \in [Clusters -> SUBSET (Gens \X Claims)]
    /\ status \in [desired : 0..Cardinality(Clusters),
                   applied : 0..Cardinality(Clusters)]
    /\ queued \in BOOLEAN
    /\ errors \in 0..MaxErrors /\ events \in 0..MaxEvents
    /\ pc \in PCs /\ passGen \in Gens /\ passClaim \in [Clusters -> Claims]
    /\ clusters \subseteq Clusters /\ todo \subseteq clusters /\ cur \in Clusters

NoPassClaim == [c \in Clusters |-> CHOOSE k \in Claims : TRUE]

EndPass ==
    /\ pc' = "idle" /\ passGen' = 0 /\ passClaim' = NoPassClaim
    /\ clusters' = {} /\ todo' = {}
    /\ cur' = CHOOSE c \in Clusters : TRUE

Init ==
    /\ selected \in [Clusters -> BOOLEAN]
    /\ claim = NoPassClaim          \* the clusters start on the same kernels
    /\ gen = 0
    /\ mw = [c \in Clusters |-> NoMW]
    /\ applied = [c \in Clusters |-> FALSE]
    /\ building = [c \in Clusters |-> NoBuild]
    /\ builtGens = [c \in Clusters |-> {}]
    /\ status = [desired |-> 0, applied |-> 0]
    /\ queued = TRUE
    /\ errors = 0 /\ events = 0
    /\ pc = "idle" /\ passGen = 0 /\ passClaim = NoPassClaim
    /\ clusters = {} /\ todo = {}
    /\ cur = CHOOSE c \in Clusters : TRUE

-----------------------------------------------------------------------------
(* Reconcile                                                               *)

\* A worker dequeues the request; RequestedManagedClusterModule and
\* SelectedManagedClusters, which lists the clusters with their claims.
StartPass ==
    /\ pc = "idle" /\ queued
    /\ queued' = FALSE
    /\ pc' = "loop"
    /\ passGen' = gen /\ passClaim' = claim
    /\ clusters' = {c \in Clusters : selected[c]}
    /\ todo' = {c \in Clusters : selected[c]}
    /\ UNCHANGED <<selected, claim, gen, mw, applied, building, builtGens, status,
                   errors, events, cur>>

PickCluster(c) ==
    /\ pc = "loop" /\ c \in todo
    /\ cur' = c /\ todo' = todo \ {c} /\ pc' = "build"
    /\ UNCHANGED <<selected, claim, gen, mw, applied, building, builtGens, status,
                   queued, errors, events, passGen, passClaim, clusters>>

EndLoop ==
    /\ pc = "loop" /\ todo = {}
    /\ pc' = "gc"
    /\ UNCHANGED <<selected, claim, gen, mw, applied, building, builtGens, status,
                   queued, errors, events, passGen, passClaim, clusters, todo, cur>>

\* A failed call inside the loop is logged and the loop goes on (`continue`):
\* nothing requeues the ManagedClusterModule.
SkipCluster ==
    /\ pc \in {"build", "mw"}
    /\ errors < MaxErrors
    /\ errors' = errors + 1
    /\ pc' = "loop"
    /\ UNCHANGED <<selected, claim, gen, mw, applied, building, builtGens, status,
                   queued, events, passGen, passClaim, clusters, todo, cur>>

\* Mutation of BuildAndSign: any completed build counts, whatever its spec.
BuildAndSignAnyGen ==
    /\ pc = "build"
    /\ \/ builtGens[cur] # {} /\ pc' = "mw" /\ UNCHANGED building
       \/ builtGens[cur] = {} /\ pc' = "loop"
          /\ building' = [building EXCEPT ![cur] = <<passGen, passClaim[cur]>>]
    /\ UNCHANGED <<selected, claim, gen, mw, applied, builtGens, status, queued,
                   errors, events, passGen, passClaim, clusters, todo, cur>>

BuildAndSign ==
    LET key == <<passGen, passClaim[cur]>> IN
    /\ pc = "build"
    /\ \/ key \in builtGens[cur] /\ pc' = "mw" /\ UNCHANGED building
       \/ key \notin builtGens[cur] /\ pc' = "loop"
          /\ building' = [building EXCEPT ![cur] = key]
    /\ UNCHANGED <<selected, claim, gen, mw, applied, builtGens, status, queued,
                   errors, events, passGen, passClaim, clusters, todo, cur>>

\* Mutation of CreateOrPatchManifestWork: an existing ManifestWork is kept.
CreateManifestWorkOnly ==
    /\ pc = "mw"
    /\ mw' = [mw EXCEPT ![cur] = IF @ = NoMW THEN passGen ELSE @]
    /\ applied' = [applied EXCEPT ![cur] = IF mw[cur] = NoMW THEN FALSE ELSE @]
    /\ queued' = (queued \/ mw[cur] = NoMW)
    /\ pc' = "loop"
    /\ UNCHANGED <<selected, claim, gen, building, builtGens, status, errors, events,
                   passGen, passClaim, clusters, todo, cur>>

\* CreateOrPatch of the cluster's ManifestWork to the pass's spec; a write
\* is an event on an owned object and enqueues the ManagedClusterModule.
CreateOrPatchManifestWork ==
    /\ pc = "mw"
    /\ mw' = [mw EXCEPT ![cur] = passGen]
    /\ applied' = [applied EXCEPT ![cur] = (@ /\ mw[cur] = passGen)]
    /\ queued' = (queued \/ mw[cur] # passGen)
    /\ pc' = "loop"
    /\ UNCHANGED <<selected, claim, gen, building, builtGens, status, errors, events,
                   passGen, passClaim, clusters, todo, cur>>

\* manifestAPI.GarbageCollect: delete the ManifestWorks of clusters not in
\* the list selected at the start of the pass.
GarbageCollectManifestWorks ==
    LET gone == {c \in Clusters : mw[c] # NoMW /\ c \notin clusters}
    IN /\ pc = "gc"
       /\ mw' = [c \in Clusters |-> IF c \in gone THEN NoMW ELSE mw[c]]
       /\ applied' = [c \in Clusters |-> applied[c] /\ c \notin gone]
       /\ queued' = (queued \/ gone # {})
       /\ pc' = "gcbuild"
       /\ UNCHANGED <<selected, claim, gen, building, builtGens, status, errors,
                      events, passGen, passClaim, clusters, todo, cur>>

\* GarbageCollectBuilds: completed build objects go; the images stay.
GarbageCollectBuilds ==
    /\ pc = "gcbuild"
    /\ pc' = "status"
    /\ UNCHANGED <<selected, claim, gen, mw, applied, building, builtGens, status,
                   queued, errors, events, passGen, passClaim, clusters, todo, cur>>

\* GetOwnedManifestWorks: the clusters that have a ManifestWork of this
\* ManagedClusterModule.
OwnedManifestWorks == {c \in Clusters : mw[c] # NoMW}

\* ManagedClusterModuleUpdateStatus over the owned ManifestWorks:
\* NumberDesired is their number, NumberApplied the number whose Applied
\* condition is true. NumberDegraded counts the Degraded conditions, which
\* only the cluster's work agent sets; the model's agent only applies, so
\* that count is always 0 and is left out.
UpdateStatus ==
    /\ pc = "status"
    /\ status' = [desired |-> Cardinality(OwnedManifestWorks),
                  applied |-> Cardinality({c \in OwnedManifestWorks : applied[c]})]
    /\ EndPass
    /\ UNCHANGED <<selected, claim, gen, mw, applied, building, builtGens, queued,
                   errors, events>>

\* Fetching the object or the clusters fails, or a GC step, or the status
\* patch: Reconcile returns the error and the request is requeued.
ReturnError ==
    /\ \/ pc = "idle" /\ queued
       \/ pc \in {"gc", "gcbuild", "status"}
    /\ errors < MaxErrors
    /\ errors' = errors + 1
    /\ queued' = TRUE
    /\ EndPass
    /\ UNCHANGED <<selected, claim, gen, mw, applied, building, builtGens, status,
                   events>>

-----------------------------------------------------------------------------
(* The hub and the managed clusters                                        *)

EditSpec ==
    /\ gen < MaxGen
    /\ gen' = gen + 1 /\ queued' = TRUE
    /\ UNCHANGED <<selected, claim, mw, applied, building, builtGens, status, errors,
                   events, passVars>>

\* A cluster's labels change: the event passes the LabelChanged predicate,
\* and the map func, run on the old and on the new object, enqueues the
\* ManagedClusterModule when its selector matches either labels.
RelabelCluster(c) ==
    /\ events < MaxEvents
    /\ events' = events + 1
    /\ selected' = [selected EXCEPT ![c] = ~@]
    /\ queued' = (queued \/ selected[c] \/ selected'[c])
    /\ UNCHANGED <<claim, gen, mw, applied, building, builtGens, status, errors,
                   passVars>>

\* kmmClusterClaimChanged: an update passes when the new cluster has the
\* kernel-versions claim and it differs from the old one. Every cluster here
\* has the claim.
ClusterClaimChanged(old, new) == old # new

\* A managed cluster's nodes boot other kernels and its kernel-versions
\* ClusterClaim changes. The update passes the predicate, and
\* FindManagedClusterModulesForCluster enqueues the ManagedClusterModule
\* when its selector matches the cluster's labels.
UpgradeCluster(c, k) ==
    /\ events < MaxEvents /\ k # claim[c]
    /\ events' = events + 1
    /\ claim' = [claim EXCEPT ![c] = k]
    /\ queued' = (queued \/ (ClusterClaimChanged(claim[c], k) /\ selected[c]))
    /\ UNCHANGED <<selected, gen, mw, applied, building, builtGens, status,
                   errors, passVars>>

\* The build and sign Jobs of a cluster finish; the Job event enqueues.
BuildCompletes(c) ==
    /\ building[c] # NoBuild
    /\ builtGens' = [builtGens EXCEPT ![c] = @ \cup {building[c]}]
    /\ building' = [building EXCEPT ![c] = NoBuild]
    /\ queued' = TRUE
    /\ UNCHANGED <<selected, claim, gen, mw, applied, status, errors, events, passVars>>

\* The work agent applies a ManifestWork; its status update enqueues.
AgentApplies(c) ==
    /\ mw[c] # NoMW /\ ~applied[c]
    /\ applied' = [applied EXCEPT ![c] = TRUE]
    /\ queued' = TRUE
    /\ UNCHANGED <<selected, claim, gen, mw, building, builtGens, status, errors,
                   events, passVars>>

Resync ==
    /\ ~queued /\ queued' = TRUE
    /\ UNCHANGED <<selected, claim, gen, mw, applied, building, builtGens, status,
                   errors, events, passVars>>

-----------------------------------------------------------------------------

Reconcile ==
    \/ StartPass
    \/ \E c \in Clusters : PickCluster(c)
    \/ EndLoop
    \/ BuildAndSign
    \/ CreateOrPatchManifestWork
    \/ GarbageCollectManifestWorks
    \/ GarbageCollectBuilds
    \/ UpdateStatus

Next ==
    \/ Reconcile \/ SkipCluster \/ ReturnError
    \/ EditSpec \/ Resync
    \/ \E c \in Clusters : RelabelCluster(c) \/ BuildCompletes(c) \/ AgentApplies(c)
    \/ \E c \in Clusters, k \in Claims : UpgradeCluster(c, k)

\* A started pass runs to its end and a queued request is taken; Jobs
\* finish and the agent applies. The resync is not assumed.
EventFairness ==
    /\ WF_vars(Reconcile)
    /\ \A c \in Clusters : WF_vars(BuildCompletes(c)) /\ WF_vars(AgentApplies(c))

Spec == Init /\ [][Next]_vars /\ EventFairness

SpecWithResync == Spec /\ WF_vars(Resync)

-----------------------------------------------------------------------------
(* Properties                                                              *)

\* A ManifestWork only ever carries a spec whose build and sign completed
\* for that cluster, across spec edits made while Jobs run.
ManifestWorkBuiltForItsGeneration ==
    \A c \in Clusters : mw[c] # NoMW => \E k \in Claims : <<mw[c], k>> \in builtGens[c]

EventuallyDeployed ==
    <>[](\A c \in Clusters : selected[c] => mw[c] = gen)
=============================================================================

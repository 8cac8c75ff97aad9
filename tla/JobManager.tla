----------------------------- MODULE JobManager -----------------------------
(***************************************************************************)
(* The build and sign Jobs of one Module.                                  *)
(*                                                                         *)
(* The job helper (utils.JobHelper) looks Jobs up by the labels            *)
(* {module name, target kernel, job type} and by owner; the build and sign *)
(* managers' Sync creates a Job when none exists, deletes it when its hash *)
(* annotation differs from the desired template's, and otherwise maps its  *)
(* counters to a status; GarbageCollect deletes the Jobs that succeeded.   *)
(* The cluster's Job controller runs a Job (BackoffLimit 0, Completions 1) *)
(* to success or failure; a successful Job pushes an image.                *)
(*                                                                         *)
(* jobhelper.go and the managers are not among the repository's sources   *)
(* here: their definitions follow spec.md 4.2, 4.3 and 4.5 and the tests   *)
(* utils/jobhelper_test.go and sign/job/manager_test.go. They list Jobs    *)
(* through the manager's client, which reads the informer cache; with      *)
(* JobCacheLags the cache may lag the API server (Jobs are named through   *)
(* GenerateName, signer.go:220, so a create is never refused as a repeat). *)
(***************************************************************************)
EXTENDS Naturals, FiniteSets

CONSTANTS
    Kernels,      \* kernel versions, after the "+" suffix is trimmed
    JobNames,     \* names the API server may generate for Jobs
    MaxGen,       \* bound on the number of edits of the Module spec
    SignKernels,  \* kernels whose resolved configuration has a sign section
    JobCacheLags  \* the Job informer cache may lag the API server

ASSUME SignKernels \subseteq Kernels
ASSUME MaxGen \in Nat /\ JobCacheLags \in BOOLEAN

Stages == {"build", "sign"}

\* The hash annotation of a Job template: the Module spec generation it was
\* computed from (a template changes exactly when the spec, or a signing key
\* folded into the hash, changes).
Gens == 0..MaxGen

\* The Job's counters: "pending" is a Job with all counters at zero (created,
\* no pod yet), "active" has Active > 0, "succeeded" Succeeded > 0, "failed"
\* Failed > 0.
JobPhases == {"pending", "active", "succeeded", "failed"}

Job == [name : JobNames, kernel : Kernels, stage : Stages,
        hash : Gens, phase : JobPhases]

VARIABLES
    jobs,     \* the Module's Job objects in the API server
    images,   \* kernels whose deployable image is in the registry
    built,    \* history: <<kernel, hash>> of every build Job that succeeded
    signed,   \* history: <<kernel, hash>> of every sign Job that succeeded
    jobCache  \* the informer's copy of the Jobs (used when JobCacheLags)

jobVars == <<jobs, images, built, signed, jobCache>>

JobTypeOK ==
    /\ jobs \subseteq Job
    /\ images \subseteq Kernels
    /\ built \subseteq Kernels \X Gens
    /\ signed \subseteq Kernels \X Gens
    /\ jobCache \subseteq Job

-----------------------------------------------------------------------------
(* Job helper and managers: operators the reconciler's steps are made of.  *)

\* The Jobs a List through the manager's client returns.
ListedJobs == IF JobCacheLags THEN jobCache ELSE jobs

\* GetModuleJobByKernel / GetModuleJobs: the listed Jobs labelled with the
\* kernel and the job type and owned by the Module.
ModuleJobsByKernel(k, s) == {j \in ListedJobs : j.kernel = k /\ j.stage = s}

\* The Jobs of a kernel and type that exist in the API server.
JobsOf(k, s) == {j \in jobs : j.kernel = k /\ j.stage = s}

\* Delete the Jobs of these names that still exist.
DeleteNamed(ns) == {j \in jobs : j.name \notin ns}

\* GetJobStatus: a Job with no counter set has no known status (an error).
JobStatus(j) ==
    CASE j.phase = "active"    -> "InProgress"
      [] j.phase = "succeeded" -> "Completed"
      [] j.phase = "failed"    -> "Failed"
      [] j.phase = "pending"   -> "Error"

\* The only Job of a key (used when there is exactly one).
TheJob(k, s) == CHOOSE j \in ModuleJobsByKernel(k, s) : TRUE

\* Mutation of SyncStatus: the hash annotation is not compared.
SyncStatusIgnoringHash(k, s, h) ==
    LET js == ModuleJobsByKernel(k, s) IN
    IF js = {} THEN "Created"
    ELSE IF Cardinality(js) > 1 THEN "Error"
    ELSE JobStatus(TheJob(k, s))

\* Sync's result for desired hash h: Created when no Job exists, an error
\* when more than one does, InProgress when the Job's hash differs (it is
\* deleted), the Job's status otherwise.
SyncStatus(k, s, h) ==
    LET js == ModuleJobsByKernel(k, s) IN
    IF js = {} THEN "Created"
    ELSE IF Cardinality(js) > 1 THEN "Error"
    ELSE IF TheJob(k, s).hash # h THEN "InProgress"
    ELSE JobStatus(TheJob(k, s))

FreeNames == JobNames \ {j.name : j \in jobs}

\* Mutation of SyncJobs: a changed Job is replaced by a new one without
\* deleting it first.
SyncJobsWithoutDelete(k, s, h) ==
    LET js == ModuleJobsByKernel(k, s) IN
    IF js = {} \/ (Cardinality(js) = 1 /\ TheJob(k, s).hash # h)
      THEN jobs \cup {[name |-> CHOOSE n \in FreeNames : TRUE, kernel |-> k,
                        stage |-> s, hash |-> h, phase |-> "pending"]}
      ELSE jobs

\* Sync's one write: CreateJob with a generated name, or DeleteJob of a Job
\* whose template changed, or nothing.
SyncJobs(k, s, h) ==
    LET js == ModuleJobsByKernel(k, s) IN
    CASE js = {} ->
            jobs \cup {[name |-> CHOOSE n \in FreeNames : TRUE, kernel |-> k,
                        stage |-> s, hash |-> h, phase |-> "pending"]}
      [] Cardinality(js) = 1 /\ TheJob(k, s).hash # h ->
            DeleteNamed({TheJob(k, s).name})
      [] OTHER -> jobs

\* Sync can write: CreateJob needs a name the API server can generate.
SyncEnabled(k, s) == ModuleJobsByKernel(k, s) = {} => FreeNames # {}

\* Mutation of GarbageCollectJobs: the Jobs are collected whatever their
\* status.
GarbageCollectAllJobs(s) ==
    DeleteNamed({j.name : j \in {c \in ListedJobs : c.stage = s}})

\* Mutation of GarbageCollectJobs: failed Jobs are collected too.
GarbageCollectFinishedJobs(s) ==
    DeleteNamed({j.name : j \in {c \in ListedJobs :
                   c.stage = s /\ c.phase \in {"succeeded", "failed"}}})

\* GarbageCollect: delete the Module's listed Jobs of one type that
\* succeeded.
GarbageCollectJobs(s) ==
    DeleteNamed({j.name : j \in {c \in ListedJobs :
                   c.stage = s /\ c.phase = "succeeded"}})

-----------------------------------------------------------------------------
(* The cluster's Job controller and the operator.                          *)

SetPhase(j, p) == (jobs \ {j}) \cup {[j EXCEPT !.phase = p]}

JobStarts(j) ==
    /\ j.phase = "pending"
    /\ jobs' = SetPhase(j, "active")
    /\ UNCHANGED <<images, built, signed, jobCache>>

\* The build Job pushes the deployable image unless the kernel is signed
\* afterwards (it then pushes the intermediate unsigned image); the sign
\* Job pushes the signed, deployable image (signer.go: -signedimage).
JobSucceeds(j) ==
    /\ j.phase = "active"
    /\ jobs' = SetPhase(j, "succeeded")
    /\ images' = IF j.stage = "sign" \/ j.kernel \notin SignKernels
                   THEN images \cup {j.kernel} ELSE images
    /\ built' = IF j.stage = "build" THEN built \cup {<<j.kernel, j.hash>>}
                                     ELSE built
    /\ signed' = IF j.stage = "sign" THEN signed \cup {<<j.kernel, j.hash>>}
                                     ELSE signed
    /\ UNCHANGED jobCache

\* BackoffLimit 0: the pod's first failure fails the Job.
JobFails(j) ==
    /\ j.phase = "active"
    /\ jobs' = SetPhase(j, "failed")
    /\ UNCHANGED <<images, built, signed, jobCache>>

\* A failed Job is retried only when someone deletes it by hand.
OperatorDeletesFailedJob(j) ==
    /\ j.phase = "failed"
    /\ jobs' = jobs \ {j}
    /\ UNCHANGED <<images, built, signed, jobCache>>

\* The Job informer delivers the API server's Jobs to the cache. Its sync
\* only matters to the next list, so it is taken where a pass starts: the
\* informer has caught up by then, or it has not.
JobCacheSync ==
    /\ jobCache' \in IF JobCacheLags THEN {jobCache, jobs} ELSE {jobCache}
    /\ UNCHANGED <<jobs, images, built, signed>>

\* Everything the Job controller does to the Job called n.
JobRuns(n) ==
    \E j \in jobs : j.name = n /\ (JobStarts(j) \/ JobSucceeds(j) \/ JobFails(j))
=============================================================================

---------------------------- MODULE JobLifecycle ----------------------------
(***************************************************************************)
(* What the build and sign machinery promises about the Jobs of a Module,  *)
(* whatever pass, manager or garbage collection makes the calls: each      *)
(* (kernel version, job type) has at most one Job at a time; a Job is      *)
(* created for a template that exists (the current spec or an older one);  *)
(* it runs once (pending, active, then succeeded or failed); and it goes   *)
(* away only when it succeeded, when its template is outdated, or when it  *)
(* failed (an operator deletes it). A Job of the current template that is  *)
(* still pending or running is never deleted.                              *)
(***************************************************************************)
EXTENDS Naturals

CONSTANTS Kernels, MaxGen

Stages == {"build", "sign"}
Gens == 0..MaxGen
Phases == {"none", "pending", "active", "succeeded", "failed"}

\* An empty slot: no Job of that kernel and type.
NoJob == [phase |-> "none", hash |-> 0]

VARIABLES
    slot,   \* per (kernel, stage): the Job's phase and template hash
    gen     \* the current template

vars == <<slot, gen>>

TypeOK ==
    /\ slot \in [Kernels \X Stages -> [phase : Phases, hash : Gens]]
    /\ gen \in Gens

Init ==
    /\ slot = [ks \in Kernels \X Stages |-> NoJob]
    /\ gen = 0

\* The Job controller moves a Job along pending -> active -> succeeded or
\* failed.
Progress == {<<"pending", "active">>, <<"active", "succeeded">>,
             <<"active", "failed">>}

\* A Job may go away once it succeeded or failed, or when its template is
\* outdated.
Removable(j) ==
    /\ j.phase # "none"
    /\ j.phase \in {"succeeded", "failed"} \/ j.hash < gen

\* What may happen to one slot in a step: a Job is created for the current
\* or an older template, runs on, or goes away.
SlotStep(old, new) ==
    \/ old.phase = "none" /\ new.phase = "pending" /\ new.hash <= gen
    \/ new.hash = old.hash /\ <<old.phase, new.phase>> \in Progress
    \/ Removable(old) /\ new = NoJob

\* One call may touch several slots (garbage collection deletes every
\* succeeded Job of a type at once); each changes by a SlotStep.
Change ==
    /\ LET s0 == slot
           s1 == slot'
       IN /\ DOMAIN s1 = DOMAIN s0
          /\ \A ks \in DOMAIN s0 : s1[ks] = s0[ks] \/ SlotStep(s0[ks], s1[ks])
    /\ UNCHANGED gen

Edit ==
    /\ gen < MaxGen
    /\ gen' = gen + 1
    /\ UNCHANGED slot

\* Change constrains slot' without naming it, so this specification is
\* checked as a property of implementations rather than run by itself.
Next == Change \/ Edit

Spec == Init /\ [][Next]_vars
=============================================================================

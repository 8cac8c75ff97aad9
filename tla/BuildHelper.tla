---------------------------- MODULE BuildHelper ----------------------------
(***************************************************************************)
(* internal/build/helper.go: GetRelevantBuild merges a Module's build      *)
(* section with a kernel mapping's, ApplyBuildArgOverrides the build       *)
(* arguments. A state is one call: its inputs and, once made, its result;  *)
(* the result is checked against a reference definition of the merge.    *)
(***************************************************************************)
EXTENDS Naturals, Sequences, SequencesExt, FiniteSets, TLC

CONSTANTS
    ArgNames,    \* build argument names, ordered as Go sorts strings (<)
    ArgValues,
    ConfigMaps,  \* Dockerfile ConfigMaps
    Secrets,
    NoCM,        \* DockerfileConfigMap is nil
    NilBuild,    \* a nil *Build
    NoResult,
    MaxArgs      \* bound on the length of an argument list

BuildArg == [name : ArgNames, value : ArgValues]
ArgLists == UNION {[1..n -> BuildArg] : n \in 0..MaxArgs}
Build == [dockerfile : ConfigMaps \cup {NoCM}, args : ArgLists,
          secrets : {<<>>} \cup {<<s>> : s \in Secrets}]

NamesOf(s) == {s[i].name : i \in DOMAIN s}

\* Mutation of the overrides map: an earlier override of a name is kept.
OverridesMapFirstWins(ov) ==
    FoldLeft(LAMBDA m, o : m @@ (o.name :> o), [n \in {} |-> n], ov)

\* overridesMap[o.Name] = o for each override in order: the last one wins.
OverridesMap(ov) ==
    FoldLeft(LAMBDA m, o : (o.name :> o) @@ m, [n \in {} |-> n], ov)

\* Replace the arguments that have an override in place, then append the
\* unused overrides in sorted name order.
ApplyBuildArgOverrides(args, ov) ==
    LET om     == OverridesMap(ov)
        unused == SetToSortSeq(DOMAIN om \ NamesOf(args), <)
    IN [i \in DOMAIN args |-> IF args[i].name \in DOMAIN om
                                THEN om[args[i].name] ELSE args[i]]
       \o [i \in DOMAIN unused |-> om[unused[i]]]

\* A nil side yields a copy of the other; otherwise the Module's build with
\* the mapping's Dockerfile ConfigMap if set, its arguments as overrides,
\* and its secrets appended.
GetRelevantBuild(moduleBuild, mappingBuild) ==
    IF moduleBuild = NilBuild THEN mappingBuild
    ELSE IF mappingBuild = NilBuild THEN moduleBuild
    ELSE [moduleBuild EXCEPT
            !.dockerfile = IF mappingBuild.dockerfile # NoCM
                             THEN mappingBuild.dockerfile ELSE @,
            !.args = ApplyBuildArgOverrides(@, mappingBuild.args),
            !.secrets = @ \o mappingBuild.secrets]

VARIABLES moduleBuild, mappingBuild, result

vars == <<moduleBuild, mappingBuild, result>>

TypeOK ==
    /\ moduleBuild \in Build \cup {NilBuild}
    /\ mappingBuild \in Build \cup {NilBuild}
    /\ result \in {NilBuild, NoResult}
                 \cup [dockerfile : ConfigMaps \cup {NoCM},
                       args : Seq(BuildArg), secrets : Seq(Secrets)]

Init ==
    /\ moduleBuild \in Build \cup {NilBuild}
    /\ mappingBuild \in Build \cup {NilBuild}
    /\ result = NoResult

Call ==
    /\ result = NoResult
    /\ result' = GetRelevantBuild(moduleBuild, mappingBuild)
    /\ UNCHANGED <<moduleBuild, mappingBuild>>

Spec == Init /\ [][Call]_vars

-----------------------------------------------------------------------------
(* Reference                                                               *)

\* How a list of build arguments reads, later ones taking precedence.
AsMap(s) ==
    [n \in NamesOf(s) |-> s[SelectLastInSeq(s, LAMBDA a : a.name = n)].value]

\* The merged arguments read as the Module's with the mapping's taking
\* precedence; the Module's arguments keep their positions, and every
\* name the Module lacks is added exactly once, however often the mapping
\* repeats it.
BuildArgsMerged ==
    result \notin {NoResult, NilBuild} /\ moduleBuild # NilBuild
        /\ mappingBuild # NilBuild
    => LET args == moduleBuild.args
           ov   == mappingBuild.args
           out  == result.args
       IN /\ AsMap(out) = AsMap(ov) @@ AsMap(args)
          /\ Len(out) = Len(args) + Cardinality(NamesOf(ov) \ NamesOf(args))
          /\ \A i \in DOMAIN args : out[i].name = args[i].name
=============================================================================

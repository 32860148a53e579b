------------------------- MODULE VersionReconciler -------------------------
(***************************************************************************)
(* The version reconciler of src/unnamed/part_000 (datafiles.go): a       *)
(* Require keeps its version either in Version or in Metadata["version"]; *)
(* convertMetadataToVersion and ConvertVersionToMetadata move it between   *)
(* the two, and hasInconsistentVersions tells the caller whether a       *)
(* require states two different versions.  The lifting of the predicates *)
(* over PlanSections and the `or` list is plain iteration and is left out.*)
(*                                                                         *)
(* Metadata is abstracted to its "version" entry: a nil map, a map        *)
(* without the entry, or the entry's value, a TOML value with a type and  *)
(* the text fmt.Sprintf("%v") makes of it.                                 *)
(***************************************************************************)
EXTENDS Naturals, Sequences

CONSTANTS
    Versions,     \* strings Require.Version may hold ("" is unset)
    MetaValues,   \* values of Metadata["version"]: [type, fmt]
    NilMap,       \* Metadata is a nil map
    NoEntry,      \* Metadata is a map without a "version" entry
    MaxRequires,  \* most requires in the top-level PlanSections
    MaxOr,        \* most sections in the `or` list
    MaxOrRequires \* most requires in one `or` section

ASSUME "" \in Versions

VARIABLE plan   \* the BuildPlan: [requires, or]

vars == <<plan>>

\* type Require, abstracted to Version and Metadata["version"].
Require == [version: Versions, metadata: {NilMap, NoEntry} \cup MetaValues]

Requires == UNION {[1..n -> Require] : n \in 0..MaxRequires}

\* type BuildPlan: a PlanSections and its `or` alternatives.
BuildPlans == [requires: Requires,
               or: UNION {[1..n -> UNION {[1..m -> Require] :
                                            m \in 0..MaxOrRequires}]
                          : n \in 0..MaxOr}]

HasEntry(r) == r.metadata \notin {NilMap, NoEntry}

\* fmt.Sprintf("%v", version)
Sprint(v) == v.fmt

\* Go's r.Version != version, with version an interface{}: a string
\* equals an interface value only when it holds a string.
GoNotEqual(s, v) == ~(v.type = "string" /\ v.fmt = s)

-----------------------------------------------------------------------------
(* Conversions.                                                            *)

\* Mutant of convertMetadataToVersion: the whole Metadata map is
\* formatted instead of its "version" entry.
convertMetadataToVersionWholeMap(r) ==
    IF HasEntry(r)
    THEN [r EXCEPT !.version = "map[version:" \o Sprint(r.metadata) \o "]"]
    ELSE r

convertMetadataToVersion(r) ==
    IF HasEntry(r) THEN [r EXCEPT !.version = Sprint(r.metadata)] ELSE r

\* Mutant of ConvertVersionToMetadata: Version is cleared before it is
\* copied into the metadata.
ConvertVersionToMetadataClearFirst(r) ==
    IF r.version # ""
    THEN [version |-> "", metadata |-> [type |-> "string", fmt |-> ""]]
    ELSE r

\* Version moves into Metadata["version"] (a nil map is made first).
ConvertVersionToMetadata(r) ==
    IF r.version # ""
    THEN [version |-> "",
          metadata |-> [type |-> "string", fmt |-> r.version]]
    ELSE r

(* Predicates.                                                             *)

hasInconsistentVersions(r) ==
    HasEntry(r) /\ r.version # "" /\ GoNotEqual(r.version, r.metadata)

-----------------------------------------------------------------------------
(* The caller converts requires of the plan one at a time.                *)

Init == plan \in BuildPlans

\* The two conversions, by name.
Convert(c, r) ==
    IF c = "toVersion" THEN convertMetadataToVersion(r)
                       ELSE ConvertVersionToMetadata(r)

\* Apply a conversion to the i-th require of the top-level section.
ConvertTop(c) ==
    \E i \in DOMAIN plan.requires :
        plan' = [plan EXCEPT !.requires[i] = Convert(c, @)]

\* Apply a conversion to the i-th require of the s-th `or` section.
ConvertOr(c) ==
    \E s \in DOMAIN plan.or : \E i \in DOMAIN plan.or[s] :
        plan' = [plan EXCEPT !.or[s][i] = Convert(c, @)]

Next ==
    \/ ConvertTop("toVersion")
    \/ ConvertTop("toMetadata")
    \/ ConvertOr("toVersion")
    \/ ConvertOr("toMetadata")
    \/ UNCHANGED vars   \* a plan with no requires: nothing to convert

Spec == Init /\ [][Next]_vars

-----------------------------------------------------------------------------
(* Properties.                                                             *)

TypeOK == plan \in BuildPlans

\* The version a require states: Version if set, else the metadata's.
StatedVersion(r) ==
    IF r.version # "" THEN r.version
    ELSE IF HasEntry(r) THEN Sprint(r.metadata) ELSE ""

Preserves(r, r2) ==
    ~hasInconsistentVersions(r) => StatedVersion(r2) = StatedVersion(r)

\* The conversion a step applies to a require never changes the version
\* that require states, if it was consistent: moving the version between
\* Version and Metadata["version"], in either direction, keeps its text.
VersionPreserved ==
    [][/\ \A i \in DOMAIN plan.requires :
            Preserves(plan.requires[i], plan'.requires[i])
       /\ \A s \in DOMAIN plan.or : \A i \in DOMAIN plan.or[s] :
            Preserves(plan.or[s][i], plan'.or[s][i])
      ]_vars

AllRequires(bp) ==
    {bp.requires[i] : i \in DOMAIN bp.requires}
    \cup UNION {{bp.or[s][i] : i \in DOMAIN bp.or[s]} : s \in DOMAIN bp.or}

\* spec.md sections 4.4 and 8: a require has inconsistent versions iff
\* both are set and their string forms differ.  The code compares the
\* string Version with the interface{} metadata value.
InconsistentIffTextsDiffer ==
    \A r \in AllRequires(plan) :
        hasInconsistentVersions(r) <=>
            (HasEntry(r) /\ r.version # "" /\ r.version # Sprint(r.metadata))

=============================================================================

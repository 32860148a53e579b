---------------------------- MODULE BuildpackPlan ----------------------------
(***************************************************************************)
(* The buildpack plan functions of src/unnamed/part_000 (datafiles.go):    *)
(* Plan.filter drops the entries whose name build.toml lists as unmet,     *)
(* Plan.toBOM turns the remaining entries into BOM entries, and the        *)
(* BOMEntry methods move a version between Version and Metadata["version"] *)
(* as the phases that write the BOM do.  A require is the reconciler's     *)
(* Require (VersionReconciler) with its name.                              *)
(***************************************************************************)
EXTENDS Naturals, Sequences

CONSTANTS
    Names,       \* names of requires and of unmet entries
    Versions,    \* strings Require.Version may hold ("" is unset)
    MetaValues,  \* values of Metadata["version"]: [type, fmt]
    NilMap,      \* Metadata is a nil map
    NoEntry,     \* Metadata is a map without a "version" entry
    MaxEntries,  \* most entries in the plan
    MaxUnmet     \* most entries in build.toml's unmet list

R == INSTANCE VersionReconciler
         WITH plan <- [requires |-> <<>>, or |-> <<>>],
              MaxRequires <- 0, MaxOr <- 0, MaxOrRequires <- 0

VARIABLES
    planned,  \* the Plan as the buildpack plan file gave it
    unmet,    \* the names of BuildTOML.Unmet
    plan,     \* the Plan after filtering
    bom,      \* the []BOMEntry made from it
    pc        \* "read", "filtered" or "bom"

vars == <<planned, unmet, plan, bom, pc>>

\* type Require, with its name.
Require == [name: Names, version: Versions,
            metadata: {NilMap, NoEntry} \cup MetaValues]

Plans == UNION {[1..n -> Require] : n \in 0..MaxEntries}

Unmets == UNION {[1..n -> Names] : n \in 0..MaxUnmet}

\* The zero GroupElement: the BOM entry's buildpack is not yet known.
ZeroGroupElement == ""

-----------------------------------------------------------------------------
(* The plan functions.                                                     *)

\* Mutant of containsName: the loop stops before the last unmet entry.
containsNameSkipLast(u, name) == \E i \in 1..(Len(u) - 1) : u[i] = name

containsName(u, name) == \E i \in DOMAIN u : u[i] = name

\* The loop of Plan.filter: append each entry whose name is not unmet.
RECURSIVE filterLoop(_, _, _)
filterLoop(entries, u, out) ==
    IF entries = <<>> THEN out
    ELSE filterLoop(Tail(entries), u,
                    IF containsName(u, Head(entries).name) THEN out
                    ELSE Append(out, Head(entries)))

filter(p, u) == filterLoop(p, u, <<>>)

BOMEntry(r) == [name |-> r.name, version |-> r.version,
                metadata |-> r.metadata, buildpack |-> ZeroGroupElement]

\* Mutant of toBOM: each entry is prepended instead of appended.
toBOMReversed(p) == [i \in DOMAIN p |-> BOMEntry(p[Len(p) + 1 - i])]

toBOM(p) == [i \in DOMAIN p |-> BOMEntry(p[i])]

\* Mutant of ConvertMetadataToVersion: the whole Metadata map is
\* formatted instead of its "version" entry.
ConvertMetadataToVersionWholeMap(b) ==
    IF R!HasEntry(b)
    THEN [b EXCEPT !.version = "map[version:" \o R!Sprint(b.metadata) \o "]"]
    ELSE b

\* BOMEntry.ConvertMetadataToVersion.
ConvertMetadataToVersion(b) ==
    IF R!HasEntry(b) THEN [b EXCEPT !.version = R!Sprint(b.metadata)] ELSE b

\* BOMEntry.convertVersionToMetadata: a nil map is made first.
convertVersionToMetadata(b) ==
    IF b.version # ""
    THEN [b EXCEPT !.metadata = [type |-> "string", fmt |-> b.version],
                   !.version = ""]
    ELSE b

-----------------------------------------------------------------------------
(* The phase that writes the BOM: filter, project, then convert entries.   *)

Init ==
    /\ planned \in Plans
    /\ unmet \in Unmets
    /\ plan = planned
    /\ bom = <<>>
    /\ pc = "read"

Filter ==
    /\ pc = "read"
    /\ plan' = filter(plan, unmet)
    /\ pc' = "filtered"
    /\ UNCHANGED <<planned, unmet, bom>>

ToBOM ==
    /\ pc = "filtered"
    /\ bom' = toBOM(plan)
    /\ pc' = "bom"
    /\ UNCHANGED <<planned, unmet, plan>>

ConvertBOM(i, c) ==
    /\ pc = "bom"
    /\ bom' = [bom EXCEPT ![i] = IF c = "toVersion"
                                   THEN ConvertMetadataToVersion(@)
                                   ELSE convertVersionToMetadata(@)]
    /\ UNCHANGED <<planned, unmet, plan, pc>>

Done ==
    /\ pc = "bom"
    /\ UNCHANGED vars

Next ==
    \/ Filter
    \/ ToBOM
    \/ \E i \in DOMAIN bom, c \in {"toVersion", "toMetadata"} : ConvertBOM(i, c)
    \/ Done

Spec == Init /\ [][Next]_vars

-----------------------------------------------------------------------------
(* Properties.                                                             *)

TypeOK ==
    /\ planned \in Plans /\ unmet \in Unmets /\ plan \in Plans
    /\ bom \in Seq([name: Names, version: Versions,
                    metadata: {NilMap, NoEntry} \cup MetaValues
                              \cup [type: {"string"}, fmt: Versions],
                    buildpack: {ZeroGroupElement}])
    /\ pc \in {"read", "filtered", "bom"}

UnmetNames == {unmet[i] : i \in DOMAIN unmet}

IsMet(r) == r.name \notin UnmetNames

\* spec.md section 8: Plan.filter keeps exactly the entries whose name is
\* not unmet, in their original order, every unmet name removing all the
\* entries that carry it, wherever it sits in the unmet list.
FilterKeepsMetEntries == pc # "read" => plan = SelectSeq(planned, IsMet)

\* The BOM written after any sequence of BOMEntry conversions lists the
\* filtered plan's entries in order, with an empty buildpack, and states
\* the version each consistent entry of the plan stated.
BOMStatesPlanVersions ==
    pc = "bom" =>
        /\ Len(bom) = Len(plan)
        /\ \A i \in DOMAIN plan :
              /\ bom[i].name = plan[i].name
              /\ bom[i].buildpack = ZeroGroupElement
              /\ ~R!hasInconsistentVersions(plan[i])
                    => R!StatedVersion(bom[i]) = R!StatedVersion(plan[i])

=============================================================================

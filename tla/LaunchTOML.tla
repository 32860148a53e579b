----------------------------- MODULE LaunchTOML -----------------------------
(***************************************************************************)
(* The launch descriptor decoder of src/unnamed/part_000 (datafiles.go):  *)
(* DecodeLaunchTOML reads launch.toml under a buildpack API, migrating    *)
(* the process command from a string (API < 0.9) to a list of strings and *)
(* normalising `direct`; ToLaunchProcessesForBuildpack turns the decoded   *)
(* process entries into launch processes.                                  *)
(*                                                                         *)
(* A process entry on disk is abstracted to its type, its `command` value  *)
(* (absent, a TOML string or a TOML array of strings) and its `direct`     *)
(* key (absent, true or false).  Args, default and working-dir are copied  *)
(* field for field by every step and are left out.                         *)
(***************************************************************************)
EXTENDS Naturals, Sequences, APIVersion

CONSTANTS
    APIs,          \* buildpack API versions, pairs <<major, minor>>
    ProcTypes,     \* process types
    CmdStrings,    \* TOML strings a command may be
    CmdLists,      \* TOML arrays of strings a command may be
    MaxProcs,      \* most processes in one launch.toml
    Prior,         \* the process lists the caller's LaunchTOML may hold
    NoValue,       \* an absent key, Go's nil
    NoFile,        \* launch.toml does not exist
    Malformed      \* launch.toml is not valid TOML

ASSUME "" \in CmdStrings /\ <<>> \in CmdLists

VARIABLES
    file,        \* the content of launch.toml
    pc,          \* "idle", "decoded", "failed" or "launched"
    api,         \* the buildpack API the file was decoded under
    launchTOML,  \* the LaunchTOML the caller passed in, after the call
    err,         \* the error DecodeLaunchTOML returned
    processes    \* the launch.Process list of the buildpack

vars == <<file, pc, api, launchTOML, err, processes>>

Commands == [kind: {"string"}, val: CmdStrings]
            \cup [kind: {"array"}, val: CmdLists]
            \cup [kind: {"absent"}, val: {NoValue}]

DirectVals == {NoValue, TRUE, FALSE}

\* A [[processes]] table of launch.toml.
FileProcs == [type: ProcTypes, command: Commands, direct: DirectVals]

Docs == UNION {[1..n -> FileProcs] : n \in 0..MaxProcs}
Files == {NoFile, Malformed} \cup Docs

Words == CmdStrings \cup UNION {{l[i] : i \in DOMAIN l} : l \in CmdLists}

\* type ProcessEntry: Command is derived, RawCommandValue decoded.
ProcessEntry == [type: ProcTypes, command: Seq(Words), raw: Seq(Words),
                 direct: DirectVals]

LaunchProcess == [type: ProcTypes, command: Seq(Words), direct: BOOLEAN]

Errs == {"none", "notFound", "syntaxAtPosition", "typeMismatch",
         "directNotSupported"}

-----------------------------------------------------------------------------
(* Decoding.                                                               *)

\* The TOML decode of `command` into the Go string of ProcessEntryBeforeV9.
DecodeStringCommand(c) ==
    CASE c.kind = "string" -> [ok |-> TRUE, val |-> c.val]
      [] c.kind = "absent" -> [ok |-> TRUE, val |-> ""]
      [] OTHER             -> [ok |-> FALSE, val |-> ""]

\* The TOML decode of `command` into the []string of ProcessEntry.
DecodeListCommand(c) ==
    CASE c.kind = "array"  -> [ok |-> TRUE, val |-> c.val]
      [] c.kind = "absent" -> [ok |-> TRUE, val |-> <<>>]
      [] OTHER             -> [ok |-> FALSE, val |-> <<>>]

\* Mutant of WrapRawCommand: the empty string is wrapped as well.
WrapRawCommandAlways(s) == <<s>>

\* The shim of a string command into the list form; "" stays empty.
WrapRawCommand(s) == IF s = "" THEN <<>> ELSE <<s>>

\* ProcessEntryBeforeV9 converted to ProcessEntry (Command left nil).
ShimProcess(p) ==
    [type |-> p.type, command |-> <<>>,
     raw |-> WrapRawCommand(DecodeStringCommand(p.command).val),
     direct |-> p.direct]

\* ProcessEntry decoded natively under API >= 0.9.
NativeProcess(p) ==
    [type |-> p.type, command |-> <<>>,
     raw |-> DecodeListCommand(p.command).val, direct |-> p.direct]

\* Legacy processes: an absent `direct` defaults to false.
LegacyDirect(d) == IF d = NoValue THEN FALSE ELSE d

\* API >= 0.9: `direct` may not appear at all.
DirectAllowed(d) == d = NoValue

\* The loop after the decode.  Legacy: default `direct`, set Command.
\* Otherwise: set Command until the first process with a `direct` key,
\* where the loop returns its error, leaving the rest untouched.
Normalise(procs, legacy) ==
    IF legacy
    THEN [ok |-> TRUE,
          procs |-> [i \in DOMAIN procs |->
                       [procs[i] EXCEPT !.direct = LegacyDirect(procs[i].direct),
                                        !.command = procs[i].raw]]]
    ELSE LET bad == {i \in DOMAIN procs : ~DirectAllowed(procs[i].direct)}
             stop == IF bad = {} THEN Len(procs) + 1
                     ELSE CHOOSE i \in bad : \A j \in bad : i <= j
         IN  [ok |-> bad = {},
              procs |-> [i \in DOMAIN procs |->
                           IF i < stop
                           THEN [procs[i] EXCEPT !.command = procs[i].raw]
                           ELSE procs[i]]]

-----------------------------------------------------------------------------
(* The lifecycle's calls for one buildpack.                                *)

Init ==
    /\ file \in Files            \* whatever the buildpack wrote
    /\ pc = "idle"
    /\ api = NoValue
    /\ launchTOML \in Prior       \* what the caller's *LaunchTOML holds
    /\ err = "none"
    /\ processes = <<>>

\* DecodeLaunchTOML(launchPath, bpAPI, &launchTOML).
DecodeLaunchTOML(a) ==
    LET commandsAreStrings == LessThan(a, <<0, 9>>)
        typeOK == \A i \in DOMAIN file :
                     IF commandsAreStrings
                     THEN DecodeStringCommand(file[i].command).ok
                     ELSE DecodeListCommand(file[i].command).ok
        decoded == [i \in DOMAIN file |->
                       IF commandsAreStrings THEN ShimProcess(file[i])
                                             ELSE NativeProcess(file[i])]
        \* Legacy: each shimmed process is appended to the caller's list.
        \* From 0.9 go-toml decodes into the caller's list, which outside
        \* this repository either replaces or extends what it held.
        merged == IF commandsAreStrings THEN {launchTOML \o decoded}
                  ELSE {decoded, launchTOML \o decoded}
    IN
    /\ pc = "idle"
    /\ api' = a
    /\ \/ /\ file = NoFile
          /\ err' = "notFound"
          /\ UNCHANGED launchTOML
       \/ /\ file = Malformed
          /\ err' = "syntaxAtPosition"
          /\ UNCHANGED launchTOML
       \/ /\ file \in Docs
          /\ ~typeOK
          /\ err' = "typeMismatch"
          /\ UNCHANGED launchTOML
       \/ /\ file \in Docs
          /\ typeOK
          /\ \E m \in merged :
                LET norm == Normalise(m, commandsAreStrings)
                IN  /\ launchTOML' = norm.procs
                    /\ err' = IF norm.ok THEN "none" ELSE "directNotSupported"
    /\ pc' = IF err' = "none" THEN "decoded" ELSE "failed"
    /\ UNCHANGED <<file, processes>>

\* Mutant of ToLaunchProcess: `direct` is dereferenced without a nil check.
ToLaunchProcessNoDefault(p) ==
    [type |-> p.type, command |-> p.command, direct |-> p.direct]

\* ProcessEntry.ToLaunchProcess: an unset `direct` means a direct process.
ToLaunchProcess(p) ==
    [type |-> p.type, command |-> p.command,
     direct |-> IF p.direct = NoValue THEN TRUE ELSE p.direct]

\* LaunchTOML.ToLaunchProcessesForBuildpack, called on a decoded file.
ToLaunchProcessesForBuildpack ==
    /\ pc = "decoded"
    /\ processes' = [i \in DOMAIN launchTOML |-> ToLaunchProcess(launchTOML[i])]
    /\ pc' = "launched"
    /\ UNCHANGED <<file, api, launchTOML, err>>

\* The buildpack's step ends here, with or without an error.
Done ==
    /\ pc \in {"failed", "launched"}
    /\ UNCHANGED vars

Next ==
    \/ \E a \in APIs : DecodeLaunchTOML(a)
    \/ ToLaunchProcessesForBuildpack
    \/ Done

Spec == Init /\ [][Next]_vars

-----------------------------------------------------------------------------
(* Properties.                                                             *)

TypeOK ==
    /\ file \in Files
    /\ pc \in {"idle", "decoded", "failed", "launched"}
    /\ api \in APIs \cup {NoValue}
    /\ launchTOML \in Seq(ProcessEntry)
    /\ err \in Errs
    /\ processes \in Seq(LaunchProcess)

\* What spec.md section 4.3 says a process on disk becomes once launched:
\* the command string wrapped into a list (empty stays empty) or the list
\* itself, and `direct` false by default before 0.9, always true from 0.9.
Expected(p) ==
    IF LessThan(api, <<0, 9>>)
    THEN [type |-> p.type,
          command |-> IF p.command.kind = "string" /\ p.command.val # ""
                      THEN <<p.command.val>> ELSE <<>>,
          direct |-> IF p.direct = NoValue THEN FALSE ELSE p.direct]
    ELSE [type |-> p.type,
          command |-> IF p.command.kind = "array" THEN p.command.val ELSE <<>>,
          direct |-> TRUE]

\* The launch processes of a buildpack are its launch.toml processes, in
\* order, each with the command shape migrated and `direct` resolved as
\* DecodeLaunchTOML and ToLaunchProcess together must do it.
LaunchedProcessesMatchFile ==
    pc = "launched" =>
        /\ Len(processes) = Len(file)
        /\ \A i \in DOMAIN file : processes[i] = Expected(file[i])

=============================================================================

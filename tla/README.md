# TLA+ models of the lifecycle data-file codec

This directory holds TLA+ models of the versioned metadata codec in
`src/`. The codec reads and writes the TOML files that the phases of a
buildpack build hand to one another. Each module is translated from the Go
source. `PROJECT.json` maps each definition to the lines it models.

## 1. Inventory

### Components

| Component | Source | State it keeps | Operations |
|---|---|---|---|
| Layer metadata codec | `src/buildpack/layermetadata.go` | the file `<layer>.toml` on disk; a call keeps open file handles, the chosen encoderDecoder and the advisory it has computed | `EncodeLayerMetadataFile`, `DecodeLayerMetadataFile`, default and legacy `IsSupported`/`Encode`/`Decode`, `supportedEncoderDecoders` |
| Schema violation detector | same file, `typesInTopLevel` | a handle of its own while it reads | shallow scan of the top-level keys |
| Launch descriptor decoder | `src/unnamed/part_000` (datafiles.go) lines 17-155 | `launch.toml`; the `LaunchTOML` the caller passes in | `DecodeLaunchTOML`, `ProcessEntry.ToLaunchProcess`, `LaunchTOML.ToLaunchProcessesForBuildpack` |
| Version/metadata reconciler | part_000 lines 157-317 | a `Require`'s `Version` and `Metadata["version"]` in a `BuildPlan` and in BOM entries | `convertMetadataToVersion`, `ConvertVersionToMetadata`, the `BOMEntry` copies of both, `hasInconsistentVersions` |
| Plan filtering and BOM projection | part_000 lines 326-357 | a buildpack `Plan` | `Plan.filter`, `Plan.toBOM`, `containsName` |
| Structured-config decode primitive (not modelled) | `src/internal/toml/utils.go` | one handle | `DecodeFile` (no caller in this repository) |
| Data file types | part_000 (`BuildTOML`, `StoreTOML`, `LayersMetadata`, ...) | none | declarations only |
| Release workflow | `src/unnamed/part_001` | GitHub release state | a CI workflow of network calls |

### How the components interact

All calls are synchronous. The lifecycle phases, which are outside this
repository, call the codecs with the buildpack API version. The codecs pick
one of two strategies by that version: a threshold of 0.6 for layer metadata
and 0.9 for launch.toml. The version comparison (`api.MustParse(...).AtLeast`
and `LessThan`) lives in a package outside `src/`. `APIVersion.tla` models it
from the spec as a lexicographic order on `<<major, minor>>`.

The files are the only shared state, and the phases share them one after
another:
- a buildpack writes `<layer>.toml` and `launch.toml`;
- the builder decodes both;
- a later phase may write layer metadata back with `EncodeLayerMetadataFile`;
- the next build decodes it again, perhaps under another buildpack API.

The reconciler and the plan functions are pure. The phases use them on
decoded plans and BOMs.

### What is hard

The code has no concurrency, so the difficulty is in sequences and in
version skew:
- a file written under one API and read under another;
- a flag at the place the other strategy does not read;
- an error met by the first of several reads of the same file;
- the file handles held across the three opens of one decode;
- an early return halfway through a loop;
- a conversion that changes the TOML type of a version;
- `os.Create` truncating a file before the encoder has run;
- an open that fails after an earlier open of the same call succeeded;
- a caller's value that the decoder extends rather than replaces.

`PROJECT.json` lists each hazard at its source line, with the properties
that cover it.

### What makes each component correct

- **Layer codec:**
  - a flag the API's decoder ignores is never dropped without an advisory;
  - decoding what the codec encoded keeps the data under any pair of APIs;
  - the flags survive only a legacy-to-legacy round trip;
  - every exit path releases its handles;
  - syntax errors carry a position (spec §4.1);
  - one handle per call (spec §5);
  - the step-by-step calls implement the one-step contract;
  - a file left by an interrupted encode is not decoded silently as empty
    (spec §1).
- **Launch decoder:**
  - each launched process is its file entry with the command migrated and
    `direct` resolved (spec §4.3), so a `direct` key accepted from 0.9
    would show as a process that is not direct;
  - the result depends on the file alone, not on what the caller's value
    held (spec §6).
- **Reconciler:**
  - conversions keep the stated version of a consistent require;
  - inconsistent means the string forms differ (spec §4.4).
- **Plan/BOM:**
  - `filter` keeps exactly the met entries, in order;
  - `toBOM` preserves order and gives an empty buildpack identity, and the
    BOM conversions keep each consistent entry's stated version.

## 2. Modules

### `LayerDocs.tla`, `LayerMetadata.tla`, `LayerCodec.tla` (with `APIVersion.tla`)

`LayerDocs` holds the data and the pure parts of the codec. A TOML document
is abstracted to the keys the codec tells apart:
- the three flags at the top level;
- the `types` table;
- the opaque `metadata` value.

Each key is absent (`NoValue`), a boolean, or of the wrong TOML type
(`BadValue`). `NoFile` and `Malformed` are the missing file and a file that
is not TOML. The module also defines the strategy selection, the two
encoders, the shallow scan and the two typed decodes.

`LayerMetadata` splits a call at the points where the code opens or closes
the file:

| Action | Code |
|---|---|
| `DecodeLayerMetadataFile(a)` | `os.Open`, missing-file return, decoder selection (lines 37-54) |
| `TypesInTopLevelOpen` / `TypesInTopLevelDecode` | `typesInTopLevel` and the advisory the decoder derives from it (98-105, 129-148, 162-169) |
| `DecoderReopen` | the decoder's second `os.OpenFile` (107-111 / 172-176) |
| `DecoderDecode` | typed decode, error annotation, return with deferred closes (113-123 / 178-187) |
| `EncodeLayerMetadataFile(v, a)` | `os.Create`, which truncates (20-25) |
| `EncoderEncode` | encoder selection, write, deferred close (27-34) |
| `DecodeOpenFails(a)` | `os.Open` fails with an error other than NotExist (41-42) |
| `TypesInTopLevelOpenFails` | the scan's `os.OpenFile` fails; the decoder returns before any advisory (129-132, 98-100 / 161-163) |
| `DefaultReopenFails` / `LegacyReopenFails` | the decoder's own `os.OpenFile` fails after the scan (107-110 / 172-175); the default decoder returns the advisory, the legacy one `""` |
| `EncodeCreateFails(a)` | `os.Create` fails and nothing is truncated (21-23) |
| `Crash` | the process is killed in the middle of a call: the OS closes the handles and the call never returns; killed between `os.Create` and the write the file stays empty, killed during the write it is a torn, unparsable prefix |

A value of the wrong type is modelled as go-toml v2 reports it: a plain
type-mismatch error, which the decoders pass on without a position. An
encoder omits a nil `Data`.

The failure actions stand for whatever the file system refuses (a
permission, the descriptor limit, a file removed by another process). They
form `IOFailure`, which `Next` includes and `NormalNext` does not. `msg` is
the decoder's local advisory and starts empty in every call.

`handles` counts the open file handles. `written` records whether the file
on disk came from the buildpack, from a completed encode (and of what, under
which API), or from a truncation. `Init` is any file the buildpack may have
left.

`LayerCodec` is the abstract specification: one step per call.
- `Decode(a)` sets the result to `DecodeResult(file, a)`.
- `Encode(v, a)` replaces the file by `Written(v, a)`.

It has no handles and no intermediate state. Syntax errors form one class.
`LayerMetadata!Refinement` instantiates it with a refinement mapping:
- a call takes effect when it starts;
- while a decode runs, the abstract result is already the `DecodeResult`
  it must return;
- while an encode runs, the abstract file is already what the encoder will
  write;
- `handles`, `pc`, `codec`, `msg` and `op` are hidden.

The intermediate steps are therefore stuttering steps of `LayerCodec`, and
each `Return` must produce exactly the promised result.

### `LaunchTOML.tla`

A process on disk has:
- a type;
- a `command` that is absent, a string or an array;
- a `direct` key that is absent, true or false.

`DecodeLaunchTOML(a)` is the whole function (lines 56-124). It covers the
open error, the syntax error and the type mismatch when a command's shape
does not fit the API. Before 0.9 it applies the string-to-list shim, which
keeps `""` empty. It then runs the normalisation loop, which stops at the
first process with a `direct` key from 0.9 on and leaves the earlier
processes with `Command` set. `ToLaunchProcessesForBuildpack` maps
`ToLaunchProcess` over the result.

The caller passes a `*LaunchTOML`, which `Init` takes from the constant
`Prior`. Before 0.9 each shimmed process is appended to what it holds, and
the normalisation loop then runs over the whole list. From 0.9 go-toml
decodes into it. Whether go-toml then replaces or extends a non-empty list
is decided outside `src/`, so the model allows both.

### `VersionReconciler.tla`

`Metadata` is abstracted to its `"version"` entry:
- a nil map;
- a map without the entry;
- a value with its TOML type and its `%v` text.

`GoNotEqual` models Go's comparison of a `string` with an `interface{}`. The
state is a whole `BuildPlan`: its requires and its `or` sections. Each step
applies one conversion to one require, as the phases do.

### `BuildpackPlan.tla`

The phase that writes a BOM takes three steps:
1. `Filter` runs `Plan.filter` with build.toml's unmet names. The loop is
   the RECURSIVE `filterLoop`, which calls `containsName`.
2. `ToBOM` runs `Plan.toBOM`.
3. `ConvertBOM(i, c)` applies a `BOMEntry` conversion to one entry, in any
   number and order.

A require is the reconciler's `Require` with a name. The module takes the
reconciler's `HasEntry`, `Sprint`, `hasInconsistentVersions` and
`StatedVersion` by `INSTANCE VersionReconciler`. `planned` keeps the plan
as read, so that `filter` can be checked against the reference definition
`SelectSeq(planned, IsMet)`.

### Runs

| Run | Checks | Result |
|---|---|---|
| `layer_codec` | `TypeOK`, `NoSilentFlagLoss`, `RoundTrip`, `HandlesReleased`, with `Crash` and every `IOFailure` possible at every step | pass, about 1.8M states, 80 s |
| `layer_refinement` | `Refinement` (LayerCodec's `Spec`), under `NormalSpec` | pass, about 250k states |
| `layer_single_handle` | `SingleHandlePerCall` (spec §5) | violation: two handles open during the scan |
| `layer_syntax_position` | `SyntaxErrorHasPosition` (spec §4.1, §7) | violation: the scan returns the syntax error unannotated |
| `layer_interrupted_encode` | `InterruptedEncodeIsNoticed` (spec §1) | violation: encode, kill after `os.Create`, decode returns the zero value with no error and no advisory |
| `launch_decode` | `TypeOK`, `LaunchedProcessesMatchFile`, with a zero `LaunchTOML` from the caller | pass |
| `launch_reused` | `LaunchedProcessesMatchFile` with a caller `LaunchTOML` that already holds a process (spec §6) | violation: under API 0.8 the held process is launched with the file's own |
| `reconciler` | `TypeOK`, `VersionPreserved` (action property) | pass, about 130k states |
| `reconciler_inconsistent` | `InconsistentIffTextsDiffer` (spec §4.4) | violation: `Version = "1"` with metadata float `1.0` (or `"2"` with integer `2`) is flagged inconsistent |
| `plan_bom` | `TypeOK`, `FilterKeepsMetEntries`, `BOMStatesPlanVersions` | pass, about 470k states |

For each property of a passing run, `PROJECT.json` lists a mutant: a
plausible bug in a mapped definition that TLC catches. Examples:
- a decoder kept from the first call breaks `Refinement`;
- a `containsName` loop that skips the last unmet entry breaks
  `FilterKeepsMetEntries`.

### Bounds and why they are enough

**Layer codec:**
- APIs 0.5 and 0.6 sit on both sides of the only threshold.
- All 4^3 top-level flag combinations are checked, with all 66 shapes of
  `types`, data absent or present, plus the missing and the malformed file.
- Three calls cover encode then decode in both orders, a
  decode-encode-decode sequence, and a kill followed by two more calls.
- The refinement run uses two calls. That covers each call alone and an
  encode followed by a decode under both APIs, which is where a strategy
  kept from an earlier call would show.

**Launch decoder:**
- APIs 0.8 and 0.9.
- Up to two processes, so that a `direct` key can sit on the second one
  after a valid first one.
- Commands are `""`, a non-empty string, and arrays of length 0, 1 and 2.

**Reconciler:**
- Versions `""`, `"1"` and `"2"`.
- Metadata versions: the strings `"1"` and `"2"`, the integer 2 and the
  float 1.0.
- Up to two top-level requires and two `or` sections of one require each,
  so that conversions apply at both places a require can sit.

**Plan/BOM:**
- Two names and up to three entries, so that a name can repeat.
- An unmet list of up to two names: an empty list, a repeated name, and a
  name at its last position.
- Versions `""` and `"1"`; metadata versions string, integer and float
  `1`, so that a conversion can make an entry inconsistent.

### Fairness and liveness

No run assumes fairness or checks a liveness property. Each call is a
short chain of straight-line steps with no loop and no wait, so "every
started call returns" would hold whatever the code did. The models end in
a stuttering `Terminated` or `Done` step once the bounded calls are made,
because the lifecycle exits at that point.

## 3. Not modelled, and why

- `src/unnamed/part_001` is a release workflow of network calls: pure I/O.
- The data type declarations have no operations.
- The callers of `Plan.filter`/`toBOM` and of the reconciler are outside
  the repository. They are modelled from the spec and marked
  `spec_modelled` in the map.
- `toml.DecodeFile` (utils.go) is one open, one decode and one deferred
  close in straight-line code, with no caller here. Every property stated
  of it only restated its two definitions. Its annotation of a
  `*DecodeError` is the same logic `DecoderDecode` models in
  `LayerMetadata`.
- The lifting of the `has...Versions` and `hasRequires` predicates over
  `PlanSections` and `planSectionsList` is plain iteration. The properties
  stated of it held by the shape of an existential, so it is left out.
- Concurrent writers of one file during a call are excluded. Spec §1 and
  §5 leave them to the phase ordering, and spec §9 prescribes the two
  independent reads.
- The error of the encoder's own write (layermetadata.go line 31) is left
  out. A kill during the write is modelled only as an unparsable file,
  never as a prefix that still parses.
- The `launch.Process` fields that are only copied (args, default,
  working-dir, buildpack ID) and the text of messages are left out.

## 4. Where the project stops

- **Composition of phases.** The components touch only through files that
  the phases, outside this repository, read and write in sequence.
  A module chaining decode, re-encode and BOM writing would be
  modelled from the spec alone and would check nothing the per-component
  runs do not.
- **Larger instances.** The only thresholds are 0.6 and 0.9, and the runs
  take a version on each side of each. A major version such as `<<1, 0>>`
  would exercise only `APIVersion`, which is modelled from the spec.
- **A launch decoder refinement.** `DecodeLaunchTOML` is a single step in
  the model. An abstract "result is a function of the file and the API"
  specification would restate `LaunchedProcessesMatchFile`, which
  `launch_reused` already shows to depend on the caller's value.
- **Coverage.** The map leaves out `utils.go`, the predicate lifting and
  the imports, declarations, comments and blank lines of the other files.

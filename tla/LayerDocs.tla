----------------------------- MODULE LayerDocs -----------------------------
(***************************************************************************)
(* The data of src/buildpack/layermetadata.go: the abstract TOML document *)
(* of a layer metadata file, the LayerMetadataFile value, and the pure     *)
(* parts of the two encoderDecoders (selection, encode, shallow scan,      *)
(* typed decode).  LayerMetadata runs them step by step, LayerCodec in one *)
(* step per call.                                                          *)
(*                                                                         *)
(* A document is abstracted to the keys the codec tells apart: the three  *)
(* flags at the top level, the `types` table and the opaque `metadata`     *)
(* value.  Each key is absent (NoValue), a boolean, or a value of the      *)
(* wrong TOML type (BadValue).                                             *)
(***************************************************************************)
EXTENDS APIVersion

CONSTANTS
    DataValues,  \* opaque values the `metadata` key may hold
    NoValue,     \* a key absent from the document, or Go's nil
    BadValue,    \* a TOML value whose type does not fit the Go field
    NoFile,      \* the file does not exist
    Malformed    \* a file that is not valid TOML

\* The flag keys of LayerMetadataFile and of the types table.
Flags == {"build", "launch", "cache"}

FlagVals == BOOLEAN \cup {NoValue, BadValue}
IsTable(t) == t \notin {NoValue, BadValue}
TypesVals == {NoValue, BadValue} \cup [Flags -> FlagVals]
Docs == [top: [Flags -> FlagVals], types: TypesVals,
         metadata: DataValues \cup {NoValue}]
Files == {NoFile, Malformed} \cup Docs

\* type LayerMetadataFile and its zero value.
LayerMetadataFile == [data: DataValues \cup {NoValue}, flags: [Flags -> BOOLEAN]]
ZeroLMF == [data |-> NoValue, flags |-> [f \in Flags |-> FALSE]]

\* The document os.Create leaves behind: an empty, valid TOML file.
EmptyDoc == [top |-> [f \in Flags |-> NoValue], types |-> NoValue,
             metadata |-> NoValue]

Msgs == {"", "FlagsNotInTypes", "TypesNotSupported"}

-----------------------------------------------------------------------------
(* Strategy selection.                                                     *)

DefaultIsSupported(a) == AtLeast(a, <<0, 6>>)

LegacyIsSupported(a) == LessThan(a, <<0, 6>>)

\* The first encoderDecoder of supportedEncoderDecoders() that supports a.
SelectCodec(a) ==
    CASE DefaultIsSupported(a) -> "default"
      [] LegacyIsSupported(a)  -> "legacy"
      [] OTHER                 -> "none"

(* Encoding.                                                               *)

\* Mutant of DefaultEncode: the whole LayerMetadataFile is encoded, so the
\* flags land at the top level.
DefaultEncodeWithFlags(v) ==
    [top |-> v.flags, types |-> NoValue, metadata |-> v.data]

\* The default encoder writes only the data; the flags are dropped.
DefaultEncode(v) == [EmptyDoc EXCEPT !.metadata = v.data]

\* The legacy encoder writes the data and all three flags at the top level.
LegacyEncode(v) == [top |-> v.flags, types |-> NoValue, metadata |-> v.data]

(* Decoding.                                                               *)

\* Mutant of ScanKeys: the default decoder forgets the "cache" key.
ScanKeysWithoutCache(c) ==
    IF c = "default" THEN {"build", "launch"} ELSE {"types"}

\* The keys stuffYoureNotSposedToHave each decoder passes to the scan.
ScanKeys(c) == IF c = "default" THEN Flags ELSE {"types"}

\* typesInTopLevel on a valid document: is one of keys a top-level key?
TypesInTopLevel(doc, keys) ==
    \E k \in keys :
        IF k = "types" THEN doc.types # NoValue ELSE doc.top[k] # NoValue

DefaultAdvisory(hit) == IF hit THEN "FlagsNotInTypes" ELSE ""

LegacyAdvisory(hit) == IF hit THEN "TypesNotSupported" ELSE ""

\* Mutant of BoolField: an absent key is passed through instead of
\* leaving the Go zero value.
BoolFieldNoDefault(x) == x

\* A TOML bool decoded into a Go bool: an absent key leaves false.
BoolField(x) == IF x = NoValue THEN FALSE ELSE x

\* toml Decode into layerMetadataTomlFile: flags from the types table,
\* top-level flags ignored as unknown keys.
DefaultTypedDecode(doc) ==
    LET t == doc.types
    IN  IF t = BadValue \/ (IsTable(t) /\ \E f \in Flags : t[f] = BadValue)
        THEN [err |-> "typeMismatch", value |-> ZeroLMF]
        ELSE [err |-> "none",
              value |-> [data |-> doc.metadata,
                         flags |-> [f \in Flags |->
                                      IF IsTable(t) THEN BoolField(t[f])
                                                    ELSE FALSE]]]

\* toml Decode into LayerMetadataFile: flags from the top level, the
\* `types` key ignored as unknown.
LegacyTypedDecode(doc) ==
    IF \E f \in Flags : doc.top[f] = BadValue
    THEN [err |-> "typeMismatch", value |-> ZeroLMF]
    ELSE [err |-> "none",
          value |-> [data |-> doc.metadata,
                     flags |-> [f \in Flags |-> BoolField(doc.top[f])]]]


\* The advisory decoder c derives from typesInTopLevel on document f.
Advisory(f, c) ==
    LET hit == TypesInTopLevel(f, ScanKeys(c))
    IN  IF c = "default" THEN DefaultAdvisory(hit) ELSE LegacyAdvisory(hit)

(* Calls.                                                                  *)

Result(val, m, e) == [value |-> val, msg |-> m, err |-> e]

\* The file EncodeLayerMetadataFile(v, ., a) leaves: os.Create has emptied
\* it even when no encoder supports a.
Written(v, a) ==
    CASE SelectCodec(a) = "default" -> DefaultEncode(v)
      [] SelectCodec(a) = "legacy"  -> LegacyEncode(v)
      [] OTHER                      -> EmptyDoc

\* What DecodeLayerMetadataFile(path, a) returns for the file f: the zero
\* value for a missing file, otherwise the selected decoder's typed decode
\* with the advisory of its shallow scan.
DecodeResult(f, a) ==
    LET c == SelectCodec(a)
        r == IF c = "default" THEN DefaultTypedDecode(f) ELSE LegacyTypedDecode(f)
    IN  CASE f = NoFile    -> Result(ZeroLMF, "", "none")
          [] c = "none"    -> Result(ZeroLMF, "", "noCodec")
          [] f = Malformed -> Result(ZeroLMF, "", "syntax")
          [] OTHER         -> Result(r.value, Advisory(f, c), r.err)

=============================================================================

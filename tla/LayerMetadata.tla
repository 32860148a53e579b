--------------------------- MODULE LayerMetadata ---------------------------
(***************************************************************************)
(* The layer metadata codec of src/buildpack/layermetadata.go: the file    *)
(* <layer>.toml that a buildpack writes beside each layer and that the     *)
(* lifecycle decodes (DecodeLayerMetadataFile) and re-encodes              *)
(* (EncodeLayerMetadataFile) under a buildpack API version.                *)
(*                                                                         *)
(* The document and the pure codec operators are those of LayerDocs.  A  *)
(* call is split into the steps at which the code opens, reads and closes *)
(* the file, so that the number of open file handles is part of the      *)
(* state, and the process may be killed between any two of them.         *)
(***************************************************************************)
EXTENDS Naturals, LayerDocs

CONSTANTS
    APIs,        \* buildpack API versions, pairs <<major, minor>>
    MaxCalls     \* number of codec calls the lifecycle makes

ASSUME MaxCalls \in Nat /\ APIs # {}

VARIABLES
    file,     \* the content of the layer metadata file on disk
    pc,       \* the step the lifecycle's current codec call is at
    api,      \* the buildpack API of the current (or last) call
    codec,    \* the encoderDecoder the current call selected
    handles,  \* number of file handles the current call holds open
    msg,      \* the advisory computed by the shallow scan
    lmf,      \* the LayerMetadataFile being encoded
    result,   \* what the last call returned
    op,       \* which operation the last call was
    calls,    \* number of calls made so far
    written   \* history: who produced the file's current content

vars == <<file, pc, api, codec, handles, msg, lmf, result, op, calls, written>>

Errs == {"none", "syntaxNoPosition", "syntaxAtPosition", "typeMismatch",
         "noCodec", "openError", "createError"}

-----------------------------------------------------------------------------
(* The lifecycle's calls, step by step.                                    *)

Return(val, m, e) ==
    /\ pc' = "idle"
    /\ result' = [value |-> val, msg |-> m, err |-> e]

Init ==
    /\ file \in Files          \* whatever the buildpack left on disk
    /\ pc = "idle"
    /\ api = NoValue
    /\ codec = "none"
    /\ handles = 0
    /\ msg = ""
    /\ lmf = ZeroLMF
    /\ result = [value |-> ZeroLMF, msg |-> "", err |-> "none"]
    /\ op = "none"
    /\ calls = 0
    /\ written = [by |-> "buildpack", value |-> ZeroLMF, api |-> NoValue]

\* Mutant of DecodeLayerMetadataFile: the decoder selected by the first
\* call is kept for the later ones.
DecodeLayerMetadataFileCachedCodec(a) ==
    /\ pc = "idle"
    /\ calls < MaxCalls
    /\ api' = a
    /\ op' = "decode"
    /\ calls' = calls + 1
    /\ \/ /\ file = NoFile
          /\ Return(ZeroLMF, "", "none")
          /\ UNCHANGED <<codec, handles>>
       \/ /\ file # NoFile
          /\ codec' = IF codec = "none" THEN SelectCodec(a) ELSE codec
          /\ IF codec' = "none"
             THEN Return(ZeroLMF, "", "noCodec") /\ UNCHANGED handles
             ELSE pc' = "scanOpen" /\ handles' = handles + 1
                  /\ UNCHANGED result
    /\ msg' = ""
    /\ UNCHANGED <<file, lmf, written>>

\* DecodeLayerMetadataFile: os.Open, then the decoder for the API.  The
\* advisory is a local of the decoder and starts empty in every call.
DecodeLayerMetadataFile(a) ==
    /\ pc = "idle"
    /\ calls < MaxCalls
    /\ api' = a
    /\ op' = "decode"
    /\ calls' = calls + 1
    /\ \/ /\ file = NoFile
          /\ Return(ZeroLMF, "", "none")
          /\ UNCHANGED <<codec, handles>>
       \/ /\ file # NoFile
          /\ codec' = SelectCodec(a)
          /\ IF SelectCodec(a) = "none"
             THEN Return(ZeroLMF, "", "noCodec") /\ UNCHANGED handles
             ELSE pc' = "scanOpen" /\ handles' = handles + 1
                  /\ UNCHANGED result
    /\ msg' = ""
    /\ UNCHANGED <<file, lmf, written>>

\* typesInTopLevel opens the file a second time.
TypesInTopLevelOpen ==
    /\ pc = "scanOpen"
    /\ pc' = "scanDecode"
    /\ handles' = handles + 1
    /\ UNCHANGED <<file, api, codec, msg, lmf, result, op, calls, written>>

\* Mutant of TypesInTopLevelDecode: on a decode error typesInTopLevel
\* returns without closing its handle.
TypesInTopLevelDecodeLeak ==
    /\ pc = "scanDecode"
    /\ \/ /\ file = Malformed
          /\ Return(ZeroLMF, "", "syntaxNoPosition")
          /\ handles' = handles - 1
          /\ UNCHANGED msg
       \/ /\ file \in Docs
          /\ msg' = Advisory(file, codec)
          /\ pc' = "reopen"
          /\ handles' = handles - 1
          /\ UNCHANGED result
    /\ UNCHANGED <<file, api, codec, lmf, op, calls, written>>

\* typesInTopLevel decodes into a map and closes; the decoder turns its
\* answer into the advisory, or returns its error at once.
TypesInTopLevelDecode ==
    /\ pc = "scanDecode"
    /\ \/ /\ file = Malformed
          /\ Return(ZeroLMF, "", "syntaxNoPosition")
          /\ handles' = handles - 2
          /\ UNCHANGED msg
       \/ /\ file \in Docs
          /\ msg' = Advisory(file, codec)
          /\ pc' = "reopen"
          /\ handles' = handles - 1
          /\ UNCHANGED result
    /\ UNCHANGED <<file, api, codec, lmf, op, calls, written>>

\* The decoder opens the file a third time for the typed decode.
DecoderReopen ==
    /\ pc = "reopen"
    /\ pc' = "decode"
    /\ handles' = handles + 1
    /\ UNCHANGED <<file, api, codec, msg, lmf, result, op, calls, written>>

\* The typed decode; the deferred closes release both handles.
DecoderDecode ==
    /\ pc = "decode"
    /\ IF file = Malformed
       THEN Return(ZeroLMF, msg, "syntaxAtPosition")
       ELSE LET r == IF codec = "default" THEN DefaultTypedDecode(file)
                                          ELSE LegacyTypedDecode(file)
            IN  Return(r.value, msg, r.err)
    /\ handles' = handles - 2
    /\ UNCHANGED <<file, api, codec, msg, lmf, op, calls, written>>

\* EncodeLayerMetadataFile: os.Create truncates the file first.
EncodeLayerMetadataFile(v, a) ==
    /\ pc = "idle"
    /\ calls < MaxCalls
    /\ file' = EmptyDoc
    /\ written' = [by |-> "truncated", value |-> ZeroLMF, api |-> NoValue]
    /\ pc' = "encode"
    /\ handles' = handles + 1
    /\ lmf' = v
    /\ api' = a
    /\ op' = "encode"
    /\ calls' = calls + 1
    /\ UNCHANGED <<codec, msg, result>>

\* The encoder for the API writes the file; the deferred close follows.
EncoderEncode ==
    /\ pc = "encode"
    /\ codec' = SelectCodec(api)
    /\ CASE SelectCodec(api) = "default" ->
              file' = DefaultEncode(lmf)
         [] SelectCodec(api) = "legacy" ->
              file' = LegacyEncode(lmf)
         [] OTHER -> UNCHANGED file
    /\ IF SelectCodec(api) = "none"
       THEN Return(ZeroLMF, "", "noCodec") /\ UNCHANGED written
       ELSE Return(ZeroLMF, "", "none")
            /\ written' = [by |-> "encoder", value |-> lmf, api |-> api]
    /\ handles' = handles - 1
    /\ UNCHANGED <<api, msg, lmf, op, calls>>

\* The lifecycle process is killed in the middle of a call: the OS closes
\* its handles and the call never returns.  Killed between os.Create and
\* the encoder's write, the file stays truncated; killed during the write,
\* it holds a torn, unparsable prefix.
Crash ==
    /\ pc # "idle"
    /\ IF pc = "encode" THEN file' \in {file, Malformed} ELSE UNCHANGED file
    /\ pc' = "idle"
    /\ handles' = 0
    /\ op' = "crash"
    /\ UNCHANGED <<api, codec, msg, lmf, result, calls, written>>

\* The file system refuses an open (permission, descriptor limit, a file
\* removed or replaced by another process).  Each os.Open/OpenFile and
\* os.Create returns its error at once; the deferred closes of the opens
\* that succeeded run on the way out.

\* DecodeLayerMetadataFile: os.Open fails with an error other than NotExist.
DecodeOpenFails(a) ==
    /\ pc = "idle"
    /\ calls < MaxCalls
    /\ file # NoFile
    /\ Return(ZeroLMF, "", "openError")
    /\ api' = a
    /\ op' = "decode"
    /\ calls' = calls + 1
    /\ msg' = ""
    /\ UNCHANGED <<file, codec, handles, lmf, written>>

\* typesInTopLevel's OpenFile fails; the decoder returns before any advisory.
TypesInTopLevelOpenFails ==
    /\ pc = "scanOpen"
    /\ Return(ZeroLMF, "", "openError")
    /\ handles' = handles - 1
    /\ UNCHANGED <<file, api, codec, msg, lmf, op, calls, written>>

\* defaultEncoderDecoder.Decode: its own OpenFile fails after the scan; the
\* advisory is returned with the error.
DefaultReopenFails ==
    /\ pc = "reopen"
    /\ codec = "default"
    /\ Return(ZeroLMF, msg, "openError")
    /\ handles' = handles - 1
    /\ UNCHANGED <<file, api, codec, msg, lmf, op, calls, written>>

\* legacyEncoderDecoder.Decode: its own OpenFile fails after the scan; the
\* error is returned with an empty advisory.
LegacyReopenFails ==
    /\ pc = "reopen"
    /\ codec = "legacy"
    /\ Return(ZeroLMF, "", "openError")
    /\ handles' = handles - 1
    /\ UNCHANGED <<file, api, codec, msg, lmf, op, calls, written>>

\* EncodeLayerMetadataFile: os.Create fails; nothing is truncated and
\* nothing is encoded, so the value passed does not matter.
EncodeCreateFails(a) ==
    /\ pc = "idle"
    /\ calls < MaxCalls
    /\ Return(ZeroLMF, "", "createError")
    /\ api' = a
    /\ op' = "encode"
    /\ calls' = calls + 1
    /\ UNCHANGED <<file, codec, handles, msg, lmf, written>>

IOFailure ==
    \/ \E a \in APIs : DecodeOpenFails(a)
    \/ TypesInTopLevelOpenFails
    \/ DefaultReopenFails
    \/ LegacyReopenFails
    \/ \E a \in APIs : EncodeCreateFails(a)

\* The lifecycle exits once it has made its calls.
Terminated ==
    /\ pc = "idle"
    /\ calls = MaxCalls
    /\ UNCHANGED vars

\* The steps of a call already started: straight-line code that blocks on
\* nothing but the local file system.
CallStep ==
    \/ TypesInTopLevelOpen
    \/ TypesInTopLevelDecode
    \/ DecoderReopen
    \/ DecoderDecode
    \/ EncoderEncode

\* The lifecycle without faults: it starts calls and runs them.
NormalNext ==
    \/ \E a \in APIs : DecodeLayerMetadataFile(a)
    \/ \E v \in LayerMetadataFile, a \in APIs : EncodeLayerMetadataFile(v, a)
    \/ CallStep
    \/ Terminated

Next == NormalNext \/ IOFailure \/ Crash

Spec == Init /\ [][Next]_vars

\* The lifecycle without crashes or I/O failures.
NormalSpec == Init /\ [][NormalNext]_vars

-----------------------------------------------------------------------------
(* Properties.                                                             *)

TypeOK ==
    /\ file \in Files
    /\ pc \in {"idle", "scanOpen", "scanDecode", "reopen", "decode", "encode"}
    /\ api \in APIs \cup {NoValue}
    /\ codec \in {"default", "legacy", "none"}
    /\ handles \in 0..3
    /\ msg \in Msgs
    /\ lmf \in LayerMetadataFile
    /\ result \in [value: LayerMetadataFile, msg: Msgs, err: Errs]
    /\ op \in {"none", "decode", "encode", "crash"}
    /\ calls \in 0..MaxCalls
    /\ written.by \in {"buildpack", "truncated", "encoder"}

DecodeReturned == pc = "idle" /\ op = "decode"

\* The value a flag has at the place the selected decoder does not read.
IgnoredFlag(doc, c, f) ==
    IF c = "default" THEN doc.top[f]
    ELSE IF IsTable(doc.types) THEN doc.types[f] ELSE NoValue

\* A flag set to true in the file, at the place the API's decoder ignores
\* (top level for API >= 0.6, the types table below it), and returned as
\* false by DecodeLayerMetadataFile, is always reported by an advisory.
NoSilentFlagLoss ==
    (DecodeReturned /\ file \in Docs /\ result.err = "none") =>
        \A f \in Flags :
            (IgnoredFlag(file, codec, f) = TRUE /\ ~result.value.flags[f])
                => result.msg # ""

\* Decoding what EncodeLayerMetadataFile wrote, under any pair of APIs,
\* when the file system lets the decode open the file, succeeds and keeps the data; the flags survive exactly when both
\* APIs are legacy; a reader of the writer's own strategy gets no
\* advisory, and a flag lost from a legacy file is reported.
RoundTrip ==
    (DecodeReturned /\ written.by = "encoder" /\ result.err # "openError") =>
        LET v == written.value
            w == written.api
        IN  /\ result.err = "none"
            /\ result.value.data = v.data
            /\ result.value.flags =
                   IF LegacyIsSupported(w) /\ LegacyIsSupported(api)
                   THEN v.flags ELSE [f \in Flags |-> FALSE]
            /\ SelectCodec(w) = SelectCodec(api) => result.msg = ""
            /\ (LegacyIsSupported(w) /\
                \E f \in Flags : v.flags[f] /\ ~result.value.flags[f])
                   => result.msg # ""

\* Every exit path of DecodeLayerMetadataFile and EncodeLayerMetadataFile
\* releases the file handles the call opened.
HandlesReleased == pc = "idle" => handles = 0

\* spec.md section 5: each encode/decode call holds exactly one file
\* handle.  DecodeLayerMetadataFile keeps its os.Open handle while the
\* scan and the decoder open the file again.
SingleHandlePerCall == handles <= 1

\* spec.md sections 4.1 and 7: a syntax error is returned with the line
\* and column where decoding failed.  DecodeLayerMetadataFile meets a
\* syntax error first in typesInTopLevel, which returns it unannotated.
SyntaxErrorHasPosition == result.err # "syntaxNoPosition"

\* The refinement mapping.  A call takes effect when it starts: while a
\* decode runs, the result is already what it will return; while an
\* encode runs, the file is already what it will write.  Syntax errors
\* form one class.
Decoding == pc \in {"scanOpen", "scanDecode", "reopen", "decode"}

ErrClass(e) == IF e \in {"syntaxNoPosition", "syntaxAtPosition"}
               THEN "syntax" ELSE e

Abstract == INSTANCE LayerCodec WITH
    file   <- IF pc = "encode" THEN Written(lmf, api) ELSE file,
    result <- CASE pc = "encode" ->
                     Result(ZeroLMF, "",
                            IF SelectCodec(api) = "none" THEN "noCodec" ELSE "none")
                [] Decoding -> DecodeResult(file, api)
                [] OTHER    -> [result EXCEPT !.err = ErrClass(@)]

\* Without crashes or I/O failures, the step-by-step calls implement the one-step contract
\* of LayerCodec: each decode returns DecodeResult of the file and of the
\* API it was called with, the advisory its own scan computed included,
\* and each encode leaves exactly the selected encoder's output.
Refinement == Abstract!Spec

\* spec.md section 1: the codec must never silently lose data.  A decode
\* of the file that an encode killed after os.Create left behind reports
\* an error or an advisory rather than a zero value with neither.
\* EncodeLayerMetadataFile truncates the file in place before it writes.
InterruptedEncodeIsNoticed ==
    (DecodeReturned /\ written.by = "truncated")
        => (result.err # "none" \/ result.msg # "")

=============================================================================

----------------------------- MODULE LayerCodec -----------------------------
(***************************************************************************)
(* What the layer metadata codec of src/buildpack/layermetadata.go         *)
(* promises its caller, one step per call: DecodeLayerMetadataFile returns *)
(* a function of the file and the API, and EncodeLayerMetadataFile         *)
(* replaces the file by the encoding of its argument.  There are no        *)
(* handles, no intermediate steps and no advisory kept between steps.      *)
(* A syntax error is one class of error here, whether or not it carries    *)
(* a position.  LayerMetadata implements this specification when no call  *)
(* is interrupted (see LayerMetadata!Refinement).                         *)
(***************************************************************************)
EXTENDS Naturals, LayerDocs

CONSTANTS
    APIs,        \* buildpack API versions, pairs <<major, minor>>
    MaxCalls     \* number of codec calls the lifecycle makes

VARIABLES
    file,     \* the content of the layer metadata file on disk
    api,      \* the buildpack API the last call was made with
    result,   \* what the last call returned
    calls     \* number of calls made so far

vars == <<file, api, result, calls>>

Init ==
    /\ file \in Files
    /\ api = NoValue
    /\ result = Result(ZeroLMF, "", "none")
    /\ calls = 0

Decode(a) ==
    /\ calls < MaxCalls
    /\ api' = a
    /\ result' = DecodeResult(file, a)
    /\ calls' = calls + 1
    /\ UNCHANGED file

Encode(v, a) ==
    /\ calls < MaxCalls
    /\ file' = Written(v, a)
    /\ api' = a
    /\ result' = Result(ZeroLMF, "",
                        IF SelectCodec(a) = "none" THEN "noCodec" ELSE "none")
    /\ calls' = calls + 1

Next ==
    \/ \E a \in APIs : Decode(a)
    \/ \E v \in LayerMetadataFile, a \in APIs : Encode(v, a)

Spec == Init /\ [][Next]_vars

=============================================================================

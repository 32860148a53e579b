------------------------- MODULE MC_LayerMetadata -------------------------
(* Model-checking instance of LayerMetadata: API 0.5 (legacy) against     *)
(* 0.6, the first default-strategy version, and one opaque data value.    *)
EXTENDS LayerMetadata

MC_APIs == {<<0, 5>>, <<0, 6>>}

MC_DataValues == {"d1"}

=============================================================================

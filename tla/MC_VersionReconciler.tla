----------------------- MODULE MC_VersionReconciler -----------------------
(* Model-checking instance of VersionReconciler.  Metadata versions are   *)
(* the TOML string "1", the string "2", the integer 2 and the float 1.0,  *)
(* which fmt.Sprintf("%v") prints as "1".                                  *)
EXTENDS VersionReconciler

MC_Versions == {"", "1", "2"}

MC_MetaValues == {[type |-> "string",  fmt |-> "1"],
                  [type |-> "string",  fmt |-> "2"],
                  [type |-> "integer", fmt |-> "2"],
                  [type |-> "float",   fmt |-> "1"]}

=============================================================================

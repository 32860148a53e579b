-------------------------- MODULE MC_BuildpackPlan --------------------------
(* Model-checking instance of BuildpackPlan: two names, so that an unmet  *)
(* name can match several entries; a version stated as a string, as an    *)
(* integer and as a float.                                                 *)
EXTENDS BuildpackPlan

MC_Names == {"a", "b"}

MC_Versions == {"", "1"}

MC_MetaValues == {[type |-> "string", fmt |-> "1"],
                  [type |-> "integer", fmt |-> "1"],
                  [type |-> "float", fmt |-> "1"]}

=============================================================================

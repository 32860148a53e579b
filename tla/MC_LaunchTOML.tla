--------------------------- MODULE MC_LaunchTOML ---------------------------
(* Model-checking instance of LaunchTOML: API 0.8 against 0.9, where the  *)
(* command changes shape, and launch.toml files of up to two processes.   *)
EXTENDS LaunchTOML

MC_APIs == {<<0, 8>>, <<0, 9>>}

MC_ProcTypes == {"web", "worker"}

MC_CmdStrings == {"", "npm start"}

MC_CmdLists == {<<>>, <<"npm">>, <<"npm", "start">>}

\* The lifecycle's caller passes a zero LaunchTOML.
MC_Prior == {<<>>}

\* A caller that reuses a LaunchTOML already holding a decoded process.
MC_PriorReused ==
    {<<>>, <<[type |-> "web", command |-> <<"npm">>, raw |-> <<"npm">>,
              direct |-> FALSE]>>}

=============================================================================

---------------------------- MODULE MCRelaySync ----------------------------
(* Instances of RelaySync for TLC, given by RelaySync.cfg, SyncGoesOn.cfg  *)
(* and IgnoredFiles.cfg: a .gitignore of two versions, a directory d with  *)
(* a file d/x in it, in the order of their paths.                          *)
EXTENDS RelaySync

TheRules == 1
TheDirectory == 2
TheFile == 3

MCPaths == {TheRules, TheDirectory, TheFile}
MCAbove == [p \in MCPaths |-> IF p = TheFile THEN {TheDirectory} ELSE {}]

\* The first version of .gitignore masks the file, the second nothing.
MCMasked == [v \in Versions |-> IF v = 1 THEN {TheFile} ELSE {}]
MCEditable == {TheRules, TheFile}
=============================================================================

------------------------- MODULE MCExtensionInstall -------------------------
(***************************************************************************)
(* Three versions of an extension for ExtensionInstall: one with a binary, *)
(* one whose command is a record only, one without a command.              *)
(***************************************************************************)
EXTENDS ExtensionInstall, TLC

CONSTANTS binary, bundle, skill

MCParts ==
    [v \in Targets |-> CASE v = binary -> {package, command, owner}
                         [] v = bundle -> {package, owner}
                         [] v = skill  -> {package}
                         [] v = Absent -> {}]

(* Processes differ in nothing. *)
Alike == Permutations(Procs)
=============================================================================

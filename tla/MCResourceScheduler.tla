------------------------- MODULE MCResourceScheduler -------------------------
(***************************************************************************)
(* A small instance of ResourceTurns: two commands and a managed process   *)
(* of one workspace, a build and a server of another.  Process and build   *)
(* want both lanes; process and a command are queued under one signal.     *)
(***************************************************************************)
EXTENDS ResourceTurns

CONSTANTS
    heavy, persistent, repoA, repoB, build, command, shell, server, process, one, two

MCLaneOrder == <<persistent, heavy>>

MCLimit == [l \in {heavy, persistent} |-> 1]

MCOwner(c) == IF c \in {command, shell, process} THEN repoA ELSE repoB
MCOwners == [c \in Callers |-> MCOwner(c)]

MCResources ==
    [c \in Callers |-> CASE c = server -> <<persistent>>
                         [] c \in {process, build} -> <<persistent, heavy>>
                         [] OTHER -> <<heavy>>]

MCSignal == [c \in Callers |-> IF c \in {command, process} THEN one ELSE two]
=============================================================================

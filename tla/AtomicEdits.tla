----------------------------- MODULE AtomicEdits -----------------------------
(***************************************************************************)
(* What a multi-file edit of relai_edit promises about a project's files:  *)
(* they change all at once or not at all, whatever fails or crashes, and   *)
(* everything else that changes a file is interference from outside it.    *)
(***************************************************************************)
CONSTANTS Editors, Paths, Contents,
          Targets     \* Targets[e]: the contents edit e leaves, by path

VARIABLES files,      \* the contents a reader may rely on, by path
          outside     \* outside[e]: paths others changed since e looked

Init == files \in [Paths -> Contents]

(* The files of e, less those others interfered with, change together.     *)
Commit(e) ==
    \A p \in Paths \ outside'[e] :
        files'[p] = IF p \in DOMAIN Targets[e] THEN Targets[e][p] ELSE files[p]

(* Nothing else changes, but a file that was interfered with.              *)
Interference ==
    \A p \in Paths : files'[p] = files[p] \/ \E e \in Editors : p \in outside'[e]

Next == Interference \/ \E e \in Editors : Commit(e)

Spec == Init /\ [][Next]_<<files, outside>>
=============================================================================

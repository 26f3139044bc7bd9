-------------------------- MODULE MCEditTransaction --------------------------
(***************************************************************************)
(* Calls for TLC: a batch that edits one of its files twice, a batch of    *)
(* another file, a single edit, and a patch that deletes a file, in the    *)
(* workspace or in a folder of it.                                         *)
(***************************************************************************)
EXTENDS EditTransaction, TLC

CONSTANTS batch, other, patch, plain, outer, nested, p, q, t, absent, old, new, more

At1(path, content) == [path |-> path, content |-> content]

MCKind == [e \in Editors |-> IF e \in {batch, other} THEN "batch"
                             ELSE IF e = patch THEN "patch" ELSE "plain"]

MCRoot == [e \in Editors |-> IF e = patch /\ nested \in Roots THEN nested ELSE outer]

MCEdits == [e \in Editors |->
              CASE e = batch -> <<At1(p, new), At1(q, new), At1(p, more)>>
                [] e = other -> <<At1(t, new)>>
                [] e = patch -> <<At1(q, more), At1(p, absent)>>
                [] e = plain -> <<At1(q, more)>>]

(* The project as the first call finds it. *)
MCInit == Init /\ disk = [path \in Paths |-> old]
MCSpec == MCInit /\ [][Next]_vars

MCOverlaps == {<<x, y>> \in Roots \X Roots : x # y}
=============================================================================

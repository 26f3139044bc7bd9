----------------------- MODULE MCWorkspaceQueueOrder -----------------------
(***************************************************************************)
(* The order the lock plans of WorkspaceScopes follow: the workspace       *)
(* barrier, the task's lane, the mutation lane, the paths in ascending     *)
(* order.  It is what NobodyWaitsInVain (WorkspaceQueueOwners_proof) asks  *)
(* of the plans, and TLC checks it for every request of a small instance.  *)
(***************************************************************************)
EXTENDS MCWorkspaceQueue

Rank(k) ==
    CASE k = S!OuterKey    -> 0
      [] k = S!MutationKey -> 2
      [] k[1] = "task"     -> 1
      [] k[1] = "path"     -> 2 + k[2]

Requests ==
    {Ask(scope, mode, task, paths, bypass) :
        scope  \in {"workspace", "task", "mutation", "paths"},
        mode   \in {READ, WRITE},
        task   \in 0 .. 2,
        paths  \in UNION {[1 .. n -> 1 .. 3] : n \in 0 .. 4},
        bypass \in BOOLEAN}

ASSUME ScopesOrdered ==
    \A r \in Requests :
        LET plan == S!LockPlan(r)
        IN \A l, m \in DOMAIN plan : l < m => Rank(plan[l].key) < Rank(plan[m].key)

ASSUME PlansOrdered == TakenInOrder([k \in Keys |-> Rank(k)])
=============================================================================

-------------------------- MODULE MCWorkspaceQueue --------------------------
(***************************************************************************)
(* Requests for TLC, and the constants of WorkspaceQueue they determine.   *)
(* A run's cfg says which of the callers below take part.                  *)
(***************************************************************************)
EXTENDS WorkspaceLocks

CONSTANTS commit, edit, exec, check, finish, patchA, patchB

S == INSTANCE WorkspaceScopes

Ask(scope, mode, task, paths, bypass) ==
    [scope |-> scope, mode |-> mode, task |-> task, paths |-> paths, bypass |-> bypass]

(* A commit; an edit and a command in the mutation lane; validation and a  *)
(* completion in a task lane, with a mutation boundary nested in them; two *)
(* exact edits whose callers list the same paths in opposite orders.       *)
MCRequest ==
       commit :> Ask("workspace", WRITE, 1, <<>>, FALSE)
    @@ edit   :> Ask("mutation", WRITE, 1, <<>>, TRUE)
    @@ exec   :> Ask("mutation", WRITE, 2, <<>>, TRUE)
    @@ check  :> Ask("task", READ, 1, <<>>, FALSE)
    @@ finish :> Ask("task", WRITE, 1, <<>>, FALSE)
    @@ patchA :> Ask("paths", WRITE, 1, <<1, 2, 1>>, FALSE)
    @@ patchB :> Ask("paths", WRITE, 2, <<2, 1>>, FALSE)

MCPlan       == [c \in Clients |-> S!LockPlan(MCRequest[c])]
MCSignalled  == {c \in Clients : S!UsesBlockSignal(MCRequest[c])}
MCRechecking == {c \in Clients : S!RechecksBlock(MCRequest[c])}
MCWatched    == {c \in Clients : S!IsMutationScope(MCRequest[c])}
MCOverrunning == Watched \ {commit, exec}
MCNesting    == Clients \cap {check, finish}
MCKeys       == {S!MutationKey} \union
                  UNION {{MCPlan[c][l].key : l \in DOMAIN MCPlan[c]} : c \in Clients}
MCBoundary   == S!MutationKey

(* Not a property of the code but of the instance: MaxStates never keeps a *)
(* request from getting a lock state.                                      *)
SpareState == \A k \in Keys : locks[k] = NoState => \E o \in Objs : Unused(o, k)
=============================================================================

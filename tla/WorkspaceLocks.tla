--------------------------- MODULE WorkspaceLocks ---------------------------
(***************************************************************************)
(* The lock states of WorkspaceQueue implement ReadWriteLock.              *)
(***************************************************************************)
EXTENDS WorkspaceQueue

(* A lock state's queue, each client with the level it waits at. *)
Line(o) == [i \in DOMAIN obj[o].queue |->
                <<obj[o].queue[i], depth[obj[o].queue[i]]>>]

StateLocks == INSTANCE ReadWriteLock
    WITH Locks <- Objs,
         Users <- Clients \X Levels,
         line <- [o \in Objs |-> Line(o)],
         readers <- [o \in Objs |-> Holders(o, READ)],
         writers <- [o \in Objs |-> Holders(o, WRITE)]

(* Each lock state is a fair reader-writer lock: "Both levels are          *)
(* FIFO-fair: a waiting writer blocks later readers".                      *)
StatesAreLocks == StateLocks!Spec
=============================================================================

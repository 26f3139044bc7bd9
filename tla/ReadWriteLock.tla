--------------------------- MODULE ReadWriteLock ---------------------------
(***************************************************************************)
(* What fair reader-writer locks promise their users: they ask, and are    *)
(* served in the order they asked or give up; any number of readers or one *)
(* writer own a lock at a time, and nothing done to one lock touches       *)
(* another.  It is the abstract specification the lock states of           *)
(* WorkspaceQueue implement.                                               *)
(***************************************************************************)
EXTENDS Sequences, SequencesExt

CONSTANTS Locks, Users

VARIABLES
    line,       \* lock -> its users that wait, in order
    readers,    \* lock -> those that own it for reading
    writers     \* lock -> those that own it for writing

vars == <<line, readers, writers>>

Init ==
    /\ line = [o \in Locks |-> <<>>]
    /\ readers = [o \in Locks |-> {}]
    /\ writers = [o \in Locks |-> {}]

(* A user joins the end of the line. *)
Ask(o) ==
    /\ \E u \in Users : line' = [line EXCEPT ![o] = Append(@, u)]
    /\ UNCHANGED <<readers, writers>>

GiveUp(o) ==
    /\ \E i \in DOMAIN line[o] : line' = [line EXCEPT ![o] = RemoveAt(@, i)]
    /\ UNCHANGED <<readers, writers>>

(* The first of the line is served. *)
Serve(o) == line[o] # <<>> /\ line' = [line EXCEPT ![o] = Tail(@)]

GrantRead(o) ==
    /\ writers[o] = {}
    /\ Serve(o)
    /\ readers' = [readers EXCEPT ![o] = @ \union {Head(line[o])}]
    /\ UNCHANGED writers

GrantWrite(o) ==
    /\ writers[o] = {} /\ readers[o] = {}
    /\ Serve(o)
    /\ writers' = [writers EXCEPT ![o] = {Head(line[o])}]
    /\ UNCHANGED readers

Release(o, u) ==
    /\ u \in readers[o] \union writers[o]
    /\ readers' = [readers EXCEPT ![o] = @ \ {u}]
    /\ writers' = [writers EXCEPT ![o] = @ \ {u}]
    /\ UNCHANGED line

Next ==
    \E o \in Locks :
        \/ Ask(o) \/ GiveUp(o)
        \/ GrantRead(o) \/ GrantWrite(o)
        \/ \E u \in Users : Release(o, u)

Spec == Init /\ [][Next]_vars
=============================================================================

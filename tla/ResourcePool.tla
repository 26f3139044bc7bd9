---------------------------- MODULE ResourcePool ----------------------------
(***************************************************************************)
(* What the host resource scheduler promises: callers ask for a set of     *)
(* lanes, are granted all of it at once and only while every lane has a    *)
(* free slot, or are refused; they give lanes back one at a time.          *)
(***************************************************************************)
EXTENDS Naturals, FiniteSets

CONSTANTS
    Lanes,   \* resource classes
    Limit,   \* Limit[l]: slots of a lane
    Callers, \* those who ask
    Wants   \* Wants[c]: the lanes a caller asks for

VARIABLES
    waiting, \* callers that have asked and have no answer
    held     \* caller -> lanes whose slot it has

vars == <<waiting, held>>

Used(l) == Cardinality({c \in Callers : l \in held[c]})

Init ==
    /\ waiting = {}
    /\ held = [c \in Callers |-> {}]

Ask(c) ==
    /\ c \notin waiting /\ held[c] = {}
    /\ waiting' = waiting \union {c}
    /\ UNCHANGED held

Refuse(S) ==
    /\ waiting' = waiting \ S
    /\ UNCHANGED held

(* Some who wait may be refused in the step that grants another.           *)
GrantAndRefuse(c, S) ==
    /\ c \in waiting
    /\ \A l \in Wants[c] : Used(l) < Limit[l]
    /\ waiting' = (waiting \ S) \ {c}
    /\ held' = [held EXCEPT ![c] = Wants[c]]

GiveBack(c, l) ==
    /\ l \in held[c]
    /\ held' = [held EXCEPT ![c] = @ \ {l}]
    /\ UNCHANGED waiting

Next ==
    \/ \E S \in SUBSET waiting : Refuse(S)
    \/ \E c \in Callers :
         \/ Ask(c)
         \/ \E S \in SUBSET waiting : GrantAndRefuse(c, S)
         \/ \E l \in Lanes : GiveBack(c, l)

Spec == Init /\ [][Next]_vars
=============================================================================

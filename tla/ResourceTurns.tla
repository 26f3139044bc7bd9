---------------------------- MODULE ResourceTurns ----------------------------
(***************************************************************************)
(* ResourceScheduler with a record of who was served while others waited.  *)
(***************************************************************************)
EXTENDS ResourceScheduler

VARIABLE passes   \* passes[c][w]: times w was served in place of c while c's
                  \* ticket waits and c's own owner is not served in its lane

(* The ticket of d is granted in this step. *)
Granted(d) == held[d] = {} /\ held'[d] # {}

OwnTurn(c) ==
    \E d \in Callers : Granted(d) /\ Owner[d] = Owner[c] /\ Primary(d) = Primary(c)

(* Owner w is granted lanes that would have served c as well.              *)
Served(w, c) ==
    \E d \in Callers :
        /\ Granted(d)
        /\ Owner[d] = w /\ Primary(d) = Primary(c)
        /\ Wanted(c) \subseteq Wanted(d)

Counted ==
    passes' = [c \in Callers |-> [w \in Owners |->
                  IF c \notin queued \/ c \notin queued' \/ OwnTurn(c) THEN 0
                  ELSE IF Served(w, c) THEN passes[c][w] + 1 ELSE passes[c][w]]]

TurnsInit == Init /\ passes = [c \in Callers |-> [w \in Owners |-> 0]]
TurnsNext == Next /\ Counted
TurnsSpec == TurnsInit /\ [][TurnsNext]_<<vars, passes>>

FairTurnsSpec == TurnsSpec /\ Fairness

(* Owner-fair admission: while a ticket waits, no other workspace is given *)
(* lanes that would have served it twice without a turn of the ticket's    *)
(* own workspace in that lane, however tickets are rejected, time out or   *)
(* come in between.                                                        *)
NoDoubleOvertake == \A c \in Callers, w \in Owners : passes[c][w] <= 1
=============================================================================

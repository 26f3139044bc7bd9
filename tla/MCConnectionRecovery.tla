------------------------ MODULE MCConnectionRecovery ------------------------
(* Two starts, of which one may have been taken over. *)
EXTENDS ConnectionRecovery

CONSTANTS s1, s2

=============================================================================

------------------------- MODULE MCManagedProcesses -------------------------
(***************************************************************************)
(* Three starts for TLC: a and b of one fingerprint, c of another one.     *)
(***************************************************************************)
EXTENDS ManagedProcesses

CONSTANTS a, b, c

MCWhat == [s \in Starts |-> IF s = c THEN 2 ELSE 1]
=============================================================================

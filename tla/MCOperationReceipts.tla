------------------------ MODULE MCOperationReceipts ------------------------
(***************************************************************************)
(* Two operations of one task, for TLC: the second repeats the request of  *)
(* the first.                                                              *)
(***************************************************************************)
EXTENDS OperationReceipts

CONSTANTS o1, o2, build

MCAsks == [o \in Ops |-> build]
=============================================================================

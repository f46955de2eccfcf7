---------------------------- MODULE MCCswManager ----------------------------
(* Two boxes and two ceasings: the second leaves one of the boxes without data. *)
EXTENDS CswManager

MCOwned == [n \in 0 .. MaxCeasings |-> IF n = 1 THEN Box ELSE {CHOOSE b \in Box : TRUE}]
=============================================================================

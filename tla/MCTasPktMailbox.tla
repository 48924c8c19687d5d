-------------------------- MODULE MCTasPktMailbox --------------------------
(* For TLC; the bounds are constants in the configurations.                 *)
EXTENDS TasPktMailbox
============================================================================

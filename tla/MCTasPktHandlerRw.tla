--------------------------- MODULE MCTasPktHandlerRw ---------------------------
(* Model checking instances of TasPktHandlerRw.                               *)
EXTENDS TasPktHandlerRw
================================================================================

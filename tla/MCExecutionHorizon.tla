------------------------- MODULE MCExecutionHorizon -------------------------
(* Instances of ExecutionHorizon for TLC. *)
EXTENDS ExecutionHorizon

WithAndWithout == {0, 2}
Watermark == {0, 3}

=============================================================================

-------------------------- MODULE MCPlaylogHorizon --------------------------
(* Instances of PlaylogHorizon for TLC. *)
EXTENDS PlaylogHorizon

CONSTANT r1
OneReader == {r1}

=============================================================================

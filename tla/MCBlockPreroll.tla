--------------------------- MODULE MCBlockPreroll ---------------------------
(* A small instance of BlockPreroll for TLC. *)
EXTENDS BlockPreroll, TLC

\* One block of the plan opens with a pad, the others with content.
ThirdIsPad == {3}
=============================================================================

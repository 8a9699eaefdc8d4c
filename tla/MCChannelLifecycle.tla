------------------------- MODULE MCChannelLifecycle -------------------------
(* ChannelLifecycle on two viewers who tune in and out.                    *)
EXTENDS ChannelLifecycle, TLC

CONSTANTS v1, v2

TwoViewers == {v1, v2}
Swap       == Permutations(TwoViewers)
=============================================================================

---------------------------- MODULE MCBlockFeed ----------------------------
(* A small instance of BlockFeed for TLC. *)
EXTENDS BlockFeed, TLC

\* AIR may end its session or crash.
BothFailures == {"ended", "dead"}
\* AIR keeps running.
NoFailures == {}
OnlyEnded == {"ended"}
OnlyCrash == {"dead"}

\* The producer is driven by ticks, as in the contract tests, or only by AIR's
\* events, as in the program.
OnlyPaced == {TRUE}
NotPaced == {FALSE}
PacedOrNot == BOOLEAN
=============================================================================

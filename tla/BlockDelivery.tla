--------------------------- MODULE BlockDelivery ---------------------------
(***************************************************************************)
(* What the feeding of blocks promises, without credits, events or         *)
(* threads: the blocks of the plan reach a bounded queue in order, none    *)
(* skipped (the last one may be sent again), AIR takes them from the front *)
(* and puts on air only what it has taken, and nothing moves any more once *)
(* the session is over.                                                    *)
(***************************************************************************)
EXTENDS Integers, Sequences

CONSTANT Depth   \* how many blocks AIR's queue holds

VARIABLES
  open,    \* the session is not over
  last,    \* the last block that was sent
  queue,   \* AIR's queue
  taken,   \* the last block AIR took from it, 0 for none
  onAir    \* the block on air, 0 for none

vars == <<open, last, queue, taken, onAir>>

\* A session is seeded with the first two blocks of the plan.
Init ==
  /\ open = TRUE /\ last = 2 /\ queue = <<1, 2>>
  /\ taken = 0 /\ onAir = 0

Send(b) ==
  /\ open /\ Len(queue) < Depth
  /\ last' = b /\ queue' = Append(queue, b)
  /\ UNCHANGED <<open, taken, onAir>>

Take ==
  /\ open /\ queue # <<>>
  /\ taken' = Head(queue) /\ queue' = Tail(queue)
  /\ UNCHANGED <<open, last, onAir>>

GoOnAir(b) ==
  /\ open
  /\ onAir' = b
  /\ UNCHANGED <<open, last, queue, taken>>

Gap ==
  /\ open
  /\ onAir' = 0
  /\ UNCHANGED <<open, last, queue, taken>>

Close ==
  /\ open' = FALSE
  /\ UNCHANGED <<last, queue, taken, onAir>>

Next ==
  \/ \E b \in {last, last + 1} : Send(b)
  \/ \E b \in 1..taken : GoOnAir(b)
  \/ Take \/ Gap \/ Close

Spec == Init /\ [][Next]_vars
=============================================================================

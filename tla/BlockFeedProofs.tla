-------------------------- MODULE BlockFeedProofs --------------------------
(***************************************************************************)
(* What BlockFeed guarantees for every queue depth, plan length and number *)
(* of faults: the ledger never promises a slot that AIR does not have, no  *)
(* block of the plan is skipped on its way to AIR, no completion is thrown *)
(* away, Core does not starve, and Core and AIR together implement         *)
(* BlockDelivery.                                                          *)
(***************************************************************************)
EXTENDS BlockFeed, FiniteSetTheorems, SequenceTheorems, TLAPS

(***************************************************************************)
(* The inductive invariant, one conjunct per idea.                         *)
(***************************************************************************)

\* Until start() returns nothing has been handled; a handler that is in its
\* loop holds the lock of a started producer and still has the credits its
\* remaining iterations may spend.
LockInv ==
  /\ phase = "new" => delivered = <<>> /\ air = "off" /\ popped = 0
  /\ phase = "seeded" => delivered = <<1, 2>>
  /\ phase \in {"new", "seeded"} => pending = 0 /\ heard = 0 /\ ~startedSeen
  /\ loop > 0 => phase = "up" /\ loop <= credits

\* The block in the retry slot is the one at the cursor.
RetryInv == phase = "up" => pending \in {0, cursor}

\* The last block that reached AIR is the one before the cursor, or the one at
\* the cursor when its reply was lost; only lost replies lengthen the history.
DeliveryInv ==
  phase = "up" =>
    /\ delivered # <<>>
    /\ delivered[Len(delivered)] \in {cursor - 1, cursor}
    /\ Len(delivered) <= cursor - 1 + lostReplies

\* AIR puts each popped position on air once, and once more if it repeats it.
PlayInv ==
  /\ IsFiniteSet(prep)
  /\ plays + Cardinality(prep) <= popped + repeats
  /\ live # 0 => plays > 0

\* A key of a completion.
Odd(n) == \E p \in 0..n : n = 2 * p + 1

\* The largest key AIR has emitted.
LastKey == IF live # 0 THEN 2 * plays ELSE 2 * plays + 1

\* Block events evs are ordered, after the last one handled (h) and no later
\* than the last one AIR emitted (top).
Between(evs, h, top) ==
  /\ h <= top
  /\ \A k \in 1..Len(evs) : evs[k].type # "ended" =>
       h < Key(evs[k]) /\ Key(evs[k]) <= top /\ evs[k].play > 0
  /\ \A j, k \in 1..Len(evs) :
       j < k /\ evs[j].type # "ended" /\ evs[k].type # "ended"
         => Key(evs[j]) < Key(evs[k])

\* The event stream is in the order of AIR's activations, and while no
\* BlockStarted was seen all that was handled are completions.
StreamInv ==
  /\ Between(events, heard, LastKey)
  /\ startedSeen \/ heard = 0 \/ Odd(heard) \/ phase = "stopped"

\* The ledger: what Core has sent and still may send is covered by the queue's
\* depth and the activations it has heard of.
LedgerInv == phase = "up" => 2 * (credits + cursor - 1 - QueueDepth) <= heard

IInv == /\ TypeOK /\ LockInv /\ RetryInv /\ DeliveryInv /\ PlayInv /\ StreamInv
        /\ LedgerInv /\ DeliveredGapFree

(***************************************************************************)
(* Lemmas about the operators.                                             *)
(***************************************************************************)

\* A credit never takes the ledger above the queue's depth.
LEMMA CreditedType ==
  ASSUME credits \in 0..QueueDepth
  PROVE  Credited \in 0..QueueDepth /\ Credited <= credits + 1
BY FeedAssumption DEF Credited, Min2

\* A handler's loop is never longer than the credits it may spend.
LEMMA FeedAheadType ==
  ASSUME NEW s, NEW c \in 0..QueueDepth
  PROVE  FeedAhead(s, c) \in 0..QueueDepth /\ FeedAhead(s, c) <= c
BY FeedAssumption DEF FeedAhead, Min2

\* The back-off is bounded whatever the error count is.
LEMMA BackoffType == ASSUME NEW n PROVE Backoff(n) \in 0..BackoffMax
BY FeedAssumption DEF Backoff

\* The error counter stays a number.
LEMMA ErrorsType == ASSUME errors \in Nat PROVE Min2(errors + 1, MaxErrors) \in Nat
BY FeedAssumption DEF Min2

(***************************************************************************)
(* Type correctness.                                                       *)
(***************************************************************************)

LEMMA TypeInit == Init => TypeOK
<1> SUFFICES ASSUME Init PROVE TypeOK
  OBVIOUS
<1>1. ProducerType
  BY FeedAssumption DEF Init, ProducerType
<1>2. SessionType
  BY DEF Init, SessionType
<1>3. AirType
  BY DEF Init, AirType
<1>4. FlagType
  <2>1. paced \in BOOLEAN
    BY FeedAssumption, Zenon DEF Init
  <2> QED BY <2>1, Zenon DEF Init, FlagType
<1>5. FaultType
  BY DEF Init, FaultType
<1> QED BY <1>1, <1>2, <1>3, <1>4, <1>5 DEF TypeOK

\* The flags are only ever set and cleared.
LEMMA FlagStep == ASSUME FlagType, [Next]_vars PROVE FlagType'
<1> USE DEF FlagType, producerVars, paceVars, sessionVars, airVars
<1>1. CASE Core
  <2>1. CASE SeedSession \/ StartFails \/ FinishStart \/ Subscribe
    BY <2>1, Zenon DEF SeedSession, StartFails, FinishStart, Subscribe
  <2>2. CASE FeedLoop \/ Tick
    BY <2>2, Zenon DEF FeedLoop, FeedNoPlan, FeedStep, unchangedByFeed, Tick, FeedError,
                       FeedAccepted, FeedQueueFull
  <2>3. CASE EventThread
    BY <2>3, Zenon DEF EventThread, OnBlockStarted, OnBlockComplete, ReadSessionEnded,
                       OnSessionEnd
  <2>4. CASE StreamBreaks \/ Stop \/ ExtendHorizon
    BY <2>4, Zenon DEF StreamBreaks, Stop, ExtendHorizon
  <2> QED BY <1>1, <2>1, <2>2, <2>3, <2>4 DEF Core
<1>2. CASE Air
  BY <1>2, Zenon DEF Air, AirEngine, AirPop, AirLose, AirRepeat, AirStart, AirFence, AirGap, AirEnd,
                     AirCrash, AirUnchanged
<1>3. CASE Finished \/ UNCHANGED vars
  BY <1>3, Zenon DEF Finished, vars
<1> QED BY <1>1, <1>2, <1>3 DEF Next

\* The conjuncts of TypeOK that are about data.
DataType == ProducerType /\ SessionType /\ AirType /\ FaultType

LEMMA DataStart ==
  ASSUME DataType, LockInv, SeedSession \/ StartFails \/ FinishStart \/ Subscribe
  PROVE  DataType'
<1> USE DEF DataType, ProducerType, SessionType, AirType, FaultType
<1>1. CASE SeedSession
  <2>1. delivered' \in Seq(Nat) /\ Len(delivered') = 2
    BY <1>1 DEF SeedSession
  <2>2. popped' \in 0..Len(delivered')
    BY <1>1, <2>1 DEF SeedSession, LockInv
  <2> QED BY <1>1, <2>1, <2>2 DEF SeedSession, producerVars, faultVars
<1>2. CASE StartFails
  BY <1>2 DEF StartFails, producerVars, sessionVars, airVars
<1>3. CASE FinishStart
  BY <1>3, FeedAssumption DEF FinishStart, sessionVars, airVars, faultVars
<1>4. CASE Subscribe
  BY <1>4 DEF Subscribe, producerVars, faultVars
<1> QED BY <1>1, <1>2, <1>3, <1>4

\* The four outcomes of a feed.
LEMMA FeedOutcomes ==
  ASSUME DataType, FeedStep
  PROVE  /\ Candidate \in Nat
         /\ faults' \in Nat
         /\ \/ FeedError(Candidate) /\ delivered' = delivered /\ lostReplies' = lostReplies
            \/ /\ FeedError(Candidate) /\ delivered' = Append(delivered, Candidate)
               /\ lostReplies' = lostReplies + 1
            \/ /\ FeedAccepted(Candidate) /\ delivered' = Append(delivered, Candidate)
               /\ lostReplies' = lostReplies
            \/ FeedQueueFull(Candidate) /\ delivered' = delivered /\ lostReplies' = lostReplies
<1>1. Candidate \in Nat
  BY DEF DataType, ProducerType, Candidate
<1>2. faults \in Nat
  BY DEF DataType, FaultType
<1> QED BY <1>1, <1>2 DEF FeedStep

LEMMA DataFeed ==
  ASSUME DataType, LockInv, FeedStep
  PROVE  DataType'
<1> USE DEF DataType
<1>1. SessionType'
  BY DEF FeedStep, unchangedByFeed, sessionVars, SessionType
<1>2. FaultType'
  BY FeedOutcomes DEF FeedStep, unchangedByFeed, FaultType
<1>3. AirType'
  <2>1. delivered' \in Seq(Nat) /\ Len(delivered') >= Len(delivered)
    <3>1. CASE delivered' = delivered
      BY <3>1 DEF AirType
    <3>2. CASE delivered' = Append(delivered, Candidate)
      BY <3>2, FeedOutcomes DEF AirType
    <3> QED BY <3>1, <3>2, FeedOutcomes
  <2> QED BY <2>1 DEF FeedStep, unchangedByFeed, AirType
<1>4. ProducerType'
  <2> USE DEF FeedStep, unchangedByFeed, ProducerType
  <2>1. CASE FeedError(Candidate)
    BY <2>1, FeedOutcomes, ErrorsType, BackoffType, FeedAssumption DEF FeedError
  <2>2. CASE FeedAccepted(Candidate)
    <3>1. loop > 0
      OBVIOUS
    <3>2. loop \in 1..credits
      BY <3>1 DEF LockInv
    <3>3. Track(Candidate) \subseteq Nat
      BY FeedOutcomes DEF Track
    <3> QED BY <2>2, <3>2, <3>3, FeedOutcomes, FeedAssumption DEF FeedAccepted
  <2>3. CASE FeedQueueFull(Candidate)
    BY <2>3, FeedOutcomes, FeedAssumption DEF FeedQueueFull
  <2> QED BY <2>1, <2>2, <2>3, FeedOutcomes
<1> QED BY <1>1, <1>2, <1>3, <1>4

\* What reading the head of the event stream leaves.
LEMMA ReadEvent ==
  ASSUME SessionType, events # <<>>
  PROVE  /\ Head(events) \in Event /\ Tail(events) \in Seq(Event)
         /\ Key(Head(events)) \in Nat
<1>1. Head(events) \in Event /\ Tail(events) \in Seq(Event)
  BY DEF SessionType
<1> QED BY <1>1 DEF Event, Key

LEMMA DataHandler ==
  ASSUME DataType, LockInv, FeedNoPlan \/ Tick \/ EventThread
  PROVE  DataType'
<1> USE DEF DataType
<1>1. CASE FeedNoPlan
  BY <1>1, FeedAssumption DEF FeedNoPlan, sessionVars, airVars, faultVars, ProducerType,
                              SessionType, AirType, FaultType
<1>2. CASE Tick
  <2>1. FeedAhead(feedState, credits) \in 0..QueueDepth
    BY FeedAheadType DEF ProducerType
  <2>2. loop' \in 0..QueueDepth /\ backoff' \in 0..BackoffMax
    BY <1>2, <2>1, FeedAssumption DEF Tick, ProducerType
  <2> QED BY <1>2, <2>2 DEF Tick, sessionVars, airVars, faultVars, ProducerType, SessionType,
                            AirType, FaultType
<1>3. CASE OnBlockStarted
  <2>1. SessionType'
    BY <1>3, ReadEvent DEF OnBlockStarted, SessionType, sessionVars
  <2>2. credits' \in 0..QueueDepth
    BY <1>3, CreditedType DEF OnBlockStarted, ProducerType
  <2>3. loop' \in 0..QueueDepth
    BY <1>3, <2>2, FeedAheadType DEF OnBlockStarted
  <2>4. feedState' \in {"CREATED", "SEEDED", "RUNNING", "DRAINING"}
    BY <1>3 DEF OnBlockStarted, NextState, ProducerType
  <2> QED BY <1>3, <2>1, <2>2, <2>3, <2>4 DEF OnBlockStarted, ProducerType, AirType, FaultType,
                                              airVars, faultVars
<1>4. CASE OnBlockComplete
  <2>1. SessionType'
    BY <1>4, ReadEvent DEF OnBlockComplete, SessionType, sessionVars
  <2>2. credits' \in 0..QueueDepth
    BY <1>4, CreditedType DEF OnBlockComplete, CompletionCredit, ProducerType
  <2>3. loop' \in 0..QueueDepth /\ errors' \in Nat /\ backoff' \in 0..BackoffMax
    BY <1>4, <2>2, FeedAheadType, FeedAssumption DEF OnBlockComplete, ProducerType
  <2>4. feedState' \in {"CREATED", "SEEDED", "RUNNING", "DRAINING"}
    BY <1>4 DEF OnBlockComplete, NextState, ProducerType
  <2>5. inFlight' \subseteq Nat /\ completed' \subseteq Nat
    <3>1. Head(events).block \in Nat
      BY <1>4, ReadEvent DEF OnBlockComplete, Event
    <3> QED BY <1>4, <3>1 DEF OnBlockComplete, ProducerType
  <2> QED BY <1>4, <2>1, <2>2, <2>3, <2>4, <2>5 DEF OnBlockComplete, ProducerType, AirType,
                                                    FaultType, airVars, faultVars
<1>5. CASE ReadSessionEnded
  BY <1>5, ReadEvent DEF ReadSessionEnded, SessionType, ProducerType, AirType, FaultType,
                         producerVars, airVars, faultVars
<1>6. CASE OnSessionEnd
  BY <1>6 DEF OnSessionEnd, SessionType, ProducerType, AirType, FaultType, airVars, faultVars
<1> QED BY <1>1, <1>2, <1>3, <1>4, <1>5, <1>6 DEF EventThread

LEMMA DataEnd ==
  ASSUME DataType, StreamBreaks \/ Stop \/ ExtendHorizon
  PROVE  DataType'
<1> USE DEF DataType, ProducerType, SessionType, AirType, FaultType
<1>1. CASE StreamBreaks
  BY <1>1 DEF StreamBreaks, producerVars, airVars, faultVars
<1>2. CASE Stop
  <2>1. ProducerType'
    BY <1>2, FeedAssumption DEF Stop
  <2>2. SessionType'
    BY <1>2 DEF Stop
  <2> QED BY <1>2, <2>1, <2>2 DEF Stop, faultVars
<1>3. CASE ExtendHorizon
  BY <1>3 DEF ExtendHorizon, producerVars, sessionVars, airVars, faultVars
<1> QED BY <1>1, <1>2, <1>3

\* Writing events keeps the stream a sequence of events.
LEMMA EmitType ==
  ASSUME DataType, NEW evs \in Seq(Event), Emit(evs)
  PROVE  events' \in Seq(Event) /\ missed' \in Nat
<1>1. events \in Seq(Event) /\ missed \in Nat
  BY DEF DataType, SessionType, FaultType
<1>2. CASE events' = events \o evs /\ missed' = missed
  BY <1>1, <1>2
<1>3. CASE missed' = missed + Len(evs) /\ events' = events
  BY <1>1, <1>3
<1> QED BY <1>2, <1>3 DEF Emit

\* What AIR emits are events.
LEMMA EventTypes ==
  ASSUME DataType
  PROVE  /\ \A k \in prep : Started(k) \in Event
         /\ live # 0 => Completed \in Event
         /\ [type |-> "ended", block |-> 0, play |-> plays] \in Event
<1>1. plays \in Nat /\ \A k \in 1..Len(delivered) : delivered[k] \in Nat
  BY DEF DataType, AirType
<1>2. prep \subseteq 1..Len(delivered) /\ (live # 0 => live \in 1..Len(delivered))
  BY DEF DataType, AirType
<1>3. ASSUME NEW k \in prep PROVE Started(k) \in Event
  <2>1. delivered[k] \in Nat /\ plays + 1 \in Nat
    BY <1>1, <1>2
  <2> QED BY <2>1 DEF Started, Event
<1>4. ASSUME live # 0 PROVE Completed \in Event
  <2>1. delivered[live] \in Nat
    BY <1>1, <1>2, <1>4
  <2> QED BY <1>1, <2>1 DEF Completed, Event
<1>5. [type |-> "ended", block |-> 0, play |-> plays] \in Event
  BY <1>1 DEF Event
<1> QED BY <1>3, <1>4, <1>5

\* AIR leaves the producer and the session as they are.
LEMMA DataAir ==
  ASSUME DataType, Air
  PROVE  DataType'
<1> USE DEF DataType
<1>1. ProducerType' /\ (events' \in Seq(Event) => SessionType')
  BY DEF Air, AirEngine, AirPop, AirLose, AirRepeat, AirStart, AirFence, AirGap, AirEnd, AirCrash,
         AirUnchanged, producerVars, sessionVars, ProducerType, SessionType
<1>2. CASE AirPop
  BY <1>1, <1>2 DEF AirPop, AirQueueLen, faultVars, SessionType, AirType, FaultType
<1>3. CASE AirLose
  BY <1>1, <1>3 DEF AirLose, SessionType, AirType, FaultType
<1>9. CASE AirRepeat
  BY <1>1, <1>9 DEF AirRepeat, SessionType, AirType, FaultType
<1>4. CASE AirStart
  <2>1. PICK k \in prep : /\ live' = k /\ prep' = prep \ {k} /\ plays' = plays + 1
                          /\ Emit(<<Started(k)>>)
    BY <1>4 DEF AirStart
  <2>2. <<Started(k)>> \in Seq(Event)
    BY EventTypes
  <2>3. events' \in Seq(Event) /\ missed' \in Nat
    BY <2>1, <2>2, EmitType
  <2> QED BY <1>1, <1>4, <2>1, <2>3 DEF AirStart, AirType, FaultType
<1>5. CASE AirFence
  <2>1. PICK k \in prep : /\ live' = k /\ prep' = prep \ {k} /\ plays' = plays + 1
                          /\ Emit(<<Completed, Started(k)>>)
    BY <1>5 DEF AirFence
  <2>2. <<Completed, Started(k)>> \in Seq(Event)
    BY <1>5, EventTypes DEF AirFence
  <2>3. events' \in Seq(Event) /\ missed' \in Nat
    BY <2>1, <2>2, EmitType
  <2> QED BY <1>1, <1>5, <2>1, <2>3 DEF AirFence, AirType, FaultType
<1>6. CASE AirGap
  <2>1. <<Completed>> \in Seq(Event)
    BY <1>6, EventTypes DEF AirGap
  <2>2. events' \in Seq(Event) /\ missed' \in Nat
    BY <1>6, <2>1, EmitType DEF AirGap
  <2> QED BY <1>1, <1>6, <2>2 DEF AirGap, AirType, FaultType
<1>7. CASE AirEnd
  <2>1. <<[type |-> "ended", block |-> 0, play |-> plays]>> \in Seq(Event)
    BY EventTypes
  <2>2. events' \in Seq(Event) /\ missed' \in Nat
    BY <1>7, <2>1, EmitType DEF AirEnd
  <2> QED BY <1>1, <1>7, <2>2 DEF AirEnd, AirType, FaultType
<1>8. CASE AirCrash
  <2>1. events' \in Seq(Event)
    BY <1>8 DEF SessionType, AirCrash
  <2> QED BY <1>1, <1>8, <2>1 DEF AirCrash, AirType, FaultType, faultVars
<1> QED BY <1>2, <1>3, <1>4, <1>5, <1>6, <1>7, <1>8, <1>9 DEF Air, AirEngine

\* Every step keeps the types; LockInv is what keeps the ledger from going
\* below zero inside a handler's loop.
LEMMA TypeStep == ASSUME TypeOK, LockInv, [Next]_vars PROVE TypeOK'
<1>1. FlagType' /\ DataType
  BY FlagStep DEF TypeOK, DataType
<1>2. CASE Core
  BY <1>1, <1>2, DataStart, DataFeed, DataHandler, DataEnd DEF Core, FeedLoop, TypeOK, DataType
<1>3. CASE Air
  BY <1>1, <1>3, DataAir DEF TypeOK, DataType
<1>4. CASE UNCHANGED vars
  <2>1. DataType'
    BY <1>1, <1>4 DEF vars, producerVars, sessionVars, airVars, faultVars, DataType,
                      ProducerType, SessionType, AirType, FaultType
  <2> QED BY <1>1, <2>1 DEF TypeOK, DataType
<1> QED BY <1>2, <1>3, <1>4 DEF Next, Finished

(***************************************************************************)
(* The producer's side of the invariant.                                   *)
(***************************************************************************)

LEMMA LockStep ==
  ASSUME TypeOK, LockInv, [Next]_vars
  PROVE  LockInv'
<1>1. CASE SeedSession
  BY <1>1 DEF LockInv, SeedSession, producerVars
<1>2. CASE StartFails
  BY <1>2 DEF LockInv, StartFails, producerVars
<1>3. CASE FinishStart
  BY <1>3 DEF LockInv, FinishStart
<1>4. CASE FeedStep
  <2>1. loop > 0 /\ phase = "up" /\ phase' = "up" /\ loop <= credits
    BY <1>4 DEF FeedStep, unchangedByFeed, LockInv
  <2>2. credits \in Nat /\ loop \in Nat
    BY FeedAssumption DEF TypeOK, ProducerType
  <2>3. \/ loop' = 0
        \/ loop' = loop - 1 /\ credits' = credits - 1
    <3>1. DataType
      BY DEF TypeOK, DataType
    <3>2. FeedAccepted(Candidate) \/ loop' = 0
      BY <1>4, <3>1, FeedOutcomes, Zenon DEF FeedError, FeedQueueFull
    <3> QED BY <3>2, Zenon DEF FeedAccepted
  <2>4. loop' > 0 => loop' <= credits'
    BY <2>1, <2>2, <2>3
  <2> QED BY <2>1, <2>4 DEF LockInv
<1>5. CASE FeedNoPlan
  BY <1>5 DEF LockInv, FeedNoPlan, airVars
<1>6. CASE Tick
  <2>1. FeedAhead(feedState, credits) <= credits
    BY FeedAheadType DEF TypeOK, ProducerType
  <2> QED BY <1>6, <2>1 DEF LockInv, Tick, LockFree, airVars
<1>7. CASE OnBlockStarted \/ OnBlockComplete
  <2>1. credits' \in 0..QueueDepth
    BY TypeStep DEF TypeOK, ProducerType
  <2>2. FeedAhead(NextState, credits') <= credits'
    BY <2>1, FeedAheadType
  <2> QED BY <1>7, <2>2 DEF LockInv, OnBlockStarted, OnBlockComplete, LockFree
<1>8. CASE Subscribe \/ ReadSessionEnded \/ StreamBreaks \/ ExtendHorizon \/ Air
  BY <1>8 DEF LockInv, Subscribe, ReadSessionEnded, StreamBreaks, ExtendHorizon, Air, AirEngine,
              AirPop, AirLose, AirRepeat, AirStart, AirFence, AirGap, AirEnd, AirCrash,
              AirUnchanged, producerVars, airVars
<1>9. CASE OnSessionEnd
  BY <1>9 DEF LockInv, OnSessionEnd, airVars
<1>10. CASE Stop
  BY <1>10 DEF LockInv, Stop, LockFree
<1>11. CASE UNCHANGED vars
  BY <1>11 DEF LockInv, vars, producerVars, airVars
<1> QED BY <1>1, <1>2, <1>3, <1>4, <1>5, <1>6, <1>7, <1>8, <1>9, <1>10, <1>11
        DEF Next, Core, FeedLoop, EventThread, Finished

\* What the delivery invariants are about, and who changes it.
deliveryVars == <<phase, pending, cursor, delivered, lostReplies>>

LEMMA DeliveryFrame ==
  ASSUME [Next]_vars
  PROVE  SeedSession \/ StartFails \/ FinishStart \/ FeedStep \/ Stop \/ UNCHANGED deliveryVars
BY DEF Next, Core, FeedLoop, EventThread, Finished, vars, Subscribe, FeedNoPlan, Tick,
       OnBlockStarted, OnBlockComplete, ReadSessionEnded, OnSessionEnd, StreamBreaks,
       ExtendHorizon, Air, AirEngine, AirPop, AirLose, AirRepeat, AirStart, AirFence, AirGap,
       AirEnd, AirCrash, AirUnchanged, producerVars, airVars, faultVars, deliveryVars

\* One more block behind a history without gaps.
LEMMA GapFreeAppend ==
  ASSUME DeliveredGapFree, delivered \in Seq(Nat), delivered # <<>>, NEW b \in Nat,
         b - delivered[Len(delivered)] \in {0, 1}, delivered' = Append(delivered, b)
  PROVE  DeliveredGapFree'
BY DEF DeliveredGapFree

\* The bound of DeliveryInv when start() returns.
LEMMA LenBound ==
  ASSUME NEW len, NEW c, NEW lost \in Nat, len = 2, c = 3
  PROVE  len <= c - 1 + lost
OBVIOUS

LEMMA DeliveryStep ==
  ASSUME TypeOK, LockInv, RetryInv, DeliveryInv, DeliveredGapFree, [Next]_vars
  PROVE  RetryInv' /\ DeliveryInv' /\ DeliveredGapFree'
<1>1. CASE SeedSession
  BY <1>1 DEF SeedSession, RetryInv, DeliveryInv, DeliveredGapFree
<1>2. CASE StartFails
  BY <1>2 DEF StartFails, airVars, RetryInv, DeliveryInv, DeliveredGapFree
<1>3. CASE FinishStart
  <2>1. delivered = <<1, 2>> /\ delivered' = <<1, 2>> /\ cursor' = 3 /\ pending' = 0
        /\ lostReplies' \in Nat
    BY <1>3 DEF FinishStart, LockInv, airVars, faultVars, TypeOK, FaultType
  <2>2. Len(delivered') = 2 /\ delivered'[1] = 1 /\ delivered'[2] = 2 /\ delivered' # <<>>
    BY <2>1
  <2>3. DeliveredGapFree'
    BY <2>2 DEF DeliveredGapFree
  <2>4. delivered'[Len(delivered')] = cursor' - 1
    BY <2>1, <2>2
  <2>5. Len(delivered') <= cursor' - 1 + lostReplies'
    BY <2>1, <2>2, LenBound, Zenon
  <2> QED BY <2>1, <2>2, <2>3, <2>4, <2>5 DEF RetryInv, DeliveryInv
<1>4. CASE FeedStep
  <2>1. /\ phase = "up" /\ phase' = "up"
        /\ pending \in {0, cursor} /\ delivered # <<>>
        /\ delivered[Len(delivered)] \in {cursor - 1, cursor}
        /\ Len(delivered) <= cursor - 1 + lostReplies
    BY <1>4 DEF FeedStep, unchangedByFeed, LockInv, RetryInv, DeliveryInv
  <2>2. Candidate = cursor
    BY <2>1 DEF Candidate
  <2>3. delivered \in Seq(Nat) /\ cursor \in Nat /\ lostReplies \in Nat
    BY DEF TypeOK, AirType, ProducerType, FaultType
  <2>4. CASE FeedError(cursor) /\ delivered' = delivered /\ lostReplies' = lostReplies
    BY <2>1, <2>3, <2>4 DEF FeedError, RetryInv, DeliveryInv, DeliveredGapFree
  <2>5. CASE FeedQueueFull(cursor) /\ delivered' = delivered /\ lostReplies' = lostReplies
    BY <2>1, <2>3, <2>5 DEF FeedQueueFull, RetryInv, DeliveryInv, DeliveredGapFree
  <2>6. ASSUME delivered' = Append(delivered, cursor)
        PROVE  /\ delivered' # <<>> /\ delivered'[Len(delivered')] = cursor
               /\ Len(delivered') = Len(delivered) + 1
               /\ DeliveredGapFree'
    <3>1. cursor - delivered[Len(delivered)] \in {0, 1}
      BY <2>1, <2>3
    <3>2. DeliveredGapFree'
      BY <2>1, <2>3, <2>6, <3>1, GapFreeAppend
    <3> QED BY <2>3, <2>6, <3>2
  <2>7. CASE FeedError(cursor) /\ delivered' = Append(delivered, cursor)
             /\ lostReplies' = lostReplies + 1
    BY <2>1, <2>3, <2>6, <2>7 DEF FeedError, RetryInv, DeliveryInv
  <2>8. CASE FeedAccepted(cursor) /\ delivered' = Append(delivered, cursor)
             /\ lostReplies' = lostReplies
    BY <2>1, <2>3, <2>6, <2>8 DEF FeedAccepted, RetryInv, DeliveryInv
  <2> QED BY <1>4, <2>2, <2>4, <2>5, <2>7, <2>8, FeedOutcomes DEF TypeOK, DataType
<1>5. CASE Stop
  BY <1>5 DEF Stop, RetryInv, DeliveryInv, DeliveredGapFree
<1>6. CASE UNCHANGED deliveryVars
  BY <1>6 DEF deliveryVars, RetryInv, DeliveryInv, DeliveredGapFree
<1> QED BY <1>1, <1>2, <1>3, <1>4, <1>5, <1>6, DeliveryFrame

(***************************************************************************)
(* AIR's side and the event stream.                                        *)
(***************************************************************************)

airPlayVars == <<popped, prep, live, plays, repeats>>

LEMMA PlayFrame ==
  ASSUME [Next]_vars
  PROVE  AirPop \/ AirLose \/ AirRepeat \/ AirStart \/ AirFence \/ AirGap \/ UNCHANGED airPlayVars
BY DEF Next, Core, FeedLoop, EventThread, Finished, vars, SeedSession, StartFails, FinishStart,
       Subscribe, FeedStep, unchangedByFeed, FeedNoPlan, Tick, OnBlockStarted, OnBlockComplete,
       ReadSessionEnded, OnSessionEnd, StreamBreaks, Stop, ExtendHorizon, Air, AirEngine, AirEnd,
       AirCrash, airVars, faultVars, airPlayVars

LEMMA PlayStep ==
  ASSUME TypeOK, PlayInv, [Next]_vars
  PROVE  PlayInv'
<1>1. /\ popped \in Nat /\ plays \in Nat /\ prep \subseteq 1..popped /\ IsFiniteSet(prep)
      /\ Cardinality(prep) \in Nat /\ live \in Nat /\ repeats \in Nat
  BY FS_CardinalityType DEF TypeOK, AirType, FaultType, PlayInv
<1>2. CASE AirPop
  <2>1. popped + 1 \notin prep
    BY <1>1
  <2>2. IsFiniteSet(prep') /\ Cardinality(prep') = Cardinality(prep) + 1
    BY <1>1, <1>2, <2>1, FS_AddElement DEF AirPop
  <2> QED BY <1>1, <1>2, <2>2 DEF AirPop, faultVars, PlayInv
<1>3. ASSUME NEW k \in prep, prep' = prep \ {k}
      PROVE  IsFiniteSet(prep') /\ Cardinality(prep') = Cardinality(prep) - 1
  BY <1>1, <1>3, FS_RemoveElement
<1>4. CASE AirLose
  <2>1. PICK k \in prep : prep' = prep \ {k}
    BY <1>4 DEF AirLose
  <2>2. IsFiniteSet(prep') /\ Cardinality(prep') = Cardinality(prep) - 1
    BY <1>3, <2>1
  <2> QED BY <1>1, <1>4, <2>2 DEF AirLose, PlayInv
<1>5. CASE AirStart \/ AirFence
  <2>1. PICK k \in prep : prep' = prep \ {k}
    BY <1>5 DEF AirStart, AirFence
  <2>2. IsFiniteSet(prep') /\ Cardinality(prep') = Cardinality(prep) - 1
    BY <1>3, <2>1
  <2>3. popped' = popped /\ plays' = plays + 1 /\ repeats' = repeats
    BY <1>5 DEF AirStart, AirFence
  <2> QED BY <1>1, <2>2, <2>3 DEF PlayInv
<1>6. CASE AirGap
  BY <1>6 DEF AirGap, PlayInv
<1>7. CASE UNCHANGED airPlayVars
  BY <1>7 DEF airPlayVars, PlayInv
<1>8. CASE AirRepeat
  <2>1. IsFiniteSet(prep') /\ Cardinality(prep') = Cardinality(prep) + 1
    BY <1>1, <1>8, FS_AddElement DEF AirRepeat
  <2> QED BY <1>1, <1>8, <2>1 DEF AirRepeat, PlayInv
<1> QED BY <1>2, <1>4, <1>5, <1>6, <1>7, <1>8, PlayFrame

\* Keys are numbers.
LEMMA KeyType == ASSUME NEW e \in Event PROVE Key(e) \in Nat
<1>1. e.play \in Nat
  BY DEF Event
<1> QED BY <1>1 DEF Key

\* The order of the stream when its head is read, ...
LEMMA BetweenTail ==
  ASSUME NEW evs \in Seq(Event), evs # <<>>, NEW h \in Nat, NEW top \in Nat, Between(evs, h, top)
  PROVE  /\ Between(Tail(evs), h, top)
         /\ Head(evs).type # "ended" => /\ Between(Tail(evs), Key(Head(evs)), top)
                                        /\ h < Key(Head(evs)) /\ Head(evs).play > 0
<1>1. /\ Len(Tail(evs)) = Len(evs) - 1 /\ Len(evs) >= 1 /\ Len(evs) \in Nat
      /\ \A k \in 1..Len(Tail(evs)) : Tail(evs)[k] = evs[k + 1] /\ k + 1 \in 1..Len(evs)
      /\ Head(evs) = evs[1]
  OBVIOUS
<1>2. Between(Tail(evs), h, top)
  BY <1>1 DEF Between
<1>3. ASSUME Head(evs).type # "ended"
      PROVE  /\ Between(Tail(evs), Key(Head(evs)), top)
             /\ h < Key(Head(evs)) /\ Head(evs).play > 0
  <2>1. 1 \in 1..Len(evs) /\ h < Key(evs[1]) /\ Key(evs[1]) <= top /\ evs[1].play > 0
    BY <1>1, <1>3 DEF Between
  <2>2. \A k \in 1..Len(Tail(evs)) : Tail(evs)[k].type # "ended"
           => /\ Key(evs[1]) < Key(Tail(evs)[k]) /\ Key(Tail(evs)[k]) <= top
              /\ Tail(evs)[k].play > 0
    BY <1>1, <1>3, <2>1 DEF Between
  <2> QED BY <1>1, <1>2, <2>1, <2>2 DEF Between
<1> QED BY <1>2, <1>3

\* ... when AIR's position moves on, ...
LEMMA BetweenRaise ==
  ASSUME NEW evs \in Seq(Event), NEW h \in Nat, NEW top \in Nat, NEW newTop \in Nat,
         top <= newTop, Between(evs, h, top)
  PROVE  Between(evs, h, newTop)
<1>1. \A k \in 1..Len(evs) : Key(evs[k]) \in Nat
  BY KeyType
<1> QED BY <1>1 DEF Between

\* ... when an event is written, ...
LEMMA BetweenAppend ==
  ASSUME NEW evs \in Seq(Event), NEW h \in Nat, NEW top \in Nat, NEW e \in Event,
         Between(evs, h, top), top < Key(e), e.play > 0
  PROVE  Between(Append(evs, e), h, Key(e))
<1>1. Key(e) \in Nat /\ \A k \in 1..Len(evs) : Key(evs[k]) \in Nat
  BY KeyType
<1>2. /\ Len(Append(evs, e)) = Len(evs) + 1 /\ Len(evs) \in Nat
      /\ \A k \in 1..Len(evs) : Append(evs, e)[k] = evs[k]
      /\ Append(evs, e)[Len(evs) + 1] = e
  OBVIOUS
<1>3. \A k \in 1..(Len(evs) + 1) : k \in 1..Len(evs) \/ k = Len(evs) + 1
  BY <1>2
<1> QED BY <1>1, <1>2, <1>3 DEF Between

LEMMA BetweenAppendEnded ==
  ASSUME NEW evs \in Seq(Event), NEW h \in Nat, NEW top \in Nat, NEW e \in Event,
         Between(evs, h, top), e.type = "ended"
  PROVE  Between(Append(evs, e), h, top)
<1>1. /\ Len(Append(evs, e)) = Len(evs) + 1 /\ Len(evs) \in Nat
      /\ \A k \in 1..Len(evs) : Append(evs, e)[k] = evs[k]
      /\ Append(evs, e)[Len(evs) + 1] = e
  OBVIOUS
<1>2. \A k \in 1..(Len(evs) + 1) : k \in 1..Len(evs) \/ k = Len(evs) + 1
  BY <1>1
<1> QED BY <1>1, <1>2 DEF Between

\* ... and when a crash cuts it off.
LEMMA BetweenPrefix ==
  ASSUME NEW evs \in Seq(Event), NEW h \in Nat, NEW top \in Nat, NEW n \in 0..Len(evs),
         Between(evs, h, top)
  PROVE  Between(SubSeq(evs, 1, n), h, top)
<1>1. /\ Len(SubSeq(evs, 1, n)) = n
      /\ \A k \in 1..n : SubSeq(evs, 1, n)[k] = evs[k] /\ k \in 1..Len(evs)
  OBVIOUS
<1> QED BY <1>1 DEF Between

streamVars == <<events, heard, plays, live>>

LEMMA StreamFrame ==
  ASSUME [Next]_vars
  PROVE  \/ OnBlockStarted \/ OnBlockComplete \/ ReadSessionEnded \/ Stop
         \/ AirStart \/ AirFence \/ AirGap \/ AirEnd \/ AirCrash \/ UNCHANGED streamVars
BY DEF Next, Core, FeedLoop, EventThread, Finished, vars, SeedSession, StartFails, FinishStart,
       Subscribe, FeedStep, unchangedByFeed, FeedNoPlan, Tick, OnSessionEnd, StreamBreaks,
       ExtendHorizon, Air, AirEngine, AirPop, AirLose, AirRepeat, AirUnchanged, airVars, streamVars

LEMMA StreamStep ==
  ASSUME TypeOK, PlayInv, Between(events, heard, LastKey), [Next]_vars
  PROVE  Between(events, heard, LastKey)'
<1>1. /\ events \in Seq(Event) /\ heard \in Nat /\ plays \in Nat /\ live \in Nat
      /\ LastKey \in Nat /\ (live # 0 => plays > 0)
  BY DEF TypeOK, SessionType, AirType, PlayInv, LastKey
<1>2. CASE OnBlockStarted \/ OnBlockComplete
  <2>1. /\ events # <<>> /\ Head(events).type # "ended"
        /\ events' = Tail(events) /\ heard' = Key(Head(events)) /\ LastKey' = LastKey
    BY <1>2 DEF OnBlockStarted, OnBlockComplete, airVars, LastKey
  <2>2. Between(Tail(events), Key(Head(events)), LastKey)
    BY <1>1, <2>1, BetweenTail
  <2> QED BY <2>1, <2>2
<1>3. CASE ReadSessionEnded
  <2>1. events # <<>> /\ events' = Tail(events) /\ heard' = heard /\ LastKey' = LastKey
    BY <1>3 DEF ReadSessionEnded, airVars, LastKey
  <2>2. Between(Tail(events), heard, LastKey)
    BY <1>1, <2>1, BetweenTail
  <2> QED BY <2>1, <2>2
<1>4. CASE Stop
  <2>1. events' = <<>> /\ heard' = heard /\ LastKey' = LastKey
    BY <1>4 DEF Stop, LastKey
  <2> QED BY <2>1 DEF Between
<1>5. CASE AirStart
  <2>1. PICK k \in prep : live' = k /\ plays' = plays + 1 /\ Emit(<<Started(k)>>)
    BY <1>5 DEF AirStart
  <2>2. /\ Started(k) \in Event /\ Started(k).play = plays + 1
        /\ Key(Started(k)) = 2 * (plays + 1) /\ k # 0
    BY <2>1, EventTypes DEF Started, Key, TypeOK, DataType, AirType
  <2>3. heard' = heard /\ LastKey' = Key(Started(k)) /\ LastKey < Key(Started(k))
    BY <1>1, <1>5, <2>1, <2>2 DEF AirStart, AirUnchanged, LastKey
  <2>4. CASE events' = events
    BY <1>1, <2>2, <2>3, <2>4, BetweenRaise, KeyType
  <2>5. CASE events' = events \o <<Started(k)>>
    <3>1. events \o <<Started(k)>> = Append(events, Started(k))
      BY <1>1, <2>2, AppendIsConcat
    <3>2. Between(Append(events, Started(k)), heard, Key(Started(k)))
      BY <1>1, <2>2, <2>3, BetweenAppend
    <3> QED BY <2>3, <2>5, <3>1, <3>2
  <2> QED BY <2>1, <2>4, <2>5 DEF Emit
<1>6. CASE AirFence
  <2>1. PICK k \in prep : live' = k /\ plays' = plays + 1 /\ Emit(<<Completed, Started(k)>>)
    BY <1>6 DEF AirFence
  <2>2. /\ Started(k) \in Event /\ Started(k).play = plays + 1
        /\ Key(Started(k)) = 2 * (plays + 1) /\ k # 0
    BY <2>1, EventTypes DEF Started, Key, TypeOK, DataType, AirType
  <2>3. /\ Completed \in Event /\ Completed.play = plays /\ Key(Completed) = 2 * plays + 1
        /\ plays > 0
    BY <1>1, <1>6, EventTypes DEF AirFence, Completed, Key, TypeOK, DataType
  <2>4. /\ heard' = heard /\ LastKey' = Key(Started(k))
        /\ LastKey < Key(Completed) /\ Key(Completed) < Key(Started(k))
        /\ LastKey <= LastKey'
    BY <1>1, <1>6, <2>1, <2>2, <2>3 DEF AirFence, AirUnchanged, LastKey
  <2>5. CASE events' = events
    BY <1>1, <2>2, <2>4, <2>5, BetweenRaise, KeyType
  <2>6. CASE events' = events \o <<Completed, Started(k)>>
    <3> DEFINE first == Append(events, Completed)
    <3>1. events' = Append(first, Started(k)) /\ first \in Seq(Event)
      BY <1>1, <2>2, <2>3, <2>6
    <3>2. Between(first, heard, Key(Completed))
      BY <1>1, <2>3, <2>4, BetweenAppend
    <3>3. Key(Completed) \in Nat /\ Started(k).play > 0
      BY <1>1, <2>2, <2>3
    <3>4. Between(Append(first, Started(k)), heard, Key(Started(k)))
      <4> HIDE DEF first
      <4> QED BY <1>1, <2>2, <2>4, <3>1, <3>2, <3>3, BetweenAppend
    <3> QED BY <2>4, <3>1, <3>4
  <2> QED BY <2>1, <2>5, <2>6 DEF Emit
<1>7. CASE AirGap
  <2>1. /\ Completed \in Event /\ Completed.play = plays /\ Key(Completed) = 2 * plays + 1
        /\ plays > 0
    BY <1>1, <1>7, EventTypes DEF AirGap, Completed, Key, TypeOK, DataType
  <2>2. heard' = heard /\ LastKey' = Key(Completed) /\ LastKey < Key(Completed)
    BY <1>1, <1>7, <2>1 DEF AirGap, AirUnchanged, LastKey
  <2>3. CASE events' = events
    BY <1>1, <2>1, <2>2, <2>3, BetweenRaise, KeyType
  <2>4. CASE events' = events \o <<Completed>>
    <3>1. events \o <<Completed>> = Append(events, Completed)
      BY <1>1, <2>1, AppendIsConcat
    <3>2. Between(Append(events, Completed), heard, Key(Completed))
      BY <1>1, <2>1, <2>2, BetweenAppend
    <3> QED BY <2>2, <2>4, <3>1, <3>2
  <2> QED BY <1>7, <2>3, <2>4 DEF AirGap, Emit
<1>8. CASE AirEnd
  <2> DEFINE e == [type |-> "ended", block |-> 0, play |-> plays]
  <2>1. e \in Event /\ e.type = "ended"
    BY EventTypes DEF TypeOK, DataType
  <2>2. heard' = heard /\ LastKey' = LastKey /\ Emit(<<e>>)
    BY <1>8 DEF AirEnd, AirUnchanged, LastKey
  <2> HIDE DEF e
  <2>3. CASE events' = events
    BY <2>2, <2>3
  <2>4. CASE events' = events \o <<e>>
    <3>1. events \o <<e>> = Append(events, e)
      BY <1>1, <2>1, AppendIsConcat
    <3>2. Between(Append(events, e), heard, LastKey)
      BY <1>1, <2>1, BetweenAppendEnded
    <3> QED BY <2>2, <2>4, <3>1, <3>2
  <2> QED BY <2>2, <2>3, <2>4 DEF Emit
<1>9. CASE AirCrash
  <2>1. PICK n \in 0..Len(events) : events' = SubSeq(events, 1, n)
    BY <1>9 DEF AirCrash
  <2>2. heard' = heard /\ LastKey' = LastKey
    BY <1>9 DEF AirCrash, AirUnchanged, LastKey
  <2>3. Between(SubSeq(events, 1, n), heard, LastKey)
    BY <1>1, BetweenPrefix
  <2> QED BY <2>1, <2>2, <2>3
<1>10. CASE UNCHANGED streamVars
  BY <1>10 DEF streamVars, Between, LastKey
<1> QED BY <1>2, <1>3, <1>4, <1>5, <1>6, <1>7, <1>8, <1>9, <1>10, StreamFrame

(***************************************************************************)
(* The ledger against the stream.                                          *)
(***************************************************************************)

ledgerVars == <<phase, credits, cursor, heard, startedSeen>>

LEMMA LedgerFrame ==
  ASSUME [Next]_vars
  PROVE  \/ SeedSession \/ StartFails \/ FinishStart \/ FeedStep \/ OnBlockStarted
         \/ OnBlockComplete \/ Stop \/ UNCHANGED ledgerVars
BY Zenon DEF Next, Core, FeedLoop, EventThread, Finished, vars, Subscribe, FeedNoPlan, Tick,
       ReadSessionEnded, OnSessionEnd, StreamBreaks, ExtendHorizon, Air, AirEngine, AirPop,
       AirLose, AirRepeat, AirStart, AirFence, AirGap, AirEnd, AirCrash, AirUnchanged, producerVars,
       ledgerVars

\* A BlockStarted is an activation nobody was credited for.
LEMMA StartedHeard ==
  ASSUME TypeOK, Between(events, heard, LastKey), OnBlockStarted
  PROVE  \E p \in Nat : heard < 2 * p /\ heard' = 2 * p
<1>1. /\ Head(events) \in Event /\ Head(events).type = "started" /\ heard' = Key(Head(events))
      /\ events \in Seq(Event) /\ events # <<>> /\ heard \in Nat /\ LastKey \in Nat
  BY ReadEvent DEF OnBlockStarted, TypeOK, SessionType, AirType, LastKey
<1>2. heard < Key(Head(events))
  BY <1>1, BetweenTail
<1>3. Key(Head(events)) = 2 * Head(events).play + 0 /\ Head(events).play \in Nat
  BY <1>1 DEF Key, Event
<1> QED BY <1>1, <1>2, <1>3

\* A completion comes after the activation of its block.
LEMMA CompletedHeard ==
  ASSUME TypeOK, Between(events, heard, LastKey), OnBlockComplete
  PROVE  \E p \in Nat : p > 0 /\ heard < 2 * p + 1 /\ heard' = 2 * p + 1
<1>1. /\ Head(events) \in Event /\ Head(events).type = "completed" /\ heard' = Key(Head(events))
      /\ events \in Seq(Event) /\ events # <<>> /\ heard \in Nat /\ LastKey \in Nat
  BY ReadEvent DEF OnBlockComplete, TypeOK, SessionType, AirType, LastKey
<1>2. heard < Key(Head(events)) /\ Head(events).play > 0
  BY <1>1, BetweenTail
<1>3. Key(Head(events)) = 2 * Head(events).play + 1 /\ Head(events).play \in Nat
  BY <1>1 DEF Key, Event
<1> QED BY <1>1, <1>2, <1>3

LEMMA HeardStep ==
  ASSUME TypeOK, LockInv, StreamInv, [Next]_vars
  PROVE  (startedSeen \/ heard = 0 \/ Odd(heard) \/ phase = "stopped")'
<1> USE DEF StreamInv
<1>1. CASE SeedSession \/ StartFails \/ FinishStart
  BY <1>1 DEF SeedSession, StartFails, FinishStart, LockInv, producerVars
<1>2. CASE FeedStep
  BY <1>2 DEF FeedStep, unchangedByFeed
<1>3. CASE OnBlockStarted
  BY <1>3 DEF OnBlockStarted
<1>4. CASE OnBlockComplete
  <2>1. PICK p \in Nat : heard' = 2 * p + 1
    BY <1>4, CompletedHeard
  <2>2. p \in 0..heard'
    BY <2>1
  <2> QED BY <2>1, <2>2 DEF Odd
<1>5. CASE Stop
  BY <1>5 DEF Stop
<1>6. CASE UNCHANGED ledgerVars
  BY <1>6 DEF ledgerVars
<1> QED BY <1>1, <1>2, <1>3, <1>4, <1>5, <1>6, LedgerFrame

\* What Core owes: blocks sent and credits, beyond the queue's depth.
Owed(c, k) == c + k - 1 - QueueDepth

LEMMA OwedFeed ==
  ASSUME NEW c \in Nat, NEW k \in Nat, NEW c1 \in Nat, NEW k1 \in Nat, NEW h \in Nat,
         (k1 = k + 1 /\ c1 = c - 1) \/ (k1 = k /\ (c1 = c \/ c1 = 0)),
         2 * Owed(c, k) <= h
  PROVE  2 * Owed(c1, k1) <= h
BY FeedAssumption DEF Owed

LEMMA OwedCredit ==
  ASSUME NEW c \in Nat, NEW k \in Nat, NEW c1 \in Nat, c1 <= c + 1
  PROVE  Owed(c1, k) <= Owed(c, k) + 1 /\ Owed(c1, k) \in Int /\ Owed(c, k) \in Int
BY FeedAssumption DEF Owed

\* The arithmetic of a credit: Core owes one more, and has heard of one more
\* activation (2p: it started; 2p + 1: it is over).
LEMMA CreditStarted ==
  ASSUME NEW x \in Int, NEW y \in Int, NEW h \in Nat, NEW p \in Nat,
         2 * x <= h, y <= x + 1, h < 2 * p
  PROVE  2 * y <= 2 * p
OBVIOUS

LEMMA CreditCompleted ==
  ASSUME NEW x \in Int, NEW y \in Int, NEW h \in Nat, NEW p \in Nat, p > 0,
         2 * x <= h, h < 2 * p + 1,
         y <= x \/ (y <= x + 1 /\ (h = 0 \/ \E q \in 0..h : h = 2 * q + 1))
  PROVE  2 * y <= 2 * p + 1
OBVIOUS

LEMMA LedgerStep ==
  ASSUME TypeOK, LockInv, RetryInv, StreamInv, LedgerInv, [Next]_vars
  PROVE  LedgerInv'
<1>1. /\ QueueDepth \in Nat /\ QueueDepth >= 2
      /\ credits \in Nat /\ cursor \in Nat /\ heard \in Nat
      /\ credits' \in Nat /\ cursor' \in Nat /\ heard' \in Nat
  BY FeedAssumption, TypeStep DEF TypeOK, ProducerType, SessionType
<1>2. LedgerInv <=> (phase = "up" => 2 * Owed(credits, cursor) <= heard)
  BY DEF LedgerInv, Owed
<1>3. LedgerInv' <=> (phase' = "up" => 2 * Owed(credits', cursor') <= heard')
  BY DEF LedgerInv, Owed
<1>4. CASE SeedSession \/ StartFails \/ Stop
  BY <1>4 DEF SeedSession, StartFails, Stop, LedgerInv
<1>5. CASE FinishStart
  <2>1. credits' = QueueDepth - 2 /\ cursor' = 3 /\ heard' = 0
    BY <1>5 DEF FinishStart, LockInv
  <2>2. Owed(credits', cursor') = 0
    BY <1>1, <2>1 DEF Owed
  <2> QED BY <1>3, <2>1, <2>2
<1>6. CASE FeedStep
  <2>1. phase = "up" /\ heard' = heard /\ 2 * Owed(credits, cursor) <= heard
    BY <1>6, <1>2 DEF FeedStep, unchangedByFeed, LockInv
  <2>2. Candidate = cursor
    BY <2>1 DEF RetryInv, Candidate
  <2>3. \/ cursor' = cursor + 1 /\ credits' = credits - 1
        \/ cursor' = cursor /\ (credits' = credits \/ credits' = 0)
    BY <1>6, <2>2, FeedOutcomes DEF FeedAccepted, FeedError, FeedQueueFull, TypeOK, DataType
  <2>4. 2 * Owed(credits', cursor') <= heard
    BY <1>1, <2>1, <2>3, OwedFeed, Zenon
  <2> QED BY <1>3, <2>1, <2>4, Zenon
<1>7. CASE OnBlockStarted
  <2>1. phase = "up" /\ cursor' = cursor /\ credits' <= credits + 1
    BY <1>7, CreditedType DEF OnBlockStarted, LockFree, TypeOK, ProducerType
  <2>2. PICK p \in Nat : heard < 2 * p /\ heard' = 2 * p
    BY <1>7, StartedHeard DEF StreamInv
  <2>3. /\ Owed(credits', cursor) <= Owed(credits, cursor) + 1
        /\ Owed(credits', cursor) \in Int /\ Owed(credits, cursor) \in Int
    BY <1>1, <2>1, OwedCredit, Zenon
  <2>4. 2 * Owed(credits, cursor) <= heard
    BY <1>2, <2>1
  <2>5. 2 * Owed(credits', cursor) <= 2 * p
    BY <1>1, <2>2, <2>3, <2>4, CreditStarted, Zenon
  <2> QED BY <1>3, <2>1, <2>2, <2>5, Zenon
<1>8. CASE OnBlockComplete
  <2>1. /\ phase = "up" /\ cursor' = cursor
        /\ credits' <= credits + 1 /\ (startedSeen => credits' = credits)
    BY <1>8, CreditedType DEF OnBlockComplete, CompletionCredit, LockFree, TypeOK, ProducerType
  <2>2. PICK p \in Nat : p > 0 /\ heard < 2 * p + 1 /\ heard' = 2 * p + 1
    BY <1>8, CompletedHeard DEF StreamInv
  <2>3. /\ Owed(credits', cursor) <= Owed(credits, cursor) + 1
        /\ Owed(credits', cursor) \in Int /\ Owed(credits, cursor) \in Int
    BY <1>1, <2>1, OwedCredit, Zenon
  <2>4. 2 * Owed(credits, cursor) <= heard
    BY <1>2, <2>1
  <2>5. \/ Owed(credits', cursor) <= Owed(credits, cursor)
        \/ heard = 0 \/ \E q \in 0..heard : heard = 2 * q + 1
    <3>1. CASE startedSeen
      <4>1. credits' = credits
        BY <2>1, <3>1
      <4>2. Owed(credits, cursor) <= Owed(credits, cursor)
        BY <2>3
      <4> QED BY <4>1, <4>2, Zenon
    <3>2. CASE heard = 0 \/ Odd(heard)
      BY <3>2 DEF Odd
    <3> QED BY <2>1, <3>1, <3>2 DEF StreamInv
  <2>6. 2 * Owed(credits', cursor) <= 2 * p + 1
    BY <1>1, <2>2, <2>3, <2>4, <2>5, CreditCompleted, Zenon
  <2> QED BY <1>3, <2>1, <2>2, <2>6, Zenon
<1>9. CASE UNCHANGED ledgerVars
  BY <1>9 DEF ledgerVars, LedgerInv
<1> QED BY <1>4, <1>5, <1>6, <1>7, <1>8, <1>9, LedgerFrame

(***************************************************************************)
(* The theorems.                                                           *)
(***************************************************************************)

LEMMA InvInit == Init => IInv
<1> SUFFICES ASSUME Init PROVE IInv
  OBVIOUS
<1>1. TypeOK
  BY TypeInit
<1>2. LockInv /\ RetryInv /\ DeliveryInv /\ LedgerInv /\ DeliveredGapFree
  BY DEF Init, LockInv, RetryInv, DeliveryInv, LedgerInv, DeliveredGapFree
<1>3. PlayInv
  BY FS_EmptySet DEF Init, PlayInv
<1>4. StreamInv
  BY DEF Init, StreamInv, Between, LastKey
<1> QED BY <1>1, <1>2, <1>3, <1>4 DEF IInv

LEMMA InvStep == IInv /\ [Next]_vars => IInv'
<1> SUFFICES ASSUME IInv, [Next]_vars PROVE IInv'
  OBVIOUS
<1> USE DEF IInv
<1>1. TypeOK' /\ LockInv'
  BY TypeStep, LockStep
<1>2. RetryInv' /\ DeliveryInv' /\ DeliveredGapFree'
  BY DeliveryStep
<1>3. PlayInv'
  BY PlayStep
<1>4. StreamInv'
  BY StreamStep, HeardStep DEF StreamInv
<1>5. LedgerInv'
  BY LedgerStep
<1> QED BY <1>1, <1>2, <1>3, <1>4, <1>5

\* The inductive invariant holds of every behaviour: what start(), the feed
\* loop, the event handlers and AIR do, in whatever order, keeps the ledger,
\* the cursor and the event stream in step.
THEOREM Invariance == Spec => []IInv
BY InvInit, InvStep, PTL DEF Spec

\* Credits, cursor, queue and stream stay within their types: in particular the
\* ledger is never negative and never above the queue's depth.
THEOREM TypeCorrect == Spec => []TypeOK
<1>1. IInv => TypeOK
  BY DEF IInv
<1> QED BY <1>1, Invariance, PTL

\* The ledger of _feed_ahead and its event handlers never promises a slot that
\* AIR's queue does not have, for every depth of the queue and any number of
\* faults; each lost reply hides at most one slot.
THEOREM CreditsFit == Spec => []CreditsFitQueue
<1>1. IInv => CreditsFitQueue
  <2> SUFFICES ASSUME IInv, phase = "up"
               PROVE  credits + AirQueueLen <= QueueDepth + lostReplies + repeats
    BY DEF CreditsFitQueue
  <2>1. /\ QueueDepth \in Nat /\ credits \in Nat /\ cursor \in Nat /\ heard \in Nat
        /\ popped \in Nat /\ plays \in Nat /\ Len(delivered) \in Nat /\ lostReplies \in Nat
        /\ repeats \in Nat
    BY FeedAssumption DEF IInv, TypeOK, ProducerType, SessionType, AirType, FaultType
  <2>2. Len(delivered) <= cursor - 1 + lostReplies
    BY DEF IInv, DeliveryInv
  <2>3. 2 * (credits + cursor - 1 - QueueDepth) <= heard
    BY DEF IInv, LedgerInv
  <2>4. heard <= 2 * plays + 1
    BY <2>1 DEF IInv, StreamInv, Between, LastKey
  <2>5. plays <= popped + repeats
    <3>1. Cardinality(prep) \in Nat
      BY FS_CardinalityType DEF IInv, PlayInv
    <3> QED BY <2>1, <3>1 DEF IInv, PlayInv
  <2>6. credits + cursor - 1 - QueueDepth <= plays
    BY <2>1, <2>3, <2>4
  <2> QED BY <2>1, <2>2, <2>5, <2>6 DEF AirQueueLen
<1> QED BY <1>1, Invariance, PTL

\* INV-FEED-QUEUE-001, -002 and -004: QUEUE_FULL, errors and lost replies never
\* make the producer skip a block.
THEOREM NoBlockSkipped == Spec => []DeliveredGapFree
<1>1. IInv => DeliveredGapFree
  BY DEF IInv
<1> QED BY <1>1, Invariance, PTL


(***************************************************************************)
(* Two more invariants, on top of IInv.                                    *)
(***************************************************************************)

\* AIR's engine runs only under a session that nobody knows to be over: the
\* end is on its way, or known, only after the engine has ended.
Known == sessEnded \/ sessionEnded \/ reader = "ending" \/ phase \in {"failed", "stopped"}
EndInv ==
  /\ delivered = <<>> <=> phase \in {"new", "failed"}
  /\ delivered = <<>> => popped = 0 /\ live = 0 /\ events = <<>>
  /\ phase = "new" => ~Known /\ air = "off"
  /\ sessionEnded \/ reader = "ending" => sessEnded
  /\ Known \/ (phase # "new" /\ ~sessRunning) => air # "running"
  /\ \A k \in 1..Len(events) : events[k].type = "ended" => air # "running"

\* What was delivered is a plan's block and never earlier than what was
\* delivered before it.
OrderInv ==
  /\ \A k \in 1..Len(delivered) : delivered[k] >= 1
  /\ \A j, k \in 1..Len(delivered) : j <= k => delivered[j] <= delivered[k]

\* An event in the stream was there before AIR emitted, or is one of those it emitted.
LEMMA EmittedOrOld ==
  ASSUME events \in Seq(Event), NEW S, NEW evs \in Seq(S), Emit(evs),
         NEW k \in 1..Len(events'), events'[k] \notin S
  PROVE  \E i \in 1..Len(events) : events'[k] = events[i]
<1>1. CASE events' = events
  BY <1>1
<1>2. CASE events' = events \o evs
  <2>1. k \in 1..Len(events) \/ (k \in (Len(events) + 1)..(Len(events) + Len(evs))
                               /\ events'[k] = evs[k - Len(events)])
    BY <1>2
  <2>2. k \in 1..Len(events) => events'[k] = events[k]
    BY <1>2
  <2>3. k \in (Len(events) + 1)..(Len(events) + Len(evs)) => evs[k - Len(events)] \in S
    OBVIOUS
  <2> QED BY <2>1, <2>2, <2>3
<1> QED BY <1>1, <1>2 DEF Emit

LEMMA EndInit == Init => EndInv /\ OrderInv
BY DEF Init, EndInv, OrderInv, Known

LEMMA EndStep ==
  ASSUME TypeOK, LockInv, EndInv, [Next]_vars
  PROVE  EndInv'
<1> USE DEF EndInv, Known
<1>1. CASE SeedSession \/ StartFails \/ FinishStart \/ Subscribe
  <2>1. CASE SeedSession
    BY <2>1 DEF SeedSession, producerVars, paceVars, faultVars
  <2>2. CASE StartFails
    BY <2>2 DEF StartFails, producerVars, sessionVars, airVars, paceVars
  <2>3. CASE FinishStart
    BY <2>3 DEF FinishStart, sessionVars, airVars, paceVars, faultVars
  <2>4. CASE Subscribe
    BY <2>4 DEF Subscribe, producerVars, paceVars, faultVars
  <2> QED BY <1>1, <2>1, <2>2, <2>3, <2>4
<1>2. CASE FeedLoop
  <2>1. CASE FeedNoPlan
    BY <2>1 DEF FeedNoPlan, sessionVars, airVars, faultVars
  <2>2. CASE FeedStep
    <3>1. UNCHANGED <<phase, sessionEnded, sessionVars, air, popped, live, events>>
      BY <2>2 DEF FeedStep, unchangedByFeed
    <3>2. phase = "up" /\ delivered # <<>> /\ delivered \in Seq(Nat)
      BY <2>2 DEF FeedStep, LockInv, TypeOK, AirType
    <3>3. delivered' # <<>>
      BY <2>2, <3>2 DEF FeedStep
    <3> QED BY <3>1, <3>2, <3>3 DEF sessionVars
  <2> QED BY <1>2, <2>1, <2>2 DEF FeedLoop
<1>3. CASE Tick
  BY <1>3 DEF Tick, sessionVars, airVars, faultVars
<1>4. CASE EventThread
  <2>0. events \in Seq(Event)
    BY DEF TypeOK, SessionType
  <2>1. events # <<>> =>
          /\ Head(events) = events[1] /\ Len(events) >= 1
          /\ \A k \in 1..Len(Tail(events)) : k + 1 \in 1..Len(events) /\ Tail(events)[k] = events[k + 1]
    BY <2>0
  <2>2. CASE OnBlockStarted
    BY <2>1, <2>2 DEF OnBlockStarted, sessionVars, airVars, faultVars
  <2>3. CASE OnBlockComplete
    <3>1. UNCHANGED <<phase, sessionEnded, sessionVars, airVars>> /\ events' = Tail(events) /\ events # <<>>
      BY <2>3 DEF OnBlockComplete
    <3> QED BY <2>1, <3>1 DEF sessionVars, airVars
  <2>4. CASE ReadSessionEnded
    <3>1. events[1].type = "ended" /\ air # "running"
      BY <2>1, <2>4 DEF ReadSessionEnded
    <3> QED BY <2>1, <2>4, <3>1 DEF ReadSessionEnded, producerVars, airVars
  <2>5. CASE OnSessionEnd
    BY <2>5 DEF OnSessionEnd, airVars
  <2> QED BY <1>4, <2>2, <2>3, <2>4, <2>5 DEF EventThread
<1>5. CASE StreamBreaks \/ Stop \/ ExtendHorizon
  <2>1. CASE StreamBreaks
    BY <2>1 DEF StreamBreaks, producerVars, airVars
  <2>2. CASE Stop
    BY <2>2 DEF Stop, LockFree
  <2>3. CASE ExtendHorizon
    BY <2>3 DEF ExtendHorizon, producerVars, sessionVars, airVars
  <2> QED BY <1>5, <2>1, <2>2, <2>3
<1>6. CASE Air
  <2>1. UNCHANGED <<phase, sessionEnded, sessRunning, sessEnded, reader, delivered>>
    BY <1>6 DEF Air, AirEngine, AirPop, AirStart, AirFence, AirGap, AirLose, AirRepeat, AirEnd,
                AirCrash, AirUnchanged, producerVars, sessionVars
  <2>2. air = "running" /\ (air' = "running" \/ air' = "ended" \/ air' = "dead") /\ delivered # <<>>
    BY <1>6 DEF Air, AirEngine, AirPop, AirStart, AirFence, AirGap, AirLose, AirRepeat, AirEnd,
                AirCrash
  <2>3. \A k \in 1..Len(events') : events'[k].type = "ended" => air' # "running"
    <3>0. events \in Seq(Event)
      BY DEF TypeOK, SessionType
    <3>1. CASE AirPop \/ AirLose \/ AirRepeat
      BY <2>2, <3>1 DEF AirPop, AirLose, AirRepeat
    <3>2. CASE AirStart
      BY <2>2, <3>0, <3>2 DEF AirStart, Emit, Started
    <3>3. CASE AirFence
      <4>1. PICK j \in prep : Emit(<<Completed, Started(j)>>)
        BY <3>3 DEF AirFence
      <4>2. <<Completed, Started(j)>> \in Seq({Completed, Started(j)})
        OBVIOUS
      <4>3. Completed.type # "ended" /\ Started(j).type # "ended"
        BY DEF Completed, Started
      <4>4. ASSUME NEW k \in 1..Len(events'), events'[k].type = "ended"  PROVE air' # "running"
        <5>1. events'[k] \notin {Completed, Started(j)}
          BY <4>3, <4>4
        <5>2. \E i \in 1..Len(events) : events'[k] = events[i]
          BY <3>0, <4>1, <4>2, <5>1, EmittedOrOld
        <5> QED BY <2>2, <4>4, <5>2
      <4> QED BY <4>4
    <3>4. CASE AirGap
      BY <2>2, <3>0, <3>4 DEF AirGap, Emit, Completed
    <3>5. CASE AirEnd \/ AirCrash
      BY <3>5 DEF AirEnd, AirCrash
    <3> QED BY <1>6, <3>1, <3>2, <3>3, <3>4, <3>5 DEF Air, AirEngine
  <2> QED BY <2>1, <2>2, <2>3
<1>7. CASE Finished \/ UNCHANGED vars
  BY <1>7 DEF Finished, vars, producerVars, sessionVars, airVars
<1> QED BY <1>1, <1>2, <1>3, <1>4, <1>5, <1>6, <1>7 DEF Next, Core

\* Delivered blocks only grow by the block in the retry slot or at the cursor.
Grows == \/ UNCHANGED delivered
         \/ delivered = <<>> /\ delivered' = <<1, 2>>
         \/ delivered # <<>> /\ \E c \in {LastSent, LastSent + 1} : delivered' = Append(delivered, c)

LEMMA FeedGrows ==
  ASSUME TypeOK, LockInv, RetryInv, DeliveryInv, FeedStep
  PROVE  delivered # <<>> /\ (UNCHANGED delivered \/
           (/\ ~Refused /\ AirQueueLen < QueueDepth
            /\ \E c \in {LastSent, LastSent + 1} : delivered' = Append(delivered, c)))
<1>1. phase = "up"
  BY DEF FeedStep, LockInv, TypeOK, ProducerType
<1>2. delivered \in Seq(Nat) /\ delivered # <<>> /\ cursor \in Nat
  BY <1>1 DEF DeliveryInv, TypeOK, AirType, ProducerType
<1>3. LastSent = delivered[Len(delivered)] /\ LastSent \in Nat
  BY <1>2 DEF LastSent, Unseeded
<1>4. Candidate = cursor
  BY <1>1 DEF RetryInv, Candidate
<1>5. cursor \in {LastSent, LastSent + 1}
  BY <1>1, <1>2, <1>3 DEF DeliveryInv
<1> QED BY <1>2, <1>4, <1>5 DEF FeedStep, Accepts

LEMMA GrowsStep ==
  ASSUME TypeOK, LockInv, RetryInv, DeliveryInv, EndInv, [Next]_vars
  PROVE  Grows
<1>1. CASE SeedSession
  BY <1>1 DEF SeedSession, EndInv, Grows
<1>2. CASE FeedStep
  BY <1>2, FeedGrows DEF Grows
<1>3. CASE ~SeedSession /\ ~FeedStep
  BY <1>3 DEF Next, Core, Air, AirEngine, FeedLoop, EventThread, StartFails, FinishStart, Subscribe,
       FeedNoPlan, Tick, OnBlockStarted, OnBlockComplete, ReadSessionEnded, OnSessionEnd,
       StreamBreaks, Stop, ExtendHorizon, AirPop, AirLose, AirRepeat, AirStart, AirFence, AirGap,
       AirEnd, AirCrash, Finished, vars, airVars, Grows
<1> QED BY <1>1, <1>2, <1>3

LEMMA OrderStep ==
  ASSUME TypeOK, OrderInv, Grows
  PROVE  OrderInv'
<1>1. delivered \in Seq(Nat)
  BY DEF TypeOK, AirType
<1>2. CASE UNCHANGED delivered
  BY <1>2 DEF OrderInv
<1>3. CASE delivered' = <<1, 2>>
  BY <1>3 DEF OrderInv
<1>4. CASE delivered # <<>> /\ \E c \in {LastSent, LastSent + 1} : delivered' = Append(delivered, c)
  <2>1. PICK c \in {LastSent, LastSent + 1} : delivered' = Append(delivered, c)
    BY <1>4
  <2>2. LastSent = delivered[Len(delivered)] /\ Len(delivered) \in 1..Len(delivered)
    BY <1>1, <1>4 DEF LastSent, Unseeded
  <2>3. /\ LastSent \in Nat /\ LastSent >= 1 /\ c \in Nat /\ c >= LastSent
        /\ \A k \in 1..Len(delivered) : delivered[k] <= LastSent
    BY <1>1, <2>2 DEF OrderInv
  <2>4. /\ Len(delivered') = Len(delivered) + 1 /\ delivered'[Len(delivered) + 1] = c
        /\ \A k \in 1..Len(delivered) : delivered'[k] = delivered[k] /\ delivered[k] \in Nat
    BY <1>1, <2>1, <2>3
  <2>5. \A k \in 1..Len(delivered') : delivered'[k] >= 1
    BY <2>3, <2>4 DEF OrderInv
  <2>6. \A j, k \in 1..Len(delivered') : j <= k => delivered'[j] <= delivered'[k]
    <3> SUFFICES ASSUME NEW j \in 1..Len(delivered'), NEW k \in 1..Len(delivered'), j <= k
                 PROVE  delivered'[j] <= delivered'[k]
      OBVIOUS
    <3>1. CASE k <= Len(delivered)
      BY <3>1, <2>4 DEF OrderInv
    <3>2. CASE k = Len(delivered) + 1
      BY <3>2, <2>3, <2>4
    <3> QED BY <3>1, <3>2, <2>4, <1>1
  <2> QED BY <2>5, <2>6 DEF OrderInv
<1> QED BY <1>2, <1>3, <1>4 DEF Grows

(***************************************************************************)
(* The simulation.                                                         *)
(***************************************************************************)

\* Once a session is over it stays so.
LEMMA OverStays ==
  ASSUME TypeOK, LockInv, EndInv, [Next]_vars, SessionOver
  PROVE  SessionOver'
<1>1. CASE Core
  BY <1>1 DEF Core, FeedLoop, EventThread, SeedSession, StartFails, FinishStart, Subscribe,
       FeedNoPlan, FeedStep, unchangedByFeed, Tick, OnBlockStarted, OnBlockComplete, ReadSessionEnded,
       OnSessionEnd, StreamBreaks, Stop, ExtendHorizon, EndInv, Known, SessionOver, producerVars,
       sessionVars, LockFree
<1>2. CASE Air \/ Finished \/ UNCHANGED vars
  BY <1>2 DEF Air, AirEngine, AirPop, AirStart, AirFence, AirGap, AirLose, AirRepeat, AirEnd,
       AirCrash, AirUnchanged, Finished, vars, producerVars, sessionVars, SessionOver
<1> QED BY <1>1, <1>2 DEF Next

\* A step that leaves AIR's queue and the block on air alone is Close or unseen.
LEMMA QuietStep ==
  ASSUME UNCHANGED <<delivered, popped, live>>, SessionOver => SessionOver'
  PROVE  [Delivery!Next]_(Delivery!vars)
BY DEF Delivery!Next, Delivery!vars, Delivery!Close, LastSent, Waiting, Unseeded, At

\* The seed: the blocks BlockDelivery already had in the queue.
LEMMA SeedUnseen ==
  ASSUME EndInv, SeedSession
  PROVE  UNCHANGED Delivery!vars
<1>1. delivered = <<>> /\ popped = 0 /\ live = 0 /\ ~SessionOver
  BY DEF SeedSession, EndInv, Known, SessionOver
<1>2. delivered' = <<1, 2>> /\ popped' = 0 /\ live' = 0
  BY <1>1 DEF SeedSession
<1>3. ~SessionOver'
  BY <1>1 DEF SeedSession, SessionOver, producerVars
<1>4. SubSeq(<<1, 2>>, 1, 2) = <<1, 2>>
  <2>1. <<1, 2>> \in Seq(Nat) /\ Len(<<1, 2>>) = 2
    OBVIOUS
  <2> QED BY <2>1, SubSeqFull
<1>5. Waiting' = Waiting /\ LastSent' = LastSent
  BY <1>1, <1>2, <1>4 DEF Waiting, LastSent, Unseeded
<1>6. At(popped)' = At(popped) /\ At(live)' = At(live)
  BY <1>1, <1>2 DEF At
<1>7. (~SessionOver)' = ~SessionOver
  BY <1>1, <1>3
<1> QED BY <1>5, <1>6, <1>7, Zenon DEF Delivery!vars

\* A fed block is one that BlockDelivery may send.
LEMMA FeedSends ==
  ASSUME TypeOK, LockInv, RetryInv, DeliveryInv, EndInv, FeedStep, delivered' # delivered
  PROVE  [Delivery!Next]_(Delivery!vars)
<1>1. UNCHANGED <<phase, sessionEnded, sessEnded, popped, live>>
  BY DEF FeedStep, unchangedByFeed, sessionVars
<1>2. delivered \in Seq(Nat) /\ popped \in 0..Len(delivered) /\ live \in 0..popped
  BY DEF TypeOK, AirType
<1>3. phase = "up" /\ sessRunning \in BOOLEAN /\ sessEnded \in BOOLEAN
  BY DEF FeedStep, LockInv, TypeOK, ProducerType, FlagType
<1>4. delivered # <<>> /\ ~Refused /\ AirQueueLen < QueueDepth
  BY FeedGrows
<1>5. PICK c \in {LastSent, LastSent + 1} : delivered' = Append(delivered, c)
  BY FeedGrows
<1>6. ~SessionOver
  BY <1>3, <1>4 DEF Refused, SessionOver, EndInv
<1>7. ~SessionOver'
  BY <1>1, <1>6 DEF SessionOver
<1>8. LastSent = delivered[Len(delivered)] /\ c \in Nat
  BY <1>2, <1>4 DEF LastSent, Unseeded
<1>9. /\ delivered' # <<>> /\ Len(delivered') = Len(delivered) + 1
      /\ delivered'[Len(delivered')] = c
      /\ \A k \in 1..Len(delivered) : delivered'[k] = delivered[k]
  BY <1>2, <1>5, <1>8
<1>10. Waiting = SubSeq(delivered, popped + 1, Len(delivered))
       /\ Waiting' = SubSeq(delivered', popped + 1, Len(delivered) + 1)
  BY <1>1, <1>4, <1>9 DEF Waiting, Unseeded
<1>11. Len(Waiting) < QueueDepth
  BY <1>2, <1>4, <1>10 DEF AirQueueLen
<1>12. Waiting' = Append(Waiting, c)
  <2>1. delivered' \in Seq(Nat)
    BY <1>2, <1>5, <1>8
  <2>2. /\ \A k \in (popped + 1)..Len(delivered) : delivered[k] \in Nat
        /\ \A k \in (popped + 1)..(Len(delivered) + 1) : delivered'[k] \in Nat
    BY <1>2, <1>9, <2>1
  <2>3. /\ Waiting \in Seq(Nat) /\ Len(Waiting) = Len(delivered) - popped
        /\ \A k \in 1..Len(Waiting) : Waiting[k] = delivered[popped + k]
    BY <1>2, <1>10, <2>2, SubSeqProperties
  <2>4. /\ Waiting' \in Seq(Nat) /\ Len(Waiting') = Len(delivered) + 1 - popped
        /\ \A k \in 1..Len(Waiting') : Waiting'[k] = delivered'[popped + k]
    BY <1>2, <1>10, <2>2, SubSeqProperties
  <2>5. /\ Append(Waiting, c) \in Seq(Nat) /\ Len(Append(Waiting, c)) = Len(Waiting) + 1
        /\ \A k \in 1..Len(Waiting) : Append(Waiting, c)[k] = Waiting[k]
        /\ Append(Waiting, c)[Len(Waiting) + 1] = c
    BY <1>8, <2>3
  <2>6. \A k \in 1..Len(Waiting') : Waiting'[k] = Append(Waiting, c)[k]
    <3> SUFFICES ASSUME NEW k \in 1..Len(Waiting') PROVE Waiting'[k] = Append(Waiting, c)[k]
      OBVIOUS
    <3>0. k \in 1..(Len(Waiting) + 1) /\ Len(Waiting) \in Nat
      BY <1>2, <2>3, <2>4
    <3>1. CASE k <= Len(Waiting)
      BY <1>2, <1>9, <2>3, <2>4, <2>5, <3>1
    <3>2. CASE k = Len(Waiting) + 1
      <4>1. popped + k = Len(delivered')
        BY <1>2, <1>9, <2>3, <3>2
      <4>2. Waiting'[k] = delivered'[popped + k]
        BY <2>4
      <4>3. Append(Waiting, c)[k] = c
        BY <2>5, <3>2
      <4> QED BY <1>9, <4>1, <4>2, <4>3
    <3> QED BY <3>0, <3>1, <3>2
  <2>7. Len(Waiting') = Len(Append(Waiting, c))
    BY <1>2, <2>3, <2>4, <2>5
  <2> QED BY <2>4, <2>5, <2>6, <2>7, SeqEqual
<1>13. LastSent' = c
  BY <1>9 DEF LastSent, Unseeded
<1>14. At(popped)' = At(popped) /\ At(live)' = At(live)
  BY <1>1, <1>2, <1>9 DEF At
<1>15. Delivery!Send(c)
  BY <1>6, <1>7, <1>11, <1>12, <1>13, <1>14 DEF Delivery!Send
<1> QED BY <1>5, <1>15 DEF Delivery!Next

\* AIR takes the front of its queue.
LEMMA PopTakes ==
  ASSUME TypeOK, EndInv, AirPop
  PROVE  Delivery!Take
<1>1. UNCHANGED <<phase, sessionEnded, sessEnded, delivered, live>> /\ popped' = popped + 1
  BY DEF AirPop, AirUnchanged, producerVars, sessionVars
<1>2. delivered \in Seq(Nat) /\ popped \in 0..Len(delivered) /\ popped < Len(delivered)
      /\ live \in 0..popped
  BY DEF TypeOK, AirType, AirPop, AirQueueLen
<1>3. ~SessionOver /\ ~SessionOver'
  BY <1>1 DEF AirPop, EndInv, Known, SessionOver
<1>4. delivered # <<>>
  BY <1>2
<1>5. Waiting = SubSeq(delivered, popped + 1, Len(delivered))
      /\ Waiting' = SubSeq(delivered, popped + 2, Len(delivered))
  BY <1>1, <1>2, <1>4 DEF Waiting, Unseeded
<1>6. Waiting # <<>> /\ Head(Waiting) = delivered[popped + 1] /\ Tail(Waiting) = Waiting'
  <2>1. popped + 1 \in 1..Len(delivered) /\ Len(delivered) \in (popped + 1)..Len(delivered)
    BY <1>2
  <2>2. Head(Waiting) = delivered[popped + 1] /\ Tail(Waiting) = Waiting'
    BY <1>2, <1>5, <2>1, HeadTailOfSubSeq
  <2>3. Len(Waiting) = Len(delivered) - popped
    <3>1. \A k \in (popped + 1)..Len(delivered) : delivered[k] \in Nat
      BY <1>2
    <3> QED BY <1>2, <1>5, <3>1, SubSeqProperties
  <2>4. Waiting # <<>>
    BY <1>2, <2>3
  <2> QED BY <2>2, <2>4
<1>7. At(popped)' = delivered[popped + 1] /\ At(live)' = At(live)
  BY <1>1, <1>2 DEF At
<1>8. LastSent' = LastSent
  BY <1>1 DEF LastSent, Unseeded
<1> QED BY <1>3, <1>6, <1>7, <1>8 DEF Delivery!Take

\* A block that goes on air is one AIR has taken; a gap takes it off.
LEMMA AirGoes ==
  ASSUME TypeOK, EndInv, OrderInv, AirStart \/ AirFence \/ AirGap
  PROVE  Delivery!Next
<1>1. UNCHANGED <<phase, sessionEnded, sessEnded, delivered, popped>>
  BY DEF AirStart, AirFence, AirGap, AirUnchanged, producerVars, sessionVars
<1>2. delivered \in Seq(Nat) /\ popped \in 0..Len(delivered) /\ prep \subseteq 1..popped
  BY DEF TypeOK, AirType
<1>3. ~SessionOver /\ ~SessionOver'
  BY <1>1 DEF AirStart, AirFence, AirGap, EndInv, Known, SessionOver
<1>4. LastSent' = LastSent /\ Waiting' = Waiting /\ At(popped)' = At(popped)
  BY <1>1 DEF LastSent, Waiting, Unseeded, At
<1>5. CASE AirGap
  <2>1. At(live)' = 0
    BY <1>5 DEF AirGap, At
  <2> QED BY <1>3, <1>4, <2>1 DEF Delivery!Gap, Delivery!Next
<1>6. CASE AirStart \/ AirFence
  <2>1. PICK k \in prep : live' = k
    BY <1>6 DEF AirStart, AirFence
  <2>2. k \in 1..popped /\ k \in 1..Len(delivered) /\ popped \in 1..Len(delivered)
    BY <1>2
  <2>3. At(live)' = delivered[k] /\ At(popped) = delivered[popped]
    BY <1>1, <2>1, <2>2 DEF At
  <2>4. delivered[k] \in 1..At(popped)
    BY <1>2, <2>2, <2>3 DEF OrderInv
  <2>5. Delivery!GoOnAir(delivered[k])
    BY <1>3, <1>4, <2>3 DEF Delivery!GoOnAir
  <2> QED BY <2>4, <2>5 DEF Delivery!Next
<1> QED BY <1>5, <1>6

LEMMA Simulation ==
  ASSUME IInv, EndInv, OrderInv, [Next]_vars
  PROVE  [Delivery!Next]_(Delivery!vars)
<1> USE DEF IInv
<1>1. CASE SeedSession
  BY <1>1, SeedUnseen
<1>2. CASE FeedStep /\ delivered' # delivered
  BY <1>2, FeedSends
<1>3. CASE AirPop \/ AirStart \/ AirFence \/ AirGap
  BY <1>3, PopTakes, AirGoes DEF Delivery!Next
<1>4. CASE UNCHANGED <<delivered, popped, live>>
  BY <1>4, QuietStep, OverStays
<1>5. SeedSession \/ FeedStep \/ AirPop \/ AirStart \/ AirFence \/ AirGap
      \/ UNCHANGED <<delivered, popped, live>>
  BY DEF Next, Core, Air, AirEngine, FeedLoop, EventThread, StartFails, FinishStart, Subscribe,
       FeedNoPlan, Tick, OnBlockStarted, OnBlockComplete, ReadSessionEnded, OnSessionEnd,
       StreamBreaks, Stop, ExtendHorizon, AirLose, AirRepeat, AirEnd, AirCrash, Finished, vars, airVars
<1>6. FeedStep => UNCHANGED <<popped, live>>
  BY DEF FeedStep, unchangedByFeed
<1> QED BY <1>1, <1>2, <1>3, <1>4, <1>5, <1>6

LEMMA InitSimulated == Init => Delivery!Init
BY DEF Init, Delivery!Init, SessionOver, LastSent, Waiting, Unseeded, At

\* The whole of block feeding (credits, retry slot, event stream, faults of every
\* kind) implements BlockDelivery, for every queue depth and plan length.
THEOREM Implements == Spec => ImplementsDelivery
<1>1. Init => IInv /\ EndInv /\ OrderInv
  BY InvInit, EndInit
<1>2. IInv /\ EndInv /\ OrderInv /\ [Next]_vars => IInv' /\ EndInv' /\ OrderInv'
  BY InvStep, EndStep, GrowsStep, OrderStep DEF IInv
<1>3. IInv /\ EndInv /\ OrderInv /\ [Next]_vars => [Delivery!Next]_(Delivery!vars)
  BY Simulation
<1> QED BY <1>1, <1>2, <1>3, InitSimulated, PTL DEF Spec, ImplementsDelivery, Delivery!Spec

(***************************************************************************)
(* Core tracks every block it sent (INV-WALLCLOCK-FENCE-002).              *)
(***************************************************************************)

\* Blocks that are in flight, were completed, or wait in the retry slot.
Tracked == inFlight \cup completed \cup {pending}

\* Every block that was delivered is tracked, and AIR reports no other.
TrackInv ==
  /\ phase = "up" => \A k \in 1..Len(delivered) : delivered[k] \in Tracked
  /\ \A k \in 1..Len(events) : events[k].type = "completed" =>
       \E j \in 1..Len(delivered) : events[k].block = delivered[j]

\* What the feed loop did to the block it tried.
LEMMA TrackedFeed ==
  ASSUME TypeOK, LockInv, RetryInv, OrderInv, TrackInv, FeedStep
  PROVE  TrackInv'
<1>1. phase = "up" /\ phase' = "up" /\ UNCHANGED <<events, completed>>
  BY DEF FeedStep, unchangedByFeed, LockInv, TypeOK, ProducerType
<1>2. /\ delivered \in Seq(Nat) /\ cursor \in Nat /\ pending \in {0, cursor} /\ Candidate = cursor
      /\ \A k \in 1..Len(delivered) : delivered[k] \in Nat
  BY <1>1 DEF TypeOK, AirType, ProducerType, RetryInv, Candidate
<1>3. /\ \/ pending' = cursor /\ inFlight' = inFlight
         \/ pending' = 0 /\ inFlight' = inFlight \cup {cursor}
      /\ delivered' = delivered \/ delivered' = Append(delivered, cursor)
  BY <1>2 DEF FeedStep, FeedError, FeedAccepted, FeedQueueFull, Track
<1>4. ASSUME NEW b \in Nat \ {0}, b \in Tracked PROVE b \in Tracked'
  BY <1>1, <1>2, <1>3, <1>4 DEF Tracked
<1>5. cursor \in Tracked'
  BY <1>3 DEF Tracked
<1>6. ASSUME NEW k \in 1..Len(delivered') PROVE delivered'[k] \in Tracked'
  <2>1. (k \in 1..Len(delivered) /\ delivered'[k] = delivered[k]) \/ delivered'[k] = cursor
    BY <1>2, <1>3
  <2>2. CASE k \in 1..Len(delivered) /\ delivered'[k] = delivered[k]
    <3>1. delivered[k] \in Nat \ {0} /\ delivered[k] \in Tracked
      BY <1>1, <1>2, <2>2 DEF OrderInv, TrackInv
    <3> QED BY <1>4, <2>2, <3>1
  <2>3. CASE delivered'[k] = cursor
    BY <1>5, <2>3
  <2> QED BY <2>1, <2>2, <2>3
<1>7. ASSUME NEW k \in 1..Len(events'), events'[k].type = "completed"
      PROVE  \E j \in 1..Len(delivered') : events'[k].block = delivered'[j]
  <2>1. PICK j \in 1..Len(delivered) : events[k].block = delivered[j]
    BY <1>1, <1>7 DEF TrackInv
  <2>2. j \in 1..Len(delivered') /\ delivered'[j] = delivered[j]
    <3>1. CASE delivered' = delivered
      BY <3>1
    <3>2. CASE delivered' = Append(delivered, cursor)
      BY <1>2, <3>2, AppendProperties
    <3> QED BY <1>3, <3>1, <3>2
  <2> QED BY <1>1, <2>1, <2>2
<1> QED BY <1>6, <1>7 DEF TrackInv

\* A handler that reads the stream only shortens it and only moves blocks from
\* in flight to completed.
LEMMA TrackedHandler ==
  ASSUME TypeOK, TrackInv, EventThread
  PROVE  TrackInv'
<1>1. events \in Seq(Event) /\ UNCHANGED delivered
  BY DEF TypeOK, SessionType, EventThread, OnBlockStarted, OnBlockComplete, ReadSessionEnded,
         OnSessionEnd, airVars
<1>2. UNCHANGED phase /\ Tracked \subseteq Tracked'
  BY DEF EventThread, OnBlockStarted, OnBlockComplete, ReadSessionEnded, OnSessionEnd, Tracked,
         producerVars
<1>3. (UNCHANGED events) \/ (events # <<>> /\ events' = Tail(events))
  BY DEF EventThread, OnBlockStarted, OnBlockComplete, ReadSessionEnded, OnSessionEnd
<1>4. \A k \in 1..Len(events') : \E i \in 1..Len(events) : events'[k] = events[i]
  <2>1. CASE UNCHANGED events
    BY <2>1
  <2>2. CASE events # <<>> /\ events' = Tail(events)
    <3>1. \A k \in 1..Len(events') : k + 1 \in 1..Len(events) /\ events'[k] = events[k + 1]
      BY <1>1, <2>2
    <3> QED BY <3>1
  <2> QED BY <1>3, <2>1, <2>2
<1> QED BY <1>1, <1>2, <1>4 DEF TrackInv

\* AIR reports the completion of the block on air, which was delivered.
LEMMA TrackedAir ==
  ASSUME TypeOK, TrackInv, Air
  PROVE  TrackInv'
<1>1. UNCHANGED <<phase, inFlight, completed, pending, delivered>>
  BY DEF Air, AirEngine, AirPop, AirLose, AirRepeat, AirStart, AirFence, AirGap, AirEnd, AirCrash,
         AirUnchanged, producerVars
<1>2. events \in Seq(Event) /\ live \in 0..popped /\ popped \in 0..Len(delivered)
  BY DEF TypeOK, SessionType, AirType
<1>3. live # 0 => Completed.block = delivered[live] /\ live \in 1..Len(delivered)
  BY <1>2 DEF Completed
<1>4. ASSUME NEW k \in 1..Len(events'), events'[k].type = "completed"
      PROVE  (\E i \in 1..Len(events) : events'[k] = events[i]) \/ (live # 0 /\ events'[k] = Completed)
  <2>1. CASE AirPop \/ AirLose \/ AirRepeat
    BY <1>4, <2>1 DEF AirPop, AirLose, AirRepeat
  <2>2. CASE AirStart
    BY <1>2, <1>4, <2>2 DEF AirStart, Emit, Started
  <2>3. CASE AirFence
    BY <1>2, <1>4, <2>3 DEF AirFence, Emit, Started
  <2>4. CASE AirGap
    BY <1>2, <1>4, <2>4 DEF AirGap, Emit
  <2>5. CASE AirEnd
    <3> DEFINE over == [type |-> "ended", block |-> 0, play |-> plays]
    <3>1. Emit(<<over>>) /\ <<over>> \in Seq({over}) /\ over.type # "completed"
      BY <2>5 DEF AirEnd
    <3> HIDE DEF over
    <3>2. events'[k] \notin {over}
      BY <1>4, <3>1
    <3> QED BY <1>2, <3>1, <3>2, EmittedOrOld
  <2>6. CASE AirCrash
    BY <1>2, <1>4, <2>6 DEF AirCrash
  <2> QED BY <2>1, <2>2, <2>3, <2>4, <2>5, <2>6 DEF Air, AirEngine
<1>5. ASSUME NEW k \in 1..Len(events'), events'[k].type = "completed"
      PROVE  \E j \in 1..Len(delivered) : events'[k].block = delivered[j]
  BY <1>3, <1>4, <1>5 DEF TrackInv
<1>6. phase' = "up" => \A k \in 1..Len(delivered') : delivered'[k] \in Tracked'
  BY <1>1 DEF TrackInv, Tracked
<1> QED BY <1>1, <1>5, <1>6 DEF TrackInv

LEMMA TrackStep ==
  ASSUME TypeOK, LockInv, RetryInv, OrderInv, EndInv, TrackInv, [Next]_vars
  PROVE  TrackInv'
<1>1. CASE SeedSession
  BY <1>1 DEF SeedSession, EndInv, TrackInv
<1>2. CASE FinishStart
  <2>1. delivered = <<1, 2>> /\ UNCHANGED <<delivered, events>> /\ inFlight' = {1, 2}
    BY <1>2 DEF FinishStart, LockInv, airVars
  <2>2. \A k \in 1..Len(delivered') : delivered'[k] \in inFlight'
    BY <2>1
  <2> QED BY <2>1, <2>2 DEF TrackInv, Tracked
<1>3. CASE FeedStep
  BY <1>3, TrackedFeed
<1>4. CASE EventThread
  BY <1>4, TrackedHandler
<1>5. CASE Air
  BY <1>5, TrackedAir
<1>6. CASE Stop \/ StartFails
  BY <1>6 DEF Stop, StartFails, airVars, TrackInv
<1>7. CASE Subscribe \/ FeedNoPlan \/ Tick \/ StreamBreaks \/ ExtendHorizon \/ Finished
           \/ UNCHANGED vars
  BY <1>7 DEF Subscribe, FeedNoPlan, Tick, StreamBreaks, ExtendHorizon, Finished, vars, producerVars,
              airVars, TrackInv, Tracked
<1> QED BY <1>1, <1>2, <1>3, <1>4, <1>5, <1>6, <1>7 DEF Next, Core, FeedLoop

\* INV-WALLCLOCK-FENCE-002 discards no completion: whatever AIR still has or has
\* completed, Core has in flight, has completed or will send again, for every
\* queue depth and any number of faults.
THEOREM CompletionsKnown == Spec => []CompletionsRecognised
<1>1. Init => IInv /\ EndInv /\ OrderInv /\ TrackInv
  BY InvInit, EndInit DEF Init, TrackInv
<1>2. IInv /\ EndInv /\ OrderInv /\ TrackInv /\ [Next]_vars
        => IInv' /\ EndInv' /\ OrderInv' /\ TrackInv'
  BY InvStep, EndStep, GrowsStep, OrderStep, TrackStep DEF IInv
<1>3. IInv /\ TrackInv => CompletionsRecognised
  <2> SUFFICES ASSUME IInv, TrackInv, phase = "up" PROVE AirHolds \subseteq Tracked
    BY DEF CompletionsRecognised, Tracked
  <2>1. /\ popped \in 0..Len(delivered) /\ prep \subseteq 1..popped /\ live \in 0..popped
        /\ delivered \in Seq(Nat) /\ events \in Seq(Event)
    BY DEF IInv, TypeOK, AirType, SessionType
  <2>2. ASSUME NEW k \in (popped + 1)..Len(delivered) \cup prep \cup ({live} \ {0})
        PROVE  delivered[k] \in Tracked
    <3>1. k \in 1..Len(delivered)
      BY <2>1
    <3> QED BY <3>1 DEF TrackInv
  <2>3. ASSUME NEW k \in DOMAIN events, events[k].type = "completed"
        PROVE  events[k].block \in Tracked
    BY <2>1, <2>3 DEF TrackInv
  <2>4. AirHolds = {delivered[k] : k \in (popped + 1)..Len(delivered) \cup prep \cup ({live} \ {0})}
                     \cup {events[k].block : k \in {i \in DOMAIN events : events[i].type = "completed"}}
    BY Zenon DEF AirHolds
  <2> QED BY <2>2, <2>3, <2>4
<1> QED BY <1>1, <1>2, <1>3, PTL DEF Spec

(***************************************************************************)
(* Core never starves: the invariants, on top of IInv and EndInv.          *)
(***************************************************************************)

\* AIR has a block to put on air, or Core has the start of one to read.
HasStarted(evs)   == \E k \in 1..Len(evs) : evs[k].type = "started"
HasCompleted(evs) == \E k \in 1..Len(evs) : evs[k].type = "completed"
Busy    == AirQueueLen > 0 \/ prep # {} \/ HasStarted(events)
Running == phase \in {"seeded", "up"} /\ air = "running"

\* A reader of a running engine is subscribed; before that every event was missed,
\* and AIR has emitted one for each start and each end of a block.
SubInv ==
  /\ reader = "reading" /\ air = "running" => subscribed
  /\ Running /\ ~subscribed =>
       /\ events = <<>> /\ heard = 0
       /\ missed = IF live # 0 THEN 2 * plays - 1 ELSE 2 * plays
  /\ phase = "new" => ~subscribed /\ plays = 0 /\ missed = 0 /\ reader = "none"

\* Until Core has handled a block event it has fed nothing: AIR has the two seeded
\* blocks, and the first completion will be recognised.
OfSeed(evs) == \A k \in 1..Len(evs) : evs[k].type = "completed" => evs[k].block \in {1, 2}
UnheardInv ==
  phase \in {"new", "seeded", "up"} /\ heard = 0 =>
    /\ phase # "new" => delivered = <<1, 2>>
    /\ ~startedSeen /\ loop = 0 /\ completed = {}
    /\ phase = "up" => inFlight = {1, 2}
    /\ phase = "up" /\ ~sessionEnded => feedState = "SEEDED"
    /\ OfSeed(events)

\* A started producer whose session is not over is SEEDED or RUNNING.
StateInv == phase = "up" /\ ~sessionEnded => feedState \in {"SEEDED", "RUNNING"}

\* Unless AIR drops one, every block it popped is prerolled or was on air.
PlayedInv == airLosses = 0 => popped <= plays + Cardinality(prep)

\* Once Core has handled a block event, it has a credit to spend whenever AIR has
\* nothing that brings one.
Fed == Busy \/ (feedState = "RUNNING" /\ credits > 0)
HeardInv ==
  phase = "up" /\ ~sessionEnded /\ air = "running" /\ airLosses = 0 /\ heard # 0 => Fed

\* Until then the seeded blocks are still to start or to end, unless all four of
\* their events were missed.
FirstInv ==
  Running /\ airLosses = 0 /\ heard = 0 /\ missed < 4 =>
    Busy \/ live # 0 \/ HasCompleted(events)

StarveInv == SubInv /\ UnheardInv /\ StateInv /\ PlayedInv /\ HeardInv /\ FirstInv

\* Facts about the types that the steps need.
LEMMA FeedTypes ==
  ASSUME TypeOK
  PROVE  /\ events \in Seq(Event) /\ delivered \in Seq(Nat) /\ prep \subseteq 1..popped
         /\ popped \in 0..Len(delivered) /\ live \in 0..popped /\ plays \in Nat /\ missed \in Nat
         /\ airLosses \in Nat /\ heard \in Nat /\ credits \in 0..QueueDepth /\ loop \in Nat
         /\ subscribed \in BOOLEAN /\ sessionEnded \in BOOLEAN /\ startedSeen \in BOOLEAN
         /\ QueueDepth \in Nat /\ QueueDepth >= 2 /\ AirQueueLen \in Nat
BY FeedAssumption DEF TypeOK, ProducerType, SessionType, AirType, FlagType, FaultType, AirQueueLen

\* What appending to the stream and reading its head do to the events in it.
LEMMA StreamGrows ==
  ASSUME NEW evs \in Seq(Event), NEW new \in Seq(Event)
  PROVE  /\ HasStarted(evs) \/ HasStarted(new) => HasStarted(evs \o new)
         /\ HasCompleted(evs) \/ HasCompleted(new) => HasCompleted(evs \o new)
         /\ OfSeed(evs) /\ OfSeed(new) => OfSeed(evs \o new)
<1>1. /\ Len(evs \o new) = Len(evs) + Len(new) /\ Len(evs) \in Nat /\ Len(new) \in Nat
      /\ \A k \in 1..Len(evs) : (evs \o new)[k] = evs[k] /\ k \in 1..Len(evs \o new)
      /\ \A k \in 1..Len(new) : /\ (evs \o new)[Len(evs) + k] = new[k]
                                /\ Len(evs) + k \in 1..Len(evs \o new)
  OBVIOUS
<1>2. ASSUME NEW k \in 1..Len(evs \o new)
      PROVE  k \in 1..Len(evs) \/ \E i \in 1..Len(new) : k = Len(evs) + i
  <2>1. k > Len(evs) => k - Len(evs) \in 1..Len(new) /\ k = Len(evs) + (k - Len(evs))
    BY <1>1
  <2> QED BY <1>1, <2>1
<1>3. HasStarted(evs) \/ HasStarted(new) => HasStarted(evs \o new)
  BY <1>1 DEF HasStarted
<1>4. HasCompleted(evs) \/ HasCompleted(new) => HasCompleted(evs \o new)
  BY <1>1 DEF HasCompleted
<1>5. OfSeed(evs) /\ OfSeed(new) => OfSeed(evs \o new)
  BY <1>1, <1>2 DEF OfSeed
<1> QED BY <1>3, <1>4, <1>5

LEMMA StreamRead ==
  ASSUME NEW evs \in Seq(Event), evs # <<>>
  PROVE  /\ Head(evs).type # "started" /\ HasStarted(evs) => HasStarted(Tail(evs))
         /\ OfSeed(evs) => /\ OfSeed(Tail(evs))
                           /\ Head(evs).type = "completed" => Head(evs).block \in {1, 2}
<1>1. /\ Len(Tail(evs)) = Len(evs) - 1 /\ Len(evs) >= 1 /\ Len(evs) \in Nat
      /\ \A k \in 1..Len(Tail(evs)) : Tail(evs)[k] = evs[k + 1] /\ k + 1 \in 1..Len(evs)
      /\ Head(evs) = evs[1] /\ 1 \in 1..Len(evs)
  OBVIOUS
<1>2. ASSUME NEW k \in 1..Len(evs), k # 1
      PROVE  k - 1 \in 1..Len(Tail(evs)) /\ Tail(evs)[k - 1] = evs[k]
  BY <1>1, <1>2
<1>3. Head(evs).type # "started" /\ HasStarted(evs) => HasStarted(Tail(evs))
  BY <1>1, <1>2 DEF HasStarted
<1>4. OfSeed(evs) => OfSeed(Tail(evs)) /\ (Head(evs).type = "completed" => Head(evs).block \in {1, 2})
  BY <1>1 DEF OfSeed
<1> QED BY <1>3, <1>4

\* A block event that Core handles is later than any it handled before.
LEMMA HandledLater ==
  ASSUME TypeOK, StreamInv, OnBlockStarted \/ OnBlockComplete
  PROVE  heard' # 0
<1>1. /\ events \in Seq(Event) /\ events # <<>> /\ Head(events).type # "ended"
      /\ heard' = Key(Head(events)) /\ heard \in Nat /\ LastKey \in Nat
  BY DEF OnBlockStarted, OnBlockComplete, TypeOK, SessionType, AirType, LastKey
<1>2. heard < Key(Head(events))
  BY <1>1, BetweenTail DEF StreamInv
<1>3. Key(Head(events)) \in Nat
  BY <1>1, KeyType
<1> QED BY <1>1, <1>2, <1>3

\* What goes on air is a position in delivered.
LEMMA GoesOnAir ==
  ASSUME TypeOK, AirStart \/ AirFence
  PROVE  live' # 0
<1>1. PICK k \in prep : live' = k
  BY DEF AirStart, AirFence
<1>2. k # 0
  BY FeedTypes
<1> QED BY <1>1, <1>2

\* The steps of AIR's tick that emit, and what they emit.
LEMMA AirEmits ==
  ASSUME TypeOK, AirStart \/ AirFence \/ AirGap
  PROVE  \E new \in Seq(Event) :
           /\ Emit(new)
           /\ AirStart => Len(new) = 1 /\ HasStarted(new)
           /\ AirFence => Len(new) = 2 /\ HasStarted(new)
           /\ AirGap => Len(new) = 1 /\ HasCompleted(new)
           /\ delivered = <<1, 2>> => OfSeed(new)
<1>0. DataType
  BY DEF TypeOK, DataType
<1>1. live # 0 => Completed \in Event /\ Completed.type = "completed" /\ Completed.block = delivered[live]
  BY <1>0, EventTypes DEF Completed
<1>2. \A k \in prep : Started(k) \in Event /\ Started(k).type = "started"
  BY <1>0, EventTypes DEF Started
<1>3. delivered = <<1, 2>> /\ live # 0 => delivered[live] \in {1, 2}
  BY FeedTypes
<1>4. CASE AirStart
  <2>1. PICK k \in prep : Emit(<<Started(k)>>)
    BY <1>4 DEF AirStart
  <2>2. <<Started(k)>> \in Seq(Event) /\ Len(<<Started(k)>>) = 1 /\ <<Started(k)>>[1] = Started(k)
    BY <1>2
  <2>3. HasStarted(<<Started(k)>>) /\ OfSeed(<<Started(k)>>)
    BY <1>2, <2>2 DEF HasStarted, OfSeed
  <2>4. ~AirFence /\ ~AirGap
    BY <1>4 DEF AirStart, AirFence, AirGap
  <2> QED BY <2>1, <2>2, <2>3, <2>4
<1>5. CASE AirFence
  <2>1. live' # 0 /\ \E k \in prep : Emit(<<Completed, Started(k)>>)
    BY <1>5, GoesOnAir DEF AirFence
  <2>5. PICK k \in prep : Emit(<<Completed, Started(k)>>)
    BY <2>1
  <2> DEFINE new == <<Completed, Started(k)>>
  <2>2. /\ live # 0 /\ new \in Seq(Event) /\ Len(new) = 2
        /\ new[1] = Completed /\ new[2] = Started(k)
    BY <1>1, <1>2, <1>5 DEF AirFence
  <2> HIDE DEF new
  <2>3. HasStarted(new) /\ (delivered = <<1, 2>> => OfSeed(new))
    BY <1>1, <1>2, <1>3, <2>2 DEF HasStarted, OfSeed
  <2>4. ~AirStart /\ ~AirGap
    BY <1>5, <2>1 DEF AirStart, AirFence, AirGap
  <2> QED BY <2>5, <2>2, <2>3, <2>4 DEF new
<1>6. CASE AirGap
  <2> DEFINE new == <<Completed>>
  <2>1. live # 0 /\ Emit(new) /\ new \in Seq(Event) /\ Len(new) = 1 /\ new[1] = Completed
    BY <1>1, <1>6 DEF AirGap
  <2> HIDE DEF new
  <2>2. HasCompleted(new) /\ (delivered = <<1, 2>> => OfSeed(new))
    BY <1>1, <1>3, <2>1 DEF HasCompleted, OfSeed
  <2>3. ~AirStart /\ ~AirFence
    BY <1>6, GoesOnAir DEF AirGap
  <2> QED BY <2>1, <2>2, <2>3
<1> QED BY <1>4, <1>5, <1>6

LEMMA StarveInit == Init => StarveInv
<1> SUFFICES ASSUME Init PROVE StarveInv
  OBVIOUS
<1>1. SubInv /\ StateInv /\ HeardInv /\ FirstInv
  BY DEF Init, SubInv, StateInv, HeardInv, FirstInv, Running
<1>2. UnheardInv
  BY DEF Init, UnheardInv, OfSeed
<1>3. PlayedInv
  BY FS_EmptySet DEF Init, PlayedInv
<1> QED BY <1>1, <1>2, <1>3 DEF StarveInv

LEMMA SubStep ==
  ASSUME TypeOK, LockInv, EndInv, SubInv, [Next]_vars
  PROVE  SubInv'
<1> USE DEF SubInv, Running
<1>1. CASE SeedSession
  BY <1>1 DEF SeedSession, EndInv, LockInv, faultVars
<1>2. CASE StartFails \/ FinishStart \/ Subscribe
  BY <1>2 DEF StartFails, FinishStart, Subscribe, sessionVars, airVars, faultVars
<1>3. CASE FeedLoop \/ Tick \/ ExtendHorizon
  BY <1>3 DEF FeedLoop, FeedNoPlan, FeedStep, unchangedByFeed, Tick, ExtendHorizon, sessionVars,
              airVars, faultVars
<1>4. CASE EventThread
  BY <1>4 DEF EventThread, OnBlockStarted, OnBlockComplete, ReadSessionEnded, OnSessionEnd,
              sessionVars, airVars, faultVars
<1>5. CASE StreamBreaks \/ Stop
  BY <1>5 DEF StreamBreaks, Stop, LockFree, airVars, faultVars
<1>6. CASE AirPop \/ AirLose \/ AirRepeat \/ AirEnd \/ AirCrash
  BY <1>6 DEF AirPop, AirLose, AirRepeat, AirEnd, AirCrash, AirUnchanged, LockInv, sessionVars,
              faultVars
<1>7. CASE AirStart \/ AirFence \/ AirGap
  <2>1. /\ UNCHANGED <<phase, reader, heard, subscribed>> /\ phase # "new"
        /\ AirStart => live = 0 /\ live' # 0 /\ plays' = plays + 1
        /\ AirFence => live # 0 /\ live' # 0 /\ plays' = plays + 1
        /\ AirGap => live # 0 /\ live' = 0 /\ plays' = plays
    BY <1>7, GoesOnAir DEF AirStart, AirFence, AirGap, AirUnchanged, LockInv, sessionVars
  <2>2. CASE subscribed
    BY <2>1, <2>2
  <2>3. CASE ~subscribed
    <3>1. PICK new \in Seq(Event) :
            /\ Emit(new)
            /\ AirStart => Len(new) = 1
            /\ AirFence => Len(new) = 2
            /\ AirGap => Len(new) = 1
      BY <1>7, AirEmits
    <3>2. missed' = missed + Len(new) /\ events' = events
      BY <2>3, <3>1 DEF Emit
    <3>3. plays \in Nat /\ air = "running"
      BY <1>7, FeedTypes DEF AirStart, AirFence, AirGap
    <3>4. ASSUME phase \in {"seeded", "up"}
          PROVE  missed' = IF live' # 0 THEN 2 * plays' - 1 ELSE 2 * plays'
      <4>1. missed = IF live # 0 THEN 2 * plays - 1 ELSE 2 * plays
        BY <2>3, <3>3, <3>4
      <4>2. CASE AirStart
        <5>1. live = 0 /\ live' # 0 /\ plays' = plays + 1 /\ missed' = missed + 1
          BY <2>1, <3>1, <3>2, <4>2
        <5>2. missed = 2 * plays
          BY <4>1, <5>1
        <5> QED BY <3>3, <5>1, <5>2
      <4>3. CASE AirFence
        <5>1. live # 0 /\ live' # 0 /\ plays' = plays + 1 /\ missed' = missed + 2
          BY <2>1, <3>1, <3>2, <4>3
        <5>2. missed = 2 * plays - 1
          BY <4>1, <5>1
        <5> QED BY <3>3, <5>1, <5>2
      <4>4. CASE AirGap
        <5>1. live # 0 /\ live' = 0 /\ plays' = plays /\ missed' = missed + 1
          BY <2>1, <3>1, <3>2, <4>4
        <5>2. missed = 2 * plays - 1
          BY <4>1, <5>1
        <5> QED BY <3>3, <5>1, <5>2
      <4> QED BY <1>7, <4>2, <4>3, <4>4
    <3>5. reader' = "reading" /\ air' = "running" => subscribed'
      BY <2>1, <2>3, <3>3
    <3> QED BY <2>1, <2>3, <3>2, <3>3, <3>4, <3>5
  <2> QED BY <2>2, <2>3
<1>8. CASE Finished \/ UNCHANGED vars
  BY <1>8 DEF Finished, vars, sessionVars, airVars, faultVars
<1> QED BY <1>1, <1>2, <1>3, <1>4, <1>5, <1>6, <1>7, <1>8 DEF Next, Core, Air, AirEngine

\* A crash only cuts the stream.
LEMMA SeedPrefix ==
  ASSUME NEW evs \in Seq(Event), OfSeed(evs), NEW n \in 0..Len(evs)
  PROVE  OfSeed(SubSeq(evs, 1, n))
<1>1. /\ Len(SubSeq(evs, 1, n)) = n
      /\ \A k \in 1..n : SubSeq(evs, 1, n)[k] = evs[k] /\ k \in 1..Len(evs)
  OBVIOUS
<1> QED BY <1>1 DEF OfSeed

LEMMA UnheardStep ==
  ASSUME TypeOK, LockInv, EndInv, StreamInv, UnheardInv, [Next]_vars
  PROVE  UnheardInv'
<1> USE DEF UnheardInv
<1>1. CASE SeedSession
  BY <1>1 DEF SeedSession, producerVars
<1>2. CASE StartFails \/ Stop
  BY <1>2 DEF StartFails, Stop
<1>3. CASE FinishStart
  BY <1>3 DEF FinishStart, airVars
<1>4. CASE FeedLoop
  BY <1>4 DEF FeedLoop, FeedNoPlan, FeedStep, unchangedByFeed, LockInv
<1>5. CASE Tick
  <2>1. phase = "up" /\ loop = 0
        /\ UNCHANGED <<phase, feedState, sessionEnded, inFlight, completed, startedSeen, delivered,
                       events, heard>>
    BY <1>5 DEF Tick, LockFree, airVars
  <2>2. loop' = 0 \/ (feedState = "RUNNING" /\ ~sessionEnded)
    BY <1>5, <2>1 DEF Tick, FeedAhead
  <2> QED BY <2>1, <2>2
<1>6. CASE OnBlockStarted \/ OnBlockComplete
  BY <1>6, HandledLater
<1>7. CASE ReadSessionEnded
  <2>1. UNCHANGED <<phase, feedState, sessionEnded, inFlight, completed, startedSeen, loop,
                    delivered, heard>>
        /\ events # <<>> /\ events' = Tail(events)
    BY <1>7 DEF ReadSessionEnded, producerVars, airVars
  <2>2. OfSeed(events) => OfSeed(events')
    BY <2>1, FeedTypes, StreamRead
  <2> QED BY <2>1, <2>2 DEF OfSeed
<1>8. CASE OnSessionEnd
  BY <1>8 DEF OnSessionEnd, airVars
<1>9. CASE Air
  <2>1. UNCHANGED <<phase, feedState, sessionEnded, inFlight, completed, startedSeen, loop,
                    delivered, heard>> /\ phase # "new"
    BY <1>9 DEF Air, AirEngine, AirPop, AirStart, AirFence, AirGap, AirLose, AirRepeat, AirEnd,
                AirCrash, AirUnchanged, producerVars, LockInv
  <2>2. events \in Seq(Event)
    BY FeedTypes
  <2>3. OfSeed(events) /\ delivered = <<1, 2>> => OfSeed(events')
    <3>1. CASE AirPop \/ AirLose \/ AirRepeat
      BY <3>1 DEF AirPop, AirLose, AirRepeat
    <3>2. CASE AirStart \/ AirFence \/ AirGap
      <4>1. PICK new \in Seq(Event) : Emit(new) /\ (delivered = <<1, 2>> => OfSeed(new))
        BY <3>2, AirEmits
      <4>2. events' = events \/ events' = events \o new
        BY <4>1 DEF Emit
      <4> QED BY <2>2, <4>1, <4>2, StreamGrows
    <3>3. CASE AirEnd
      <4> DEFINE over == [type |-> "ended", block |-> 0, play |-> plays]
                 new == <<over>>
      <4>1. over \in Event /\ over.type # "completed" /\ Emit(new)
        BY <3>3, EventTypes DEF AirEnd, TypeOK, DataType
      <4> HIDE DEF over
      <4>2. new \in Seq(Event) /\ OfSeed(new)
        BY <4>1 DEF OfSeed
      <4>3. events' = events \/ events' = events \o new
        BY <4>1 DEF Emit
      <4> HIDE DEF new
      <4> QED BY <2>2, <4>2, <4>3, StreamGrows
    <3>4. CASE AirCrash
      BY <2>2, <3>4, SeedPrefix DEF AirCrash
    <3> QED BY <1>9, <3>1, <3>2, <3>3, <3>4 DEF Air, AirEngine
  <2> HIDE DEF UnheardInv
  <2>4. UnheardInv /\ phase \in {"seeded", "up"} /\ heard = 0 => OfSeed(events')
    BY <2>3 DEF UnheardInv
  <2> QED BY <2>1, <2>4 DEF UnheardInv
<1>10. CASE Subscribe \/ StreamBreaks \/ ExtendHorizon \/ Finished \/ UNCHANGED vars
  BY <1>10 DEF Subscribe, StreamBreaks, ExtendHorizon, Finished, vars, producerVars, airVars
<1> QED BY <1>1, <1>2, <1>3, <1>4, <1>5, <1>6, <1>7, <1>8, <1>9, <1>10 DEF Next, Core, EventThread

LEMMA StateStep ==
  ASSUME StateInv, [Next]_vars
  PROVE  StateInv'
<1> USE DEF StateInv
<1>1. CASE OnBlockStarted \/ OnBlockComplete
  <2>1. UNCHANGED <<phase, sessionEnded>> /\ (feedState' = NextState \/ feedState' = feedState)
    BY <1>1 DEF OnBlockStarted, OnBlockComplete
  <2> QED BY <2>1 DEF NextState
<1>2. CASE FinishStart \/ Stop \/ StartFails \/ SeedSession \/ OnSessionEnd
  BY <1>2 DEF FinishStart, Stop, StartFails, SeedSession, OnSessionEnd
<1>3. CASE UNCHANGED <<phase, sessionEnded, feedState>>
  BY <1>3
<1> QED BY <1>1, <1>2, <1>3 DEF Next, Core, FeedLoop, EventThread, Subscribe, FeedNoPlan, FeedStep,
         unchangedByFeed, Tick, ReadSessionEnded, StreamBreaks, ExtendHorizon, Air, AirEngine, AirPop,
         AirStart, AirFence, AirGap, AirLose, AirRepeat, AirEnd, AirCrash, AirUnchanged, Finished, vars,
         producerVars

\* Only AirLose loses a block.
LEMMA LossFrame ==
  ASSUME [Next]_vars
  PROVE  AirLose \/ UNCHANGED airLosses
BY DEF Next, Core, FeedLoop, EventThread, Finished, vars, SeedSession, StartFails, FinishStart,
       Subscribe, FeedStep, unchangedByFeed, FeedNoPlan, Tick, OnBlockStarted, OnBlockComplete,
       ReadSessionEnded, OnSessionEnd, StreamBreaks, Stop, ExtendHorizon, Air, AirEngine, AirPop,
       AirStart, AirFence, AirGap, AirRepeat, AirEnd, AirCrash, faultVars

LEMMA PlayedStep ==
  ASSUME TypeOK, PlayInv, PlayedInv, [Next]_vars
  PROVE  PlayedInv'
<1>1. /\ popped \in Nat /\ plays \in Nat /\ prep \subseteq 1..popped /\ IsFiniteSet(prep)
      /\ Cardinality(prep) \in Nat /\ airLosses \in Nat
  BY FS_CardinalityType DEF TypeOK, AirType, FaultType, PlayInv
<1>2. CASE AirLose
  BY <1>1, <1>2 DEF AirLose, PlayedInv
<1>3. CASE AirPop
  <2>1. Cardinality(prep') = Cardinality(prep) + 1
    BY <1>1, <1>3, FS_AddElement DEF AirPop
  <2> QED BY <1>1, <1>3, <2>1 DEF AirPop, PlayedInv, faultVars
<1>4. CASE AirRepeat
  <2>1. Cardinality(prep') = Cardinality(prep) + 1
    BY <1>1, <1>4, FS_AddElement DEF AirRepeat
  <2> QED BY <1>1, <1>4, <2>1 DEF AirRepeat, PlayedInv
<1>5. CASE AirStart \/ AirFence
  <2>1. PICK k \in prep : prep' = prep \ {k}
    BY <1>5 DEF AirStart, AirFence
  <2>2. Cardinality(prep') = Cardinality(prep) - 1
    BY <1>1, <2>1, FS_RemoveElement
  <2>3. popped' = popped /\ plays' = plays + 1 /\ airLosses' = airLosses
    BY <1>5 DEF AirStart, AirFence
  <2> QED BY <1>1, <2>2, <2>3 DEF PlayedInv
<1>6. CASE AirGap
  BY <1>6 DEF AirGap, PlayedInv
<1>7. CASE UNCHANGED airPlayVars /\ UNCHANGED airLosses
  BY <1>7 DEF airPlayVars, PlayedInv
<1> QED BY <1>2, <1>3, <1>4, <1>5, <1>6, <1>7, PlayFrame, LossFrame

\* What AIR does to a session that Core has heard of leaves a block to start or its
\* start to read.
LEMMA AirSupplies ==
  ASSUME TypeOK, AirPop \/ AirRepeat \/ AirStart \/ AirFence, subscribed \/ AirPop \/ AirRepeat
  PROVE  Busy'
<1>1. CASE AirPop \/ AirRepeat
  BY <1>1 DEF AirPop, AirRepeat, Busy
<1>2. CASE (AirStart \/ AirFence) /\ subscribed
  <2>1. PICK new \in Seq(Event) : Emit(new) /\ HasStarted(new)
    BY <1>2, AirEmits
  <2>2. events' = events \o new
    BY <1>2, <2>1 DEF Emit
  <2>3. HasStarted(events')
    BY <2>1, <2>2, FeedTypes, StreamGrows
  <2> QED BY <2>3 DEF Busy
<1> QED BY <1>1, <1>2

\* The gap only adds to the stream.
LEMMA GapStream ==
  ASSUME TypeOK, AirGap
  PROVE  /\ Busy => Busy'
         /\ subscribed => HasCompleted(events')
         /\ ~subscribed => missed' = missed + 1
<1>1. PICK new \in Seq(Event) : Emit(new) /\ Len(new) = 1 /\ HasCompleted(new)
  BY AirEmits
<1>2. CASE subscribed
  <2>1. events' = events \o new
    BY <1>1, <1>2 DEF Emit
  <2>2. HasCompleted(events') /\ (HasStarted(events) => HasStarted(events'))
    BY <1>1, <2>1, FeedTypes, StreamGrows
  <2> QED BY <1>2, <2>2 DEF AirGap, Busy, AirQueueLen
<1>3. CASE ~subscribed
  <2>1. events' = events /\ missed' = missed + 1
    BY <1>1, <1>3 DEF Emit
  <2> QED BY <1>3, <2>1 DEF AirGap, Busy, AirQueueLen
<1> QED BY <1>2, <1>3

\* A feed fills AIR's queue, finds it full, or leaves the credits alone.
LEMMA FeedSupplies ==
  ASSUME TypeOK, FeedStep, air = "running"
  PROVE  \/ Busy'
         \/ UNCHANGED <<delivered, popped, prep, events, credits>>
<1>1. UNCHANGED <<popped, prep, events>>
  BY DEF FeedStep, unchangedByFeed
<1>2. /\ delivered \in Seq(Nat) /\ popped \in 0..Len(delivered) /\ QueueDepth \in Nat
      /\ QueueDepth >= 2 /\ Candidate \in Nat
  BY FeedTypes, FeedOutcomes DEF TypeOK, DataType
<1>3. CASE delivered' = Append(delivered, Candidate)
  <2>1. Len(delivered') = Len(delivered) + 1
    BY <1>2, <1>3
  <2> QED BY <1>1, <1>2, <2>1 DEF Busy, AirQueueLen
<1>4. CASE ~Accepts /\ delivered' = delivered
  BY <1>1, <1>2, <1>4 DEF Accepts, Busy, AirQueueLen
<1>5. CASE FeedError(Candidate) /\ delivered' = delivered
  BY <1>1, <1>5 DEF FeedError
<1> QED BY <1>3, <1>4, <1>5 DEF FeedStep

\* A handled event brings a credit, or it is a completion and leaves the others
\* in the stream.
LEMMA HandlerSupplies ==
  ASSUME TypeOK, UnheardInv, StateInv, ~sessionEnded, OnBlockStarted \/ OnBlockComplete,
         heard # 0 => Fed
  PROVE  Fed'
<1>1. /\ events \in Seq(Event) /\ events # <<>> /\ events' = Tail(events)
      /\ UNCHANGED <<delivered, popped, prep>> /\ phase = "up"
      /\ credits \in 0..QueueDepth /\ QueueDepth \in Nat /\ QueueDepth >= 2
  BY FeedTypes DEF OnBlockStarted, OnBlockComplete, LockFree, airVars
<1>2. Credited \in Nat /\ Credited > 0 /\ Credited >= credits
  BY <1>1 DEF Credited, Min2
<1>3. NextState = "RUNNING"
  BY <1>1 DEF StateInv, NextState
<1>4. CASE OnBlockStarted
  BY <1>2, <1>3, <1>4 DEF OnBlockStarted, Fed
<1>5. CASE OnBlockComplete
  <2>1. Head(events).type = "completed"
    BY <1>5 DEF OnBlockComplete
  <2>2. Busy => Busy'
    BY <1>1, <2>1, StreamRead DEF Busy, AirQueueLen
  <2>3. CASE heard # 0
    <3>1. feedState = "RUNNING" /\ credits > 0 => feedState' = "RUNNING" /\ credits' > 0
      BY <1>1, <1>2, <1>3, <1>5 DEF OnBlockComplete, CompletionCredit
    <3> QED BY <2>2, <2>3, <3>1 DEF Fed
  <2>4. CASE heard = 0
    <3>1. ~startedSeen /\ completed = {} /\ inFlight = {1, 2} /\ OfSeed(events)
      BY <1>1, <2>4 DEF UnheardInv
    <3>2. Head(events).block \in {1, 2}
      BY <1>1, <2>1, <3>1, StreamRead
    <3>3. credits' = Credited /\ feedState' = "RUNNING"
      BY <1>3, <1>5, <3>1, <3>2 DEF OnBlockComplete, CompletionCredit
    <3> QED BY <1>2, <3>3 DEF Fed
  <2> QED BY <2>3, <2>4
<1> QED BY <1>4, <1>5

\* What Fed and the premises of HeardInv are about.
supplyVars == <<delivered, popped, prep, events, credits, feedState>>

LEMMA SupplyStep ==
  ASSUME TypeOK, LockInv, EndInv, SubInv, UnheardInv, StateInv, HeardInv, [Next]_vars
  PROVE  HeardInv'
<1> SUFFICES ASSUME phase' = "up", ~sessionEnded', air' = "running", airLosses' = 0, heard' # 0
             PROVE  Fed'
  BY DEF HeardInv
<1>1. ASSUME phase = "up", ~sessionEnded, air = "running", airLosses = 0, heard # 0
      PROVE  Fed
  BY <1>1 DEF HeardInv
<1>2. CASE SeedSession \/ StartFails \/ Stop \/ OnSessionEnd
  BY <1>2 DEF SeedSession, StartFails, Stop, OnSessionEnd
<1>3. CASE FinishStart
  BY <1>3 DEF FinishStart, LockInv
<1>4. CASE FeedStep
  <2>1. UNCHANGED <<phase, sessionEnded, air, airLosses, heard, feedState>>
    BY <1>4 DEF FeedStep, unchangedByFeed
  <2>2. Fed
    BY <1>1, <2>1
  <2>3. UNCHANGED <<delivered, popped, prep, events, credits>> => Fed'
    BY <2>1, <2>2 DEF Fed, Busy, AirQueueLen
  <2> QED BY <1>4, <2>1, <2>3, FeedSupplies DEF Fed
<1>5. CASE OnBlockStarted \/ OnBlockComplete
  <2>1. UNCHANGED <<phase, sessionEnded, air, airLosses>>
    BY <1>5 DEF OnBlockStarted, OnBlockComplete, airVars, faultVars
  <2> QED BY <1>1, <1>5, <2>1, HandlerSupplies
<1>6. CASE ReadSessionEnded
  <2>1. events \in Seq(Event) /\ events # <<>> /\ Head(events).type = "ended" /\ air' = air
    BY <1>6, FeedTypes DEF ReadSessionEnded, airVars
  <2>2. 1 \in 1..Len(events) /\ events[1].type = "ended"
    BY <2>1
  <2> QED BY <2>1, <2>2 DEF EndInv
<1>7. CASE AirPop \/ AirRepeat \/ AirStart \/ AirFence
  <2>1. UNCHANGED <<phase, heard>> /\ air = "running" /\ heard # 0
    BY <1>7 DEF AirPop, AirRepeat, AirStart, AirFence, AirUnchanged
  <2>2. subscribed
    BY <2>1, FeedTypes DEF SubInv, Running
  <2> QED BY <1>7, <2>2, AirSupplies DEF Fed
<1>8. CASE AirGap
  <2>1. UNCHANGED <<phase, sessionEnded, air, airLosses, heard, feedState, credits>>
    BY <1>8 DEF AirGap, AirUnchanged, producerVars
  <2> QED BY <1>1, <1>8, <2>1, GapStream DEF Fed
<1>9. CASE AirLose
  <2>1. airLosses' = airLosses + 1 /\ airLosses \in Nat
    BY <1>9, FeedTypes DEF AirLose
  <2> QED BY <2>1
<1>10. CASE AirEnd \/ AirCrash
  BY <1>10 DEF AirEnd, AirCrash
<1>11. CASE UNCHANGED <<phase, sessionEnded, air, airLosses, heard, supplyVars>>
  BY <1>1, <1>11 DEF Fed, Busy, AirQueueLen, supplyVars
<1> QED BY <1>2, <1>3, <1>4, <1>5, <1>6, <1>7, <1>8, <1>9, <1>10, <1>11
        DEF Next, Core, FeedLoop, EventThread, Subscribe, FeedNoPlan, Tick, StreamBreaks, ExtendHorizon,
            Air, AirEngine, Finished, vars, producerVars, airVars, faultVars, supplyVars

\* Events are missed, never found again.
LEMMA MissedGrows ==
  ASSUME TypeOK, [Next]_vars
  PROVE  missed' \in Nat /\ missed <= missed'
<1>1. missed \in Nat
  BY FeedTypes
<1>2. ASSUME NEW new \in Seq(Event), Emit(new) PROVE missed' \in Nat /\ missed <= missed'
  BY <1>1, <1>2 DEF Emit
<1>3. CASE AirStart \/ AirFence \/ AirGap
  BY <1>2, <1>3, AirEmits
<1>4. CASE AirEnd
  <2> DEFINE over == [type |-> "ended", block |-> 0, play |-> plays]
  <2>1. <<over>> \in Seq(Event)
    BY EventTypes DEF TypeOK, DataType
  <2> QED BY <1>2, <1>4, <2>1 DEF AirEnd
<1>5. CASE UNCHANGED missed
  BY <1>1, <1>5
<1> QED BY <1>3, <1>4, <1>5
        DEF Next, Core, FeedLoop, EventThread, Finished, vars, SeedSession, StartFails, FinishStart,
            Subscribe, FeedStep, unchangedByFeed, FeedNoPlan, Tick, OnBlockStarted, OnBlockComplete,
            ReadSessionEnded, OnSessionEnd, StreamBreaks, Stop, ExtendHorizon, Air, AirEngine, AirPop,
            AirLose, AirRepeat, AirCrash, faultVars

\* A gap before Core has subscribed, with nothing prerolled, is the end of the second
\* seeded block: all four events are missed.
LEMMA UnseenGap ==
  ASSUME TypeOK, PlayInv, SubInv, UnheardInv, PlayedInv, AirGap,
         phase \in {"seeded", "up"}, heard = 0, airLosses = 0, ~subscribed, prep = {}
  PROVE  missed' >= 4
<1>1. missed = 2 * plays - 1 /\ plays \in Nat
  BY FeedTypes DEF AirGap, SubInv, Running
<1>2. Cardinality(prep) = 0 /\ popped <= plays
  BY FS_EmptySet, FeedTypes DEF PlayedInv
<1>3. popped = 2
  <2>1. delivered = <<1, 2>>
    BY DEF UnheardInv
  <2>2. Len(delivered) = 2
    BY <2>1
  <2> QED BY <2>2, FeedTypes DEF AirGap, AirQueueLen
<1>4. missed' = missed + 1
  BY GapStream
<1> QED BY <1>1, <1>2, <1>3, <1>4

LEMMA FirstStep ==
  ASSUME TypeOK, LockInv, PlayInv, EndInv, StreamInv, SubInv, UnheardInv, PlayedInv, FirstInv,
         [Next]_vars
  PROVE  FirstInv'
<1> SUFFICES ASSUME Running', airLosses' = 0, heard' = 0, missed' < 4
             PROVE  (Busy \/ live # 0 \/ HasCompleted(events))'
  BY DEF FirstInv
<1>1. ASSUME Running, airLosses = 0, heard = 0
      PROVE  Busy \/ live # 0 \/ HasCompleted(events)
  <2>1. missed < 4
    BY MissedGrows, FeedTypes
  <2> QED BY <1>1, <2>1 DEF FirstInv
<1>2. CASE SeedSession
  <2>1. delivered' = <<1, 2>> /\ popped' = 0
    BY <1>2 DEF SeedSession, EndInv
  <2> QED BY <2>1 DEF Busy, AirQueueLen
<1>3. CASE StartFails \/ Stop
  BY <1>3 DEF StartFails, Stop, Running
<1>4. CASE FeedStep
  <2>1. heard = 0 /\ loop > 0 /\ phase = "up"
    BY <1>4 DEF FeedStep, unchangedByFeed, LockInv
  <2> QED BY <2>1 DEF UnheardInv
<1>5. CASE OnBlockStarted \/ OnBlockComplete
  BY <1>5, HandledLater
<1>6. CASE ReadSessionEnded
  <2>1. events \in Seq(Event) /\ events # <<>> /\ Head(events).type = "ended" /\ air' = air
    BY <1>6, FeedTypes DEF ReadSessionEnded, airVars
  <2>2. 1 \in 1..Len(events) /\ events[1].type = "ended"
    BY <2>1
  <2> QED BY <2>1, <2>2 DEF EndInv, Running
<1>7. CASE AirPop \/ AirRepeat
  BY <1>7, AirSupplies
<1>8. CASE AirStart \/ AirFence
  <2>1. live' # 0
    BY <1>8, GoesOnAir
  <2> QED BY <2>1
<1>9. CASE AirGap
  <2>1. UNCHANGED <<phase, air, airLosses, heard, prep>>
    BY <1>9 DEF AirGap, AirUnchanged
  <2>2. CASE subscribed
    BY <1>9, <2>2, GapStream
  <2>3. CASE prep # {}
    BY <2>1, <2>3 DEF Busy
  <2>4. CASE ~subscribed /\ prep = {}
    <3>1. missed' >= 4 /\ missed' \in Nat
      BY <1>9, <2>1, <2>4, UnseenGap, MissedGrows DEF Running
    <3> QED BY <3>1
  <2> QED BY <2>2, <2>3, <2>4
<1>10. CASE AirLose
  <2>1. airLosses' = airLosses + 1 /\ airLosses \in Nat
    BY <1>10, FeedTypes DEF AirLose
  <2> QED BY <2>1
<1>11. CASE AirEnd \/ AirCrash
  BY <1>11 DEF AirEnd, AirCrash, Running
<1>12. CASE UNCHANGED <<delivered, popped, prep, events, live, air, airLosses, heard>>
            /\ (Running' => Running)
  BY <1>1, <1>12 DEF Busy, AirQueueLen
<1>13. FinishStart \/ Subscribe \/ FeedNoPlan \/ Tick \/ OnSessionEnd \/ StreamBreaks
       \/ ExtendHorizon \/ Finished \/ UNCHANGED vars
         => /\ UNCHANGED <<delivered, popped, prep, events, live, air, airLosses, heard>>
            /\ Running' => Running
  BY DEF FinishStart, Subscribe, FeedNoPlan, Tick, OnSessionEnd, StreamBreaks, ExtendHorizon, Finished,
         vars, airVars, faultVars, Running
<1> QED BY <1>2, <1>3, <1>4, <1>5, <1>6, <1>7, <1>8, <1>9, <1>10, <1>11, <1>12, <1>13
        DEF Next, Core, FeedLoop, EventThread, Air, AirEngine

\* Core cannot run dry with AIR waiting for it, whatever was lost, repeated or
\* missed, unless AIR dropped a block or both seeded blocks were over, unseen, before
\* Core had subscribed: the credit that _feed_ahead waits for is on its way, for every
\* queue depth and plan length.
THEOREM NoStarvation == Spec => []NoCreditStarvation
<1>1. Init => IInv /\ EndInv /\ StarveInv
  BY InvInit, EndInit, StarveInit
<1>2. IInv /\ EndInv /\ StarveInv /\ [Next]_vars => IInv' /\ EndInv' /\ StarveInv'
  BY InvStep, EndStep, SubStep, UnheardStep, StateStep, PlayedStep, SupplyStep, FirstStep
     DEF IInv, StarveInv
<1>3. IInv /\ StarveInv => NoCreditStarvation
  <2> SUFFICES ASSUME IInv, StarveInv, phase = "up", ~sessionEnded, air = "running", airLosses = 0,
                      missed < 4, credits = 0 \/ feedState = "SEEDED"
               PROVE  CreditOnItsWay
    BY DEF NoCreditStarvation
  <2>1. events \in Seq(Event) /\ credits \in Nat
    BY FeedTypes DEF IInv
  <2>2. Busy => CreditOnItsWay
    BY <2>1 DEF Busy, HasStarted, CreditOnItsWay
  <2>3. CASE heard # 0
    BY <2>1, <2>2, <2>3 DEF StarveInv, HeardInv, Fed
  <2>4. CASE heard = 0
    <3>1. ~startedSeen
      BY <2>4 DEF StarveInv, UnheardInv
    <3>2. Busy \/ live # 0 \/ HasCompleted(events)
      BY <2>4 DEF StarveInv, FirstInv, Running
    <3> QED BY <2>1, <2>2, <3>1, <3>2 DEF HasCompleted, CreditOnItsWay
  <2> QED BY <2>3, <2>4
<1> QED BY <1>1, <1>2, <1>3, PTL DEF Spec
=============================================================================

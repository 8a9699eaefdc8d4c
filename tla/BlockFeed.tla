----------------------------- MODULE BlockFeed -----------------------------
(***************************************************************************)
(* How Core keeps AIR supplied with blocks.                                *)
(*                                                                         *)
(* Three parties run concurrently:                                         *)
(*   - the BlockPlanProducer of a channel (Python): a credit ledger, a     *)
(*     cursor over the plan and a slot for a block that was not accepted;  *)
(*     its handlers (tick, BlockStarted, BlockCompleted) run one at a time *)
(*     under the producer's lock, but a handler that feeds several blocks  *)
(*     makes several RPCs, and AIR moves on between them;                  *)
(*   - the PlayoutSession's event thread, which reads AIR's event stream;  *)
(*   - AIR (C++): a bounded block queue, the blocks it has popped to       *)
(*     preroll, the block on air, and the event stream it writes.          *)
(*                                                                         *)
(* Blocks are numbered by their place in the plan: block b ends where      *)
(* block b + 1 starts, so the producer's cursor is a block number.         *)
(***************************************************************************)
EXTENDS Integers, Sequences, FiniteSets

CONSTANTS
  QueueDepth,      \* BlockPlanProducer._queue_depth, sent to AIR when seeding
  BackoffBase,     \* ERROR_BACKOFF_BASE_TICKS
  BackoffMax,      \* ERROR_BACKOFF_MAX_TICKS
  MaxErrors,       \* bound: the error counter saturates here
  MaxBlock,        \* bound: the plan ends with this block
  MaxMissed,       \* bound: events AIR may emit before Core has subscribed
  MaxFaults,       \* bound: RPCs that fail before AIR sees them
  MaxLostReplies,  \* bound: accepted feeds whose reply Core never receives
  MaxAirLoss,      \* bound: popped blocks that AIR never puts on air
  MaxRepeats,      \* bound: blocks AIR prerolls again after a failed open
  AirFailures,     \* how AIR may stop by itself: subset of {"ended", "dead"}
  Pacing           \* whether a PaceController may drive the producer: subset of BOOLEAN

ASSUME FeedAssumption ==
  /\ QueueDepth \in Nat /\ QueueDepth >= 2       \* max(2, ...) in __init__
  /\ BackoffBase \in Nat /\ BackoffMax \in Nat /\ MaxErrors \in Nat \ {0}
  /\ MaxBlock \in Nat /\ MaxBlock >= 2
  /\ MaxMissed \in Nat /\ MaxFaults \in Nat
  /\ MaxLostReplies \in Nat /\ MaxAirLoss \in Nat /\ MaxRepeats \in Nat
  /\ AirFailures \subseteq {"ended", "dead"} /\ Pacing \subseteq BOOLEAN

VARIABLES
  \* BlockPlanProducer
  phase,        \* "new", "seeded" (start() still holds the lock), "up", "stopped", "failed"
  feedState,    \* _feed_state
  sessionEnded, \* _session_ended
  credits,      \* _feed_credits
  pending,      \* _pending_block, 0 for None
  cursor,       \* _next_block_start_ms, as the number of the block that starts there
  inFlight,     \* _in_flight_block_ids
  completed,    \* _fed_block_ids: blocks whose completion was handled
  startedSeen,  \* _block_started_supported
  errors,       \* _consecutive_feed_errors
  backoff,      \* _error_backoff_remaining
  loop,         \* iterations left in the _feed_ahead loop of the running handler
  horizon,      \* the schedule service has planned blocks up to this one
  paced,        \* the producer is a participant of the PaceController
  stalled,      \* history: an iteration found no block planned, or its feed failed
  \* PlayoutSession
  sessRunning,  \* SessionState.is_running
  sessEnded,    \* SessionState.session_ended
  reader,       \* event thread: "none", "subscribing", "reading", "ending", "gone"
  \* AIR
  air,          \* "off", "running", "ended" (engine stopped, process up), "dead"
  delivered,    \* every block put in AIR's queue, in order
  popped,       \* how many of them AIR has taken out of the queue
  prep,         \* positions in delivered that are popped and not yet on air
  live,         \* position in delivered of the block on air, 0 for none
  plays,        \* how many blocks AIR has put on air
  subscribed,   \* SubscribeBlockEvents has registered its writer
  events,       \* the event stream: written by AIR, not yet read by Core
  heard,        \* key of the last block event Core handled (see Key)
  \* what went wrong so far, against the bounds
  missed, faults, lostReplies, airLosses, repeats

producerVars == <<feedState, sessionEnded, credits, pending, cursor, inFlight,
                  completed, startedSeen, errors, backoff, loop>>
sessionVars  == <<sessRunning, sessEnded, reader>>
airVars      == <<air, delivered, popped, prep, live, plays, subscribed>>
faultVars    == <<missed, faults, lostReplies, airLosses, repeats>>
paceVars     == <<paced, stalled>>
vars == <<phase, producerVars, horizon, paceVars, sessionVars, airVars, events, heard, faultVars>>

Min2(a, b) == IF a < b THEN a ELSE b

\* An event says which block it is about; play counts AIR's block activations.
\* Core never reads play: it only orders the events for the invariants.
Event  == [type : {"started", "completed", "ended"}, block : Nat, play : Nat]
Key(e) == 2 * e.play + (IF e.type = "started" THEN 0 ELSE 1)

AirQueueLen == Len(delivered) - popped

Init ==
  /\ phase = "new" /\ feedState = "CREATED" /\ sessionEnded = FALSE
  /\ credits = 0 /\ pending = 0 /\ cursor = 0
  /\ inFlight = {} /\ completed = {} /\ startedSeen = FALSE
  /\ errors = 0 /\ backoff = 0 /\ loop = 0 /\ horizon = 2
  /\ paced \in Pacing /\ stalled = FALSE
  /\ sessRunning = FALSE /\ sessEnded = FALSE /\ reader = "none"
  /\ air = "off" /\ delivered = <<>> /\ popped = 0 /\ prep = {} /\ live = 0
  /\ plays = 0 /\ subscribed = FALSE /\ events = <<>> /\ heard = 0
  /\ missed = 0 /\ faults = 0 /\ lostReplies = 0 /\ airLosses = 0 /\ repeats = 0

-----------------------------------------------------------------------------
(* Starting a producer.                                                    *)

\* start() up to the reply of StartBlockPlanSession: AIR is launched, its
\* queue holds blocks 1 and 2 and its engine runs; seed() spawns the event
\* thread, which has still to subscribe.  start() keeps the lock.
SeedSession ==
  /\ phase = "new"
  /\ phase' = "seeded"
  /\ sessRunning' = TRUE /\ reader' = "subscribing"
  /\ air' = "running" /\ delivered' = <<1, 2>>
  /\ UNCHANGED <<producerVars, horizon, paceVars, sessEnded, popped, prep, live, plays,
                 subscribed, events, heard, faultVars>>

\* Anything start() does may fail; _cleanup() stops the session and AIR.
StartFails ==
  /\ phase = "new" /\ faults < MaxFaults
  /\ phase' = "failed" /\ faults' = faults + 1
  /\ UNCHANGED <<producerVars, horizon, paceVars, sessionVars, airVars, events, heard,
                 missed, lostReplies, airLosses, repeats>>

\* The rest of start(): the seeded blocks are in flight, the cursor is past
\* them and the ledger opens with the slots the seed left free.
FinishStart ==
  /\ phase = "seeded"
  /\ phase' = "up" /\ feedState' = "SEEDED"
  /\ credits' = QueueDepth - 2
  /\ cursor' = 3 /\ inFlight' = {1, 2}
  /\ UNCHANGED <<sessionEnded, pending, completed, startedSeen, errors, backoff,
                 loop, horizon, paceVars, sessionVars, airVars, events, heard, faultVars>>

\* The event thread's SubscribeBlockEvents reaches AIR.  Events written
\* before this have no subscriber and are lost.
Subscribe ==
  /\ reader = "subscribing"
  /\ IF air = "dead" THEN reader' = "gone" /\ UNCHANGED subscribed
                     ELSE reader' = "reading" /\ subscribed' = TRUE
  /\ UNCHANGED <<phase, producerVars, horizon, paceVars, sessRunning, sessEnded, air,
                 delivered, popped, prep, live, plays, events, heard, faultVars>>

-----------------------------------------------------------------------------
(* The feed-ahead loop.  A handler decides how many iterations it will     *)
(* make; each iteration is a step, because each makes an RPC.              *)

LockFree == loop = 0 /\ phase = "up"

\* The guards of _feed_ahead and the length of its loop, on the values the
\* handler has just written.
FeedAhead(state, creds) ==
  IF state = "RUNNING" /\ ~sessionEnded THEN Min2(creds, QueueDepth) ELSE 0

Backoff(n) ==
  LET ticks == BackoffBase * 2^(n - 1)
  IN  IF ticks \in 0..BackoffMax THEN ticks ELSE BackoffMax

\* A fed block is tracked as active (INV-WALLCLOCK-FENCE-002).
TrackNothing(b) == inFlight                                    \* mutated form
Track(b)        == inFlight \cup {b}

\* _try_feed_block, ACCEPTED.
FeedAccepted(b) ==
  /\ cursor' = b + 1 /\ pending' = 0
  /\ credits' = credits - 1
  /\ inFlight' = Track(b)
  /\ errors' = 0 /\ backoff' = 0
  /\ loop' = IF credits = 1 THEN 0 ELSE loop - 1
  /\ UNCHANGED stalled

\* _try_feed_block, QUEUE_FULL.
FeedQueueFull(b) ==
  /\ pending' = b /\ credits' = 0 /\ loop' = 0
  /\ UNCHANGED <<cursor, inFlight, errors, backoff, stalled>>

\* _try_feed_block, ERROR.
FeedErrorSkips(b) ==                        \* mutated form: the cursor moves on
  /\ pending' = 0 /\ cursor' = b + 1
  /\ errors' = Min2(errors + 1, MaxErrors)
  /\ backoff' = Backoff(errors')
  /\ loop' = 0 /\ stalled' = TRUE
  /\ UNCHANGED <<inFlight, credits>>

FeedErrorDrains(b) ==                       \* mutated form: treated as QUEUE_FULL
  /\ pending' = b /\ credits' = 0
  /\ errors' = Min2(errors + 1, MaxErrors)
  /\ backoff' = Backoff(errors')
  /\ loop' = 0 /\ stalled' = TRUE
  /\ UNCHANGED <<cursor, inFlight>>

FeedError(b) ==
  /\ pending' = b
  /\ errors' = Min2(errors + 1, MaxErrors)
  /\ backoff' = Backoff(errors')
  /\ loop' = 0 /\ stalled' = TRUE
  /\ UNCHANGED <<cursor, inFlight, credits>>

\* The block an iteration feeds: the one waiting in the slot, or the next one.
Candidate == IF pending # 0 THEN pending ELSE cursor

\* PlayoutSession.feed refuses without an RPC.
NeverRefused == FALSE                                          \* mutated form
Refused      == sessEnded \/ ~sessRunning

\* FeedBlockPlan takes a block as long as the session object is active, which
\* it stays after the engine thread has ended.
Accepts == air \in {"running", "ended"} /\ AirQueueLen < QueueDepth

unchangedByFeed == <<phase, feedState, sessionEnded, completed, startedSeen,
                     horizon, paced, sessionVars, air, popped, prep, live, plays,
                     subscribed, events, heard, missed, airLosses, repeats>>

\* No block planned at the cursor: leave the loop, retry on a later tick.
FeedNoPlan ==
  /\ loop > 0 /\ pending = 0 /\ cursor > horizon
  /\ loop' = 0 /\ stalled' = TRUE
  /\ UNCHANGED <<phase, feedState, sessionEnded, credits, pending, cursor, inFlight,
                 completed, startedSeen, errors, backoff, horizon, paced, sessionVars,
                 airVars, events, heard, faultVars>>

FeedStep ==
  /\ loop > 0 /\ (pending # 0 \/ cursor <= horizon)
  /\ UNCHANGED unchangedByFeed
  /\ \/ /\ Refused \/ air = "dead"
        /\ FeedError(Candidate)
        /\ UNCHANGED <<delivered, faults, lostReplies>>
     \/ /\ ~Refused /\ air # "dead" /\ faults < MaxFaults
        /\ FeedError(Candidate)
        /\ faults' = faults + 1
        /\ UNCHANGED <<delivered, lostReplies>>
     \/ /\ ~Refused /\ Accepts
        /\ delivered' = Append(delivered, Candidate)
        /\ \/ FeedAccepted(Candidate) /\ UNCHANGED lostReplies
           \/ /\ lostReplies < MaxLostReplies
              /\ lostReplies' = lostReplies + 1
              /\ FeedError(Candidate)
        /\ UNCHANGED faults
     \/ /\ ~Refused /\ air # "dead" /\ ~Accepts
        /\ FeedQueueFull(Candidate)
        /\ UNCHANGED <<delivered, faults, lostReplies>>

\* on_paced_tick, every FEED_AHEAD_TICK_DIVISOR-th call.  Only a participant of
\* the PaceController is called, and nothing in the program adds a producer to it.
Tick ==
  /\ paced /\ LockFree
  /\ IF backoff > 0
     THEN backoff' = backoff - 1 /\ UNCHANGED loop
     ELSE /\ feedState = "RUNNING"
          /\ loop' = FeedAhead(feedState, credits)
          /\ UNCHANGED backoff
  /\ UNCHANGED <<phase, feedState, sessionEnded, credits, pending, cursor, inFlight,
                 completed, startedSeen, errors, horizon, paceVars, sessionVars, airVars,
                 events, heard, faultVars>>

-----------------------------------------------------------------------------
(* The event thread.  It takes the producer's lock for every callback.     *)

\* The first block event moves the controller from SEEDED to RUNNING.
StaysSeeded == feedState                                       \* mutated form
NextState   == IF feedState = "SEEDED" THEN "RUNNING" ELSE feedState

\* One slot came free; the ledger is capped at the queue's depth.
Credited == Min2(credits + 1, QueueDepth)

\* A completion is a credit only while no BlockStarted was seen.
AlwaysCredited   == Credited                                   \* mutated form
CompletionCredit == IF startedSeen THEN credits ELSE Credited

\* _on_block_started: the credit is not tied to the block's identity.
OnBlockStarted ==
  /\ reader = "reading" /\ LockFree
  /\ events # <<>> /\ Head(events).type = "started"
  /\ events' = Tail(events) /\ heard' = Key(Head(events))
  /\ startedSeen' = TRUE
  /\ credits' = Credited
  /\ feedState' = NextState
  /\ loop' = FeedAhead(NextState, credits')
  /\ UNCHANGED <<phase, sessionEnded, pending, cursor, inFlight, completed, errors,
                 backoff, horizon, paceVars, sessionVars, airVars, faultVars>>

\* _on_block_complete: duplicates and blocks that are not in flight are
\* dropped.
OnBlockComplete ==
  /\ reader = "reading" /\ LockFree
  /\ events # <<>> /\ Head(events).type = "completed"
  /\ events' = Tail(events) /\ heard' = Key(Head(events))
  /\ LET b == Head(events).block IN
     IF b \in completed \/ b \notin inFlight
     THEN UNCHANGED <<completed, inFlight, feedState, credits, errors, backoff, loop>>
     ELSE /\ completed' = completed \cup {b}
          /\ inFlight' = inFlight \ {b}
          /\ feedState' = NextState
          /\ credits' = CompletionCredit
          /\ errors' = 0 /\ backoff' = 0
          /\ loop' = FeedAhead(NextState, credits')
  /\ UNCHANGED <<phase, sessionEnded, pending, cursor, startedSeen, horizon, paceVars,
                 sessionVars, airVars, faultVars>>

\* The event thread reads SessionEnded: the session is marked at once, under
\* the session's own lock; the producer's callback needs the producer's lock.
ReadSessionEnded ==
  /\ reader = "reading"
  /\ events # <<>> /\ Head(events).type = "ended"
  /\ events' = Tail(events)
  /\ sessRunning' = FALSE /\ sessEnded' = TRUE /\ reader' = "ending"
  /\ UNCHANGED <<phase, producerVars, horizon, paceVars, airVars, heard, faultVars>>

\* _on_session_end: unlike the other callbacks it does not test _started, so
\* it also runs on a producer that was stopped while it waited for the lock.
OnSessionEnd ==
  /\ reader = "ending" /\ loop = 0 /\ phase \in {"up", "stopped"}
  /\ reader' = "gone"
  /\ sessionEnded' = TRUE /\ feedState' = "DRAINING"
  /\ UNCHANGED <<phase, credits, pending, cursor, inFlight, completed, startedSeen,
                 errors, backoff, loop, horizon, paceVars, sessRunning, sessEnded, airVars,
                 events, heard, faultVars>>

\* AIR's process is gone and what it had written is read: the stream breaks
\* with an RpcError, which the event loop logs before it returns.
StreamBreaks ==
  /\ reader = "reading" /\ air = "dead" /\ events = <<>>
  /\ reader' = "gone"
  /\ UNCHANGED <<phase, producerVars, horizon, paceVars, sessRunning, sessEnded, airVars,
                 events, heard, faultVars>>

\* stop().  PlayoutSession.stop() ends the session and terminates AIR only if
\* the session is still marked running; _cleanup() resets the producer.
Stop ==
  /\ LockFree
  /\ phase' = "stopped"
  /\ sessRunning' = FALSE
  /\ IF sessRunning THEN air' = "off" ELSE UNCHANGED air
  /\ reader' = IF reader = "ending" THEN "ending" ELSE "gone"
  /\ events' = <<>> /\ subscribed' = FALSE
  /\ feedState' = "CREATED" /\ sessionEnded' = FALSE
  /\ credits' = 0 /\ pending' = 0 /\ cursor' = 0 /\ completed' = {}
  /\ startedSeen' = FALSE /\ errors' = 0 /\ backoff' = 0
  /\ UNCHANGED <<inFlight, loop, horizon, paceVars, sessEnded, delivered, popped, prep,
                 live, plays, heard, faultVars>>

-----------------------------------------------------------------------------
(* AIR.                                                                    *)

AirUnchanged == UNCHANGED <<phase, producerVars, horizon, paceVars, sessionVars, heard>>

\* Write an event to the subscriber; without one it is dropped.
Emit(evs) ==
  IF subscribed
  THEN events' = events \o evs /\ UNCHANGED missed
  ELSE /\ missed + Len(evs) <= MaxMissed
       /\ missed' = missed + Len(evs)
       /\ UNCHANGED events

Started(k)   == [type |-> "started", block |-> delivered[k], play |-> plays + 1]
Completed    == [type |-> "completed", block |-> delivered[live], play |-> plays]

\* The front of the queue goes to the preroll machinery.
AirPop ==
  /\ air = "running" /\ AirQueueLen > 0
  /\ popped' = popped + 1 /\ prep' = prep \cup {popped + 1}
  /\ AirUnchanged
  /\ UNCHANGED <<air, delivered, live, plays, subscribed, events, faultVars>>

\* The preroll machinery drops a popped block (see BlockPreroll).
AirLose ==
  /\ air = "running" /\ airLosses < MaxAirLoss
  /\ \E k \in prep : prep' = prep \ {k}
  /\ airLosses' = airLosses + 1
  /\ AirUnchanged
  /\ UNCHANGED <<air, delivered, popped, live, plays, subscribed, events,
                 missed, faults, lostReplies, repeats>>

\* A block whose file did not open at preroll is prerolled again while the first
\* attempt goes on air as pad: the second one is a copy that may air after it.
AirRepeat ==
  /\ air = "running" /\ repeats < MaxRepeats
  /\ live # 0 /\ live \notin prep
  /\ prep' = prep \cup {live} /\ repeats' = repeats + 1
  /\ AirUnchanged
  /\ UNCHANGED <<air, delivered, popped, live, plays, subscribed, events,
                 missed, faults, lostReplies, airLosses>>

\* Nothing on air (session start, or PADDED_GAP): a block goes on air.
AirStart ==
  /\ air = "running" /\ live = 0
  /\ \E k \in prep :
       /\ live' = k /\ prep' = prep \ {k} /\ plays' = plays + 1
       /\ Emit(<<Started(k)>>)
  /\ AirUnchanged
  /\ UNCHANGED <<air, delivered, popped, subscribed, faults, lostReplies, airLosses,
                 repeats>>

\* The fence of the block on air with a next block ready: both events leave
\* in one tick, completion first.
AirFence ==
  /\ air = "running" /\ live # 0
  /\ \E k \in prep :
       /\ live' = k /\ prep' = prep \ {k} /\ plays' = plays + 1
       /\ Emit(<<Completed, Started(k)>>)
  /\ AirUnchanged
  /\ UNCHANGED <<air, delivered, popped, subscribed, faults, lostReplies, airLosses,
                 repeats>>

\* The fence with no block ready and an empty queue: PADDED_GAP.
AirGap ==
  /\ air = "running" /\ live # 0 /\ AirQueueLen = 0
  /\ live' = 0
  /\ Emit(<<Completed>>)
  /\ AirUnchanged
  /\ UNCHANGED <<air, delivered, popped, prep, plays, subscribed, faults,
                 lostReplies, airLosses, repeats>>

\* The engine thread ends by itself (underflow, output lost): SessionEnded is
\* written and the subscribers are cleared; the session object stays active.
AirEnd ==
  /\ air = "running" /\ "ended" \in AirFailures
  /\ air' = "ended" /\ subscribed' = FALSE
  /\ Emit(<<[type |-> "ended", block |-> 0, play |-> plays]>>)
  /\ AirUnchanged
  /\ UNCHANGED <<delivered, popped, prep, live, plays, faults, lostReplies, airLosses,
                 repeats>>

\* AIR's process dies; of what it wrote only a prefix arrives.
AirCrash ==
  /\ air = "running" /\ "dead" \in AirFailures
  /\ air' = "dead"
  /\ \E n \in 0..Len(events) : events' = SubSeq(events, 1, n)
  /\ AirUnchanged
  /\ UNCHANGED <<delivered, popped, prep, live, plays, subscribed, faultVars>>

\* The schedule service plans further ahead: whoever asks it for a block near
\* the end of what is planned extends the plan.
ExtendHorizon ==
  /\ horizon < MaxBlock
  /\ horizon' = horizon + 1
  /\ UNCHANGED <<phase, producerVars, paceVars, sessionVars, airVars, events, heard, faultVars>>

\* A producer object is used once: ChannelManager builds a new one per start.
Finished == phase \in {"stopped", "failed"} /\ UNCHANGED vars

FeedLoop    == FeedNoPlan \/ FeedStep
EventThread == OnBlockStarted \/ OnBlockComplete \/ ReadSessionEnded \/ OnSessionEnd
Core        == SeedSession \/ StartFails \/ FinishStart \/ Subscribe \/ FeedLoop
               \/ Tick \/ EventThread \/ StreamBreaks \/ Stop \/ ExtendHorizon
AirEngine   == AirPop \/ AirStart \/ AirFence \/ AirGap
Air         == AirEngine \/ AirLose \/ AirRepeat \/ AirEnd \/ AirCrash

Next == Core \/ Air \/ Finished

\* The starting thread, the pacing thread if it drives the producer, the readers
\* of the schedule, AIR's engine and the event thread keep running.  The event
\* thread competes with the tick for the producer's lock, which is free most of
\* the time: strong fairness.  Nobody has to stop a channel and AIR need not fail.
Fairness ==
  /\ WF_vars(SeedSession) /\ WF_vars(FinishStart) /\ WF_vars(Subscribe)
  /\ WF_vars(FeedLoop) /\ WF_vars(Tick) /\ WF_vars(ExtendHorizon)
  /\ SF_vars(EventThread) /\ WF_vars(StreamBreaks)
  /\ WF_vars(AirPop) /\ WF_vars(AirStart \/ AirFence \/ AirGap)

Spec     == Init /\ [][Next]_vars
FairSpec == Spec /\ Fairness
-----------------------------------------------------------------------------
(* Properties.                                                             *)

ProducerType ==
  /\ phase \in {"new", "seeded", "up", "stopped", "failed"}
  /\ feedState \in {"CREATED", "SEEDED", "RUNNING", "DRAINING"}
  /\ credits \in 0..QueueDepth /\ loop \in 0..QueueDepth
  /\ pending \in Nat /\ cursor \in Nat /\ horizon \in Nat
  /\ inFlight \subseteq Nat /\ completed \subseteq Nat
  /\ errors \in Nat /\ backoff \in 0..BackoffMax

SessionType ==
  /\ reader \in {"none", "subscribing", "reading", "ending", "gone"}
  /\ events \in Seq(Event) /\ heard \in Nat

AirType ==
  /\ air \in {"off", "running", "ended", "dead"}
  /\ delivered \in Seq(Nat) /\ popped \in 0..Len(delivered)
  /\ prep \subseteq 1..popped /\ live \in 0..popped
  /\ plays \in Nat

FlagType ==
  /\ sessionEnded \in BOOLEAN /\ startedSeen \in BOOLEAN /\ subscribed \in BOOLEAN
  /\ sessRunning \in BOOLEAN /\ sessEnded \in BOOLEAN
  /\ paced \in BOOLEAN /\ stalled \in BOOLEAN

FaultType ==
  /\ missed \in Nat /\ faults \in Nat /\ lostReplies \in Nat
  /\ airLosses \in Nat /\ repeats \in Nat

\* The ledger stays within 0..QueueDepth, the handlers' loops within it, the
\* back-off within its maximum, and what AIR has popped within what it was sent.
TypeOK == ProducerType /\ SessionType /\ AirType /\ FlagType /\ FaultType

\* Core's ledger never promises a slot AIR's queue does not have, however the
\* feeds, the early pops of AIR's preroll and the credits interleave, and
\* whether a block is credited by BlockStarted or by BlockCompleted.  Only a
\* feed whose reply was lost can hide a slot from the ledger, and only a block
\* that AIR airs twice is credited twice.
CreditsFitQueue ==
  phase = "up" => credits + AirQueueLen <= QueueDepth + lostReplies + repeats

\* INV-FEED-QUEUE-001/002/004: whatever mixture of QUEUE_FULL, errors and lost
\* replies a feed meets, no block is skipped in what reaches AIR's queue.
DeliveredGapFree ==
  \A k \in 1..(Len(delivered) - 1) : delivered[k + 1] - delivered[k] \in {0, 1}

\* INV-WALLCLOCK-FENCE-002 must not discard the completion of a block AIR has:
\* every block that is queued, prerolled, on air or completed but unread is in
\* flight, already completed once, or waits in the retry slot.
AirHolds ==
  {delivered[k] : k \in (popped + 1)..Len(delivered) \cup prep \cup ({live} \ {0})}
  \cup {events[k].block : k \in {i \in DOMAIN events : events[i].type = "completed"}}
CompletionsRecognised ==
  phase = "up" /\ ~sessionEnded => AirHolds \subseteq inFlight \cup completed \cup {pending}

\* Core cannot run dry with AIR waiting for it: when the ledger is empty or the
\* controller is still SEEDED, an event that changes that is on its way or
\* belongs to a block AIR still has.  Not so when all four events of the two seeded
\* blocks are over before Core has subscribed: _feed_ahead then waits forever.
CreditOnItsWay ==
  \/ AirQueueLen > 0 \/ prep # {}
  \/ \E k \in DOMAIN events : events[k].type = "started"
  \/ /\ ~startedSeen
     /\ live # 0 \/ \E k \in DOMAIN events : events[k].type = "completed"
NoCreditStarvation ==
  (/\ phase = "up" /\ loop = 0 /\ ~sessionEnded /\ air = "running" /\ airLosses = 0 /\ missed < 4
   /\ credits = 0 \/ feedState = "SEEDED") => CreditOnItsWay

\* Core and AIR together implement BlockDelivery: whatever mixture of QUEUE_FULL,
\* errors, lost replies and repeats a session meets, the plan reaches AIR's queue in
\* order (INV-FEED-QUEUE-001/002/004), AIR airs only what it took from it, and after
\* SessionEnded or stop() nothing moves, also not from a handler in the middle of its
\* loop (INV-FEED-NO-FEED-AFTER-END).  Before the seed the queue counts as seeded.
Unseeded    == delivered = <<>>
LastSent    == IF Unseeded THEN 2 ELSE delivered[Len(delivered)]
Waiting     == IF Unseeded THEN <<1, 2>> ELSE SubSeq(delivered, popped + 1, Len(delivered))
At(k)       == IF k = 0 THEN 0 ELSE delivered[k]
SessionOver == sessEnded \/ sessionEnded \/ phase \in {"stopped", "failed"}
Delivery    == INSTANCE BlockDelivery WITH
                 Depth <- QueueDepth, open <- ~SessionOver, last <- LastSent,
                 queue <- Waiting, taken <- At(popped), onAir <- At(live)
ImplementsDelivery == Delivery!Spec

\* Every planned block goes on air, unless the channel is stopped or AIR fails.
\* A producer that is driven by ticks gets over errors, QUEUE_FULL, planning gaps
\* and events missed while subscribing; one that only hears AIR's events gets
\* over the missed events, as long as none of its feeds fails.
Interrupted == phase \in {"stopped", "failed"} \/ air \in {"ended", "dead"} \/ airLosses > 0
OnAir(b) == live # 0 /\ delivered[live] = b
EveryBlockAirs ==
  \A b \in 1..MaxBlock : <>(OnAir(b) \/ Interrupted \/ (~paced /\ stalled))

\* INV-CHANNEL-LIVENESS-RECOVERY-001: "BlockPlanProducer signals failure": when
\* AIR's process dies under a started producer, the producer is told.
CrashSignalled == (air = "dead" /\ phase = "up") ~> (sessionEnded \/ phase # "up")
=============================================================================

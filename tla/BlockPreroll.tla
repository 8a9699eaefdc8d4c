---------------------------- MODULE BlockPreroll ----------------------------
(***************************************************************************)
(* How AIR gets the next block ready and puts it on air.                   *)
(*                                                                         *)
(* Two threads of one playout session share SeamPreparer's mutex, and a    *)
(* third one fills the block queue:                                        *)
(*   - the tick thread (PipelineManager::Run): every tick it takes a       *)
(*     finished preroll into preview_, decides at the fence of the live    *)
(*     block what goes on air next, leaves a gap, and submits the front of *)
(*     the block queue for preroll;                                        *)
(*   - SeamPreparer's worker, which opens and primes one request at a time *)
(*     and leaves the result in a slot for one block;                      *)
(*   - FeedBlockPlan, which appends to the queue.                          *)
(*                                                                         *)
(* A tick takes the mutex several times, so it is split into the steps     *)
(* between which the other threads can run; pc says which one is next.     *)
(* Time is counted in block ends: block b ends, and its fence fires, when  *)
(* now reaches b.  Segments inside a block are left out.                   *)
(***************************************************************************)
EXTENDS Integers, Sequences, FiniteSets, SequencesExt

CONSTANTS
  QueueDepth,   \* BlockPlanSessionContext.queue_max_depth
  MaxBlock,     \* bound: the plan ends with this block
  PadFirst,     \* the blocks whose first segment is a pad
  MaxFailures   \* bound: failures of a block's file, to open or to decode

ASSUME PrerollAssumption ==
  /\ QueueDepth \in Nat /\ QueueDepth >= 2
  /\ MaxBlock \in Nat /\ MaxBlock >= 2
  /\ PadFirst \subseteq 1..MaxBlock /\ MaxFailures \in Nat

NoFence  == MaxBlock + 1                        \* INT64_MAX: no block owns the timeline
NoResult == [block |-> 0, dec |-> FALSE]        \* a null producer

VARIABLES
  \* FeedBlockPlan
  queue,          \* block_queue
  fed,            \* how many blocks Core has fed
  \* the tick thread
  pc, kicks,      \* the next step of the tick; TryKickoffBlockPreload calls still to make
  now,            \* how many block ends the session's clock has passed
  live,           \* live_'s block, 0 while live_ is empty (PADDED_GAP)
  fence,          \* block_fence_frame_, as the block that ends there
  preview,        \* preview_: a block and whether its decoder opened
  fill,           \* preview_video_buffer_: "off", its fill thread "running" and without
                  \* a frame yet, "primed", or the thread "gone" without a frame
  degraded,       \* degraded_take_active_
  lastSubmitted,  \* last_submitted_block_
  lastValid,      \* last_submitted_block_valid_
  expectContent,  \* expected_preroll_first_seg_content_
  retried,        \* retry_attempted_block_id_, 0 when empty
  \* SeamPreparer
  requests,       \* queue_, sorted by seam frame
  worker,         \* the block in ProcessRequest, 0 when idle
  slot,           \* block_result_
  \* history
  aired,          \* the blocks that went on air, in order
  overwritten,    \* blocks whose result was in the slot when another one was stored
  overtaken,      \* a block left the queue while SeamPreparer had an earlier one
  failures

takeVars    == <<preview, fill, degraded>>
submitVars  == <<lastSubmitted, lastValid, expectContent, retried>>
seamVars    == <<requests, worker, slot>>
historyVars == <<aired, overwritten, overtaken, failures>>
vars == <<queue, fed, pc, kicks, now, live, fence, takeVars, submitVars, seamVars, historyVars>>

Init ==
  /\ queue = <<1, 2>> /\ fed = 2
  /\ pc = "start" /\ kicks = 0 /\ now = 0
  /\ live = 0 /\ fence = NoFence
  /\ preview = NoResult /\ fill = "off" /\ degraded = FALSE
  /\ lastSubmitted = 0 /\ lastValid = FALSE /\ expectContent = FALSE /\ retried = 0
  /\ requests = <<>> /\ worker = 0 /\ slot = NoResult
  /\ aired = <<>> /\ overwritten = {} /\ overtaken = FALSE /\ failures = 0

-----------------------------------------------------------------------------
(* SeamPreparer.                                                           *)

\* Submit: std::lower_bound puts a request before those with the same seam.
Submit(b, seam) ==
  LET earlier == {k \in DOMAIN requests : requests[k].seam < seam}
  IN  requests' = InsertAt(requests, Cardinality(earlier) + 1, [block |-> b, seam |-> seam])

WorkerTake ==
  /\ worker = 0 /\ requests # <<>>
  /\ worker' = Head(requests).block
  /\ requests' = Tail(requests)
  /\ UNCHANGED <<queue, fed, pc, kicks, now, live, fence, takeVars, submitVars, slot,
                 historyVars>>

\* ProcessRequest stores its result whether or not the slot is empty.
WorkerDone ==
  /\ worker # 0
  /\ worker' = 0
  /\ \E dec \in BOOLEAN :
       /\ dec => worker \notin PadFirst
       /\ IF worker \in PadFirst \/ dec THEN UNCHANGED failures
          ELSE failures < MaxFailures /\ failures' = failures + 1
       /\ slot' = [block |-> worker, dec |-> dec]
  /\ overwritten' = overwritten \cup ({slot.block} \ {0})
  /\ UNCHANGED <<queue, fed, pc, kicks, now, live, fence, takeVars, submitVars, requests,
                 aired, overtaken>>

\* What SeamPreparer has of earlier blocks when another one leaves the queue.
Preparing == requests # <<>> \/ worker # 0 \/ slot # NoResult

-----------------------------------------------------------------------------
(* TryTakePreviewProducer: empties the slot; a content block without a     *)
(* decoder is kept, and submitted again if its fence is two seconds away   *)
(* and it is the block last submitted, not submitted twice already.        *)

RetryAlways(b) == TRUE                                         \* mutated form
MayRetry(b)    == lastValid /\ lastSubmitted = b /\ retried # b

TakeResult(headroom) ==
  /\ slot' = NoResult /\ lastValid' = FALSE
  /\ IF slot.block \notin PadFirst /\ ~slot.dec
     THEN IF headroom /\ MayRetry(slot.block)
          THEN retried' = slot.block /\ Submit(slot.block, fence)
          ELSE UNCHANGED <<retried, requests>>
     ELSE retried' = 0 /\ UNCHANGED requests
  /\ UNCHANGED <<lastSubmitted, expectContent, worker>>

-----------------------------------------------------------------------------
(* The tick.                                                               *)

\* Before the loop: the first block is loaded and the second one submitted,
\* with no fence yet; then the first block's fence is set.
Start ==
  /\ pc = "start"
  /\ live' = Head(queue) /\ fence' = Head(queue) /\ aired' = Append(aired, Head(queue))
  /\ LET b == queue[2] IN
       /\ lastSubmitted' = b /\ lastValid' = TRUE /\ expectContent' = (b \notin PadFirst)
       /\ Submit(b, NoFence)
  /\ queue' = SubSeq(queue, 3, Len(queue))
  /\ pc' = "pretake"
  /\ UNCHANGED <<fed, kicks, now, takeVars, retried, worker, slot, overwritten, overtaken,
                 failures>>

\* PRE-TAKE: a finished preroll becomes preview_, if there is none.
TakesAnyway   == slot # NoResult                               \* mutated form
PreviewWanted == preview = NoResult /\ slot # NoResult

PreTake ==
  /\ pc = "pretake" /\ pc' = "take"
  /\ IF PreviewWanted
     THEN /\ \E headroom \in BOOLEAN : (headroom => now < fence /\ fence # NoFence)
                                       /\ TakeResult(headroom)
          /\ preview' = slot /\ fill' = IF slot.dec THEN "running" ELSE "off"
     ELSE UNCHANGED <<preview, fill, submitVars, seamVars>>
  /\ UNCHANGED <<queue, fed, kicks, now, live, fence, degraded, historyVars>>

\* The fill thread of preview_'s buffer delivers a frame ...
FillPrimes ==
  /\ fill = "running" /\ fill' = "primed"
  /\ UNCHANGED <<queue, fed, pc, kicks, now, live, fence, preview, degraded, submitVars,
                 seamVars, historyVars>>

\* ... or gives up for good when the first one cannot be decoded: at the end of
\* the file the producer drops its decoder, after any other error it keeps it.
FillFails ==
  /\ fill = "running" /\ fill' = "gone"
  /\ failures < MaxFailures /\ failures' = failures + 1
  /\ \E dec \in BOOLEAN : preview' = [preview EXCEPT !.dec = dec]
  /\ UNCHANGED <<queue, fed, pc, kicks, now, live, fence, degraded, submitVars, seamVars,
                 aired, overwritten, overtaken>>

FenceDue == fence # NoFence /\ fence <= now

\* Block b goes on air: completion of the old one and start of the new one are
\* reported, and TryKickoffBlockPreload is called here and again this tick.
GoLive(b) ==
  /\ live' = b /\ fence' = b /\ aired' = Append(aired, b)
  /\ pc' = "kick" /\ kicks' = 2

\* DEGRADED_TAKE_MODE waits for the frames of the block that is late, but not
\* for a block that can have none.
WaitsForAny   == degraded /\ fill # "primed"                    \* mutated form
WaitsForPrime == degraded /\ preview.dec /\ fill # "primed"

\* At the fence with no preview_: hold if a content block is being prerolled.
HoldsStale == degraded \/ expectContent                        \* mutated form
Holds      == degraded \/ (expectContent /\ lastValid)

\* At the fence the block in preview_ is next.
SlotFirst    == preview # NoResult /\ slot = NoResult          \* mutated form
PreviewFirst == preview # NoResult

NoTake ==
  /\ pc = "take"
  /\ ~FenceDue \/ (PreviewFirst /\ WaitsForPrime)
  /\ pc' = "load"
  /\ UNCHANGED <<queue, fed, kicks, now, live, fence, takeVars, submitVars, seamVars,
                 historyVars>>

TakePreview ==
  /\ pc = "take" /\ FenceDue
  /\ PreviewFirst /\ ~WaitsForPrime
  /\ GoLive(preview.block)
  /\ preview' = NoResult /\ fill' = "off" /\ degraded' = FALSE
  /\ UNCHANGED <<queue, fed, now, submitVars, seamVars, overwritten, overtaken, failures>>

TakeMissed ==
  /\ pc = "take" /\ FenceDue /\ ~PreviewFirst
  /\ degraded' = Holds
  /\ pc' = IF Holds THEN "load" ELSE "fence"
  /\ UNCHANGED <<queue, fed, kicks, now, live, fence, preview, fill, submitVars, seamVars,
                 historyVars>>

\* The fence without preview_: a result that came since, ...
FenceTakesSlot ==
  /\ pc = "fence"
  /\ IF slot # NoResult
     THEN TakeResult(FALSE) /\ GoLive(slot.block)
     ELSE pc' = "sync" /\ UNCHANGED <<kicks, live, fence, aired, submitVars, seamVars>>
  /\ UNCHANGED <<queue, fed, now, takeVars, overwritten, overtaken, failures>>

\* ... or the queue, loaded synchronously (INV-FENCE-FALLBACK-SYNC-001), ...
PopQueue ==
  /\ queue # <<>>
  /\ queue' = Tail(queue)
  /\ overtaken' = (overtaken \/ Preparing)

FenceTakesQueue ==
  /\ pc = "sync"
  /\ PopQueue /\ GoLive(Head(queue))
  /\ UNCHANGED <<fed, now, takeVars, submitVars, seamVars, overwritten, failures>>

\* ... or nothing: PADDED_GAP, with no block on the timeline.
EmptyLive == live' = 0 /\ fence' = NoFence

EnterGap ==
  /\ pc = "sync" /\ queue = <<>>
  /\ EmptyLive /\ pc' = "load"
  /\ UNCHANGED <<queue, fed, kicks, now, takeVars, submitVars, seamVars, historyVars>>

\* After the take, TryLoadLiveProducer, if the timeline is free: preview_, the
\* slot, then the queue.
Load ==
  /\ pc = "load"
  /\ IF ~(live = 0 /\ fence = NoFence)
     THEN /\ pc' = "kick" /\ kicks' = 1
          /\ UNCHANGED <<live, fence, preview, fill, aired, submitVars, seamVars>>
     ELSE IF preview # NoResult
     THEN /\ GoLive(preview.block) /\ preview' = NoResult /\ fill' = "off"
          /\ UNCHANGED <<submitVars, seamVars>>
     ELSE IF slot # NoResult
     THEN TakeResult(FALSE) /\ GoLive(slot.block) /\ UNCHANGED <<preview, fill>>
     ELSE /\ pc' = "loadQueue"
          /\ UNCHANGED <<kicks, live, fence, preview, fill, aired, submitVars, seamVars>>
  /\ UNCHANGED <<queue, fed, now, degraded, overwritten, overtaken, failures>>

LoadQueue ==
  /\ pc = "loadQueue"
  /\ \/ PopQueue /\ GoLive(Head(queue))
     \/ /\ queue = <<>> /\ pc' = "kick" /\ kicks' = 1
        /\ UNCHANGED <<queue, live, fence, aired, overtaken>>
  /\ UNCHANGED <<fed, now, takeVars, submitVars, seamVars, overwritten, failures>>

\* TryKickoffBlockPreload looks at the slot under SeamPreparer's mutex, ...
EndOfKick == IF kicks = 2 THEN pc' = "kick" /\ kicks' = 1 ELSE pc' = "pretake" /\ kicks' = 0

Kick ==
  /\ pc = "kick"
  /\ IF live = 0 \/ slot # NoResult THEN EndOfKick ELSE pc' = "submit" /\ UNCHANGED kicks
  /\ UNCHANGED <<queue, fed, now, live, fence, takeVars, submitVars, seamVars, historyVars>>

\* ... and then takes the front of the queue and submits it.
KickSubmits ==
  /\ pc = "submit"
  /\ EndOfKick
  /\ IF queue = <<>>
     THEN UNCHANGED <<queue, overtaken, submitVars, requests>>
     ELSE LET b == Head(queue) IN
          /\ PopQueue
          /\ lastSubmitted' = b /\ lastValid' = TRUE /\ expectContent' = (b \notin PadFirst)
          /\ retried' = IF retried = b THEN retried ELSE 0
          /\ Submit(b, fence)
  /\ UNCHANGED <<fed, now, live, fence, takeVars, worker, slot, aired, overwritten, failures>>

\* The next tick is a block end later.
Advance ==
  /\ pc = "pretake" /\ now < MaxBlock
  /\ now' = now + 1
  /\ UNCHANGED <<queue, fed, pc, kicks, live, fence, takeVars, submitVars, seamVars, historyVars>>

\* FeedBlockPlan.  Core sends QueueDepth blocks and one more for every
\* BlockStarted it hears (see BlockFeed).
Feed ==
  /\ fed < MaxBlock /\ fed < QueueDepth + Len(aired) /\ Len(queue) < QueueDepth
  /\ fed' = fed + 1 /\ queue' = Append(queue, fed + 1)
  /\ UNCHANGED <<pc, kicks, now, live, fence, takeVars, submitVars, seamVars, historyVars>>

Tick   == \/ Start \/ PreTake \/ NoTake \/ TakePreview \/ TakeMissed \/ FenceTakesSlot
          \/ FenceTakesQueue \/ EnterGap \/ Load \/ LoadQueue \/ Kick \/ KickSubmits
Worker == WorkerTake \/ WorkerDone
Next   == Tick \/ Worker \/ FillPrimes \/ FillFails \/ Advance \/ Feed

\* Every thread keeps running, and the clock advances again and again at the
\* start of a tick.
Fairness ==
  WF_vars(Tick) /\ WF_vars(Worker) /\ WF_vars(FillPrimes \/ FillFails) /\ SF_vars(Advance) /\ WF_vars(Feed)

Spec     == Init /\ [][Next]_vars
FairSpec == Spec /\ Fairness
-----------------------------------------------------------------------------
(* Properties.                                                             *)

Blocks  == 1..MaxBlock
Results == [block : Blocks, dec : BOOLEAN] \cup {NoResult}

\* INV-BLOCK-WALLFENCE-003 is part of it: there is a fence exactly while a
\* block owns the timeline, so a gap can be left and a block cannot be cut off.
TypeOK ==
  /\ queue \in Seq(Blocks) /\ Len(queue) <= QueueDepth /\ fed \in Blocks
  /\ pc \in {"start", "pretake", "take", "fence", "sync", "load", "loadQueue", "kick", "submit"}
  /\ kicks \in 0..2 /\ now \in 0..MaxBlock
  /\ live \in Blocks \cup {0} /\ fence = IF live = 0 THEN NoFence ELSE live
  /\ preview \in Results /\ fill \in {"off", "running", "primed", "gone"} /\ degraded \in BOOLEAN
  /\ lastSubmitted \in 0..MaxBlock /\ retried \in 0..MaxBlock
  /\ lastValid \in BOOLEAN /\ expectContent \in BOOLEAN
  /\ requests \in Seq([block : Blocks, seam : 1..NoFence])
  /\ worker \in 0..MaxBlock /\ slot \in Results
  /\ aired \in Seq(Blocks) /\ overwritten \subseteq Blocks
  /\ overtaken \in BOOLEAN /\ failures \in 0..MaxFailures

\* However the tick, the worker and the feeder interleave, a block that was fed
\* is queued, being prerolled, ready, or was on air; the only way to lose one is
\* that the worker stores a result over it.
NoSilentLoss ==
  1..fed \subseteq Range(queue) \cup {requests[k].block : k \in DOMAIN requests}
                   \cup {worker, slot.block, preview.block} \cup Range(aired) \cup overwritten

\* Blocks go on air in the order they were fed, none skipped, as long as no
\* block leaves the queue while SeamPreparer still has an earlier one: the
\* fences, the gap and the retry never reorder by themselves.
InOrderUnlessOvertaken ==
  ~overtaken => \A k \in 1..(Len(aired) - 1) : aired[k + 1] - aired[k] \in {0, 1}

\* A block whose file does not open is prerolled again once: it airs at most
\* twice, whatever the next attempt does.
AirsAtMostTwice ==
  \A b \in Blocks : Cardinality({k \in DOMAIN aired : aired[k] = b}) <= 2

\* DEGRADED_TAKE_MODE never holds the last frame for a block that nobody is
\* preparing.
DegradedHasWork == degraded => preview # NoResult \/ Preparing

\* Every block that was fed goes on air, unless its preroll is overwritten: the
\* hold at the fence ends and so does a gap, except for a hold for a block whose
\* fill thread gave up and whose decoder is still there.
StuckHold == WaitsForPrime /\ fill = "gone"
FedBlocksSettle ==
  \A b \in Blocks : b <= fed ~> (b \in Range(aired) \/ b \in overwritten \/ StuckHold)
=============================================================================

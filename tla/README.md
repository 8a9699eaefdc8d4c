# RetroVue: a TLA+ verification of the playout path

RetroVue runs linear television channels. *Core* (Python, `src/pkg/core`)
compiles the schedule, fills its breaks, admits viewers and decides when a
channel is on air; *AIR* (C++, `src/pkg/air`) is one playout process per channel
on air that decodes blocks of programme and emits MPEG-TS. Core feeds AIR blocks
by gRPC, reads its event stream, fans its bytes out to viewers, and keeps a log of
what was aired from the evidence AIR sends. These modules model the way of a
programme from the schedule to the screen and into the as-run log, and the life of
a channel around it. Paths below are relative to `src/`. Abbreviations: CM, PD, PS,
DSL, PHD, HM, EWS, CS, ESV = `channel_manager`, `program_director`,
`playout_session`, `dsl_schedule_service`, `playlog_horizon_daemon`,
`horizon_manager`, `execution_window_store`, `channel_stream`, `evidence_server`
`.py` in `pkg/core/src/retrovue/runtime/`; PM, SP, VLB, SVC = `PipelineManager.cpp`,
`SeamPreparer.cpp`, `VideoLookaheadBuffer.cpp`, `playout_service.cpp`, and ESP, EGC =
`EvidenceSpool.cpp`, `GrpcEvidenceClient.cpp`, in `pkg/air/src`.

## Inventory

| Component | State | Operations | Talks to | What is hard, what must hold |
|---|---|---|---|---|
| BlockPlanProducer (CM 1571-2611) | credit ledger, cursor, retry slot, in-flight set, feed state, back-off | start, stop, feed-ahead loop, handlers of AIR's events, tick | PlayoutSession (calls, callbacks), PaceController, schedule service | RPCs in a loop while AIR moves on; errors, full queue, lost replies. No block skipped, ledger fits AIR's queue, no starvation |
| PlayoutSession (PS) | is_running, session_ended, event thread | start, seed, feed, stop | AIR over gRPC | the session's end is seen before the producer hears of it; broken stream |
| AIR service (SVC 691-1327) | block queue, subscribers, session object | StartBlockPlanSession, FeedBlockPlan, SubscribeBlockEvents, Stop | PipelineManager, Core | events before the subscription; the session object outlives its engine |
| PipelineManager (PM) | live_, preview_, fence, hold, retry memory; current segment, next seam, buffer of the incoming segment, last frame shown | one tick: pre-take, take, frame selection, rotate or swap of segments, gap, load, kickoff | SeamPreparer, look-ahead buffers, queue | a late or failed preroll at the fence, a late segment at a seam. Every block airs, in order; what is shown is what has authority |
| SeamPreparer (SP) | request queue, worker, result slots | Submit, TakeBlockResult, ProcessRequest, Cancel | PipelineManager | one slot, results overwritten, check then act |
| Look-ahead buffers (VLB) | frames, fill thread, generations | StartFilling, FillLoop, TryPopFrame | decoder, tick thread | a fill thread that gives up |
| ChannelManager (CM 392-1252) | viewer_sessions, viewer_count, linger, active_producer, pending teardown, recovery | join, leave, linger expiry, stop, tick, check_health, session end, recovery | PD, producer | only joins and leaves are locked. Viewers served, idle channels off air, no orphan AIR |
| ProgramDirector (PD) | registry of managers and fan-out buffers, prewarm timers | stream endpoints, stop_channel, health loop, prewarm | ChannelManager, ChannelStream | stop against join; two registries under different locks |
| ChannelStream, TsRingBuffer (CS) | ring, client queues, reader and fan-out threads | start, stop, subscribe, read, fan out | AIR's socket, viewers | restart on a closed ring, slow clients, end of stream |
| Evidence spool and client (ESP, EGC), server (ESV) | spool, sequence, ack, send queue; streams, ack store, as-run files | append, flush, ack, replay, deduplicate, log | AIR and Core over gRPC | crashes, reconnection, duplicates. Every record durable once |
| DslScheduleService (DSL) | compiled days, blocks in memory, Tier 1 rows | initial build, get_block_at, extension, on-demand fill | producer, daemon, database | only lookups extend the horizon; failing compilations and statements |
| PlaylogHorizonDaemon (PHD) | frontier, Tier 2 rows | evaluate, scan, fill, write, purge | database, traffic | races with on-demand fills on the same rows; holes |
| HorizonManager (HM), ExecutionWindowStore (EWS) | window end, entries, generations, lock | evaluate, add, publish, replace | planning pipeline, operator | locked window immutable, generations monotone, honest depth |
| Schedule compiler, expander, traffic | counters, pools | merge layers, select, place, compact; cut acts, fill breaks | catalogue, database | overlapping definitions; remainders; no gap, no loss |
| Planning pipeline, schedule manager | none between calls | derive days into blocks | catalogue | an earlier derivation of the same kind |
| As-run logger and reconciler | logs | append, compare | - | sequential |
| Clock, metrics | - | - | - | - |
| Legacy AIR engine, PlayoutControl | preview and live slots | load, switch, stop | sinks | the engine of the earlier protocol |
| Decoding, rendering, output, timing | frames, bytes | push, pop, write | FFmpeg | media data path |
| Ingest, domain, CLI, adapters, web, HLS | database, files | operator tools | - | not concurrent with playout |

`PROJECT.json` lists every component with its status, and forty hazards, each with
the line where it bites and the properties about it.

## Modules

| Module | Models | Checked in | Theorems in |
|---|---|---|---|
| `BlockDelivery` | abstract: what the feeding of blocks promises | as a property of `BlockFeed` | `BlockFeedProofs` |
| `BlockFeed` | producer, session, event stream, AIR's queue | `MCBlockFeed` | `BlockFeedProofs` |
| `BlockPreroll` | inside AIR: queue, SeamPreparer, the tick | `MCBlockPreroll` | `BlockPrerollProofs` |
| `ChannelLifecycle` | viewers, linger, teardown, recovery, AIR processes | `MCChannelLifecycle` | `ChannelLifecycleProofs` |
| `ChannelFanout` | ChannelStream, registry, teardown, viewers' queues | `MCChannelFanout` | `ChannelFanoutProofs` |
| `EvidencePipeline` | records from the tick thread to the as-run log | `MCEvidencePipeline` | `EvidenceProofs` |
| `PlaylogHorizon` | both tiers of the horizon of a DSL channel | `MCPlaylogHorizon` | `ScheduleProofs` |
| `ExecutionHorizon` | the execution window of a `phase3` channel | `MCExecutionHorizon` | `ExecutionHorizonProofs` |
| `SegmentSeams` | inside AIR: the segments of a block, tick by tick | `MCSegmentSeams` | `SegmentSeamsProofs` |
| `BlockSegments` | operators: acts, breaks, pads, joining in progress, AIR's check | through `ProgramFeed` | `ScheduleProofs` |
| `ScheduleCompiler` | the compilation of the days of a DSL | through `ProgramFeed` | `ScheduleProofs` |
| `AssetLengths` | operators the two share: lengths, running totals, ascending order | through `ProgramFeed` | `ScheduleProofs` |
| `ProgramFeed` | compiled days, tuning in, filling, seeding, feeding | `MCProgramFeed` | `ScheduleProofs` |

How they fit together: `ProgramFeed` (which extends `ScheduleCompiler` and
`BlockSegments`) says *what* a block is, `BlockFeed` how a sequence of
blocks reaches AIR, `BlockPreroll` how AIR puts them on air. `BlockFeed` sees AIR
as a queue whose blocks are popped, prepared, put on air or lost; `BlockPreroll`
shows how a block is lost (`AirLose`) or repeated (`AirRepeat`); `SegmentSeams` takes
from it that the next block is ready or not, and shows what a viewer sees of a block
from tick to tick. `ChannelLifecycle`
sees a producer as new, starting, up or stopped; `ChannelFanout` sees of the
manager only which run is up and who is tuned in. `PlaylogHorizon` and
`ExecutionHorizon` decide whether there is a block at a time at all.
`EvidencePipeline` starts at AIR's tick thread and ends in Core's files.

**BlockFeed.** Blocks are numbered by place in the plan: a block ends where the next
one starts, so `_next_block_start_ms` is a block number. A handler of the producer
holds its lock; the feeds it makes are a counter `loop`, one step per RPC, so AIR
and the reading of SessionEnded run in between (`LockFree` keeps other handlers
out). `FeedStep` has the four outcomes of an RPC: refused or failed before AIR saw
it, accepted, accepted with the reply lost, queue full. `Tick`, `OnBlockStarted`,
`OnBlockComplete`, `OnSessionEnd`, `Stop` are the handlers of CM; `ReadSessionEnded`
and `StreamBreaks` are what the event thread does by itself (PS 430-465). `AirPop` ...
`AirCrash` are AIR. `paced` says whether a PaceController drives this producer. The
history variables are `delivered`, `plays`/`heard` (which activation an event
belongs to; Core never sees it) and `stalled`. `Delivery` is the refinement mapping:
what was delivered and not popped is `BlockDelivery`'s queue, and a session is open
until either side has said that it is over.

**BlockPreroll.** A tick takes SeamPreparer's mutex several times, so it is cut where
another thread can run in between, and `pc` names the next piece: `pretake` (PM
1338), `take` (1467, 1805-1878, 2177), `fence` and `sync` (2267-2338), `load` and
`loadQueue` (446-477, 3501-3610), `kick` and `submit` (483-562). Time is counted in
block ends: `fence <= now` is "the fence fired". A result says whether a decoder
opened (`dec`); `fill` is what the fill thread of the preview's buffer has done.
Segments within a block and the choice of frames do not decide which block is next;
they are `SegmentSeams`.

**SegmentSeams.** One tick of PM's `Run`, cut where a fill thread or the worker can run
in between: `Sample` (PM 1467-1600: what is due, where the frame is to come from), one
`Show...` action per branch of the cascade (1680-1937, with the origin of 1998-2043),
`MakeB` (2616), `Defer` or `Swap` (2621-2857, 4555-4699) at a segment seam, `Rotate`,
`EnterGap` or `Wait` at a block's (2165-2410), `LeaveGap` (3501-3574) and `EndTick`.
`a` and `b` are the buffers of the live and the incoming segment with the fill threads
`FillA` and `FillB`, `WorkerTake` and `WorkerDone` SeamPreparer's worker on segments,
and `NextBlockReady` all of `BlockPreroll`. A block
that opens with a pad has a producer that makes black frames without a decoder: its
preview has the first of them from its fill thread (`FillNext`), and with nothing in the
buffer black is shown (`HasDecoder`); a pad that is swapped in has a buffer that stays
empty. `seamIn` and `fenceIn` are `next_seam_frame_` and `block_fence_frame_` less the tick, and 0 when they are over. A
tick keeps what the code takes the frame to be (`origin`) apart from what it is
(`shown`). A duration is a number of half frames and is rounded up, as in the code, so
that segments may end later than their fence. History: `age`, `failures`.

**ChannelLifecycle.** Five threads with a `pc` each: joins and leaves (under
`_viewer_lock`), the event loop's linger, PD's health loop, the event thread of an
ended session, the recovery timer. Each is cut at every read or write of the shared
fields; a thread that has read `active_producer` keeps its reference in `mine` while
it waits for the producer's lock. `hasLoop` has both values: a manager made by a
request in the executor has no event loop (PD 1006). The code is known to go wrong
in a number of interleavings. The model runs through all of them and records the
first cause in `mishaps`, so that each invariant can name the mishaps it excludes
and hold for everything else:

| Mishap | Cause |
|---|---|
| `join refused` | a start fails; the session stays in viewer_sessions, and the next join is not a first one (PD 1848-1876) |
| `recovery failed` | `_attempt_recovery` only logs (CM 937-944) |
| `gave up` | more ends than `_RECOVERY_MAX_ATTEMPTS` (CM 892-906) |
| `stale count` | check_health overwrites viewer_count without the lock (CM 1106-1107) |
| `late teardown` | a teardown asked for is finalized against a newer producer (CM 1184-1224) |
| `stopped with viewers` | PD force-stops although a viewer has joined (PD 1202-1207) |
| `stop missed a start` | a stop finds no producer while one is being started |
| `two starts` | a join and a recovery both in `_ensure_producer_running` |
| `wrong drop` | `active_producer` overwritten while it refers to another producer |

A stop of a session that AIR had ended leaves its process (PS 626-628): its `air` is
then `left`, and no longer `up`. `NoOrphanAir` says of
these that there is no more than one per session that AIR has ended, whatever overlaps
(`LeftPerEnd`).

The health loop of the model never waits for the lock of a starting producer, which
the code's `health()` call can; this only adds behaviours.

**ChannelFanout.** A ChannelStream is a record of `fans` with the liveness of its
reader and of each fan-out thread it ever started, its ring, its flags and its
stopper. Reader: `ReaderConnects`, `ReaderReads`, `ReaderEnds`, `ReaderCrashes`
(the factory raises and nothing catches it). Fan-out: `FanGets`, `FanPuts`,
`FanEnds`. A viewer is one request: `TuneIn`, `GetFanout`, `Subscribe`, `Receive`
and the ways out, all ending in `Cleanup`. Teardown is `StopProducer`, then
`StopStream`, then the stopper's `StopBegins` and `StopEnds`. Bytes are counted in
chunks. Mishaps: `two feeders` (a subscriber starts a second fan-out thread beside
one whose reader crashed), `prewarm`, `stopped under a viewer`, `wrong stream`
(teardown takes whatever is registered by then from the registry).

**EvidencePipeline.** The tick thread (`EmitAppends`, `EmitRefused`, `EmitThrows`),
the spool's writer thread (`WriterFlushes`), the connection thread (`ClientConnects`,
`ClientReplays`, `ClientSends`, `ClientCloses`, `ClientJoins`), the ack thread
(`AckReads`), and one handler per stream in Core, cut between the two as-run files
and the ack store (`HandlerReads`, `HandlerWritesJsonl`, `HandlerStores`). What
breaks: the network (each end still gets a prefix), a write of Core, Core, AIR, and
a HELLO that is answered too late. A record is its sequence number; odd ones open a
segment and even ones close it. Histories: `refused`, `stranded` (records a replay
missed because they were neither in the file nor in the send queue any more),
`doubtful` (records that may be written again).

**PlaylogHorizon.** Time is counted in grid blocks. Readers run `get_block_at`
(`Asks`, `Compiles`, `Finds`, `LooksUp`, `FillsNow`, `Commits`): for the block on air
when they tune in (`TunesIn`), and then for the one at the session's cursor (`Feeds`),
which moves on with every block that is answered, up to `QueueDepth` blocks ahead of the
one on air, as the credits of the feed loop allow (CM 1849, 2264-2285, 2448). The answer
is given whether the row could be written or not; `unsaved` is the history of the blocks
that could not. The daemon runs one
evaluation (`Evaluates`, `ReadsFrontier`, `ScansDay`, `Prefills`, `Prewrites`,
`Purges`). A merge is a SELECT and a commit that fails when another session's commit
came between (`Clash`); a failed statement leaves the evaluation's session unusable
(`Breaks`). `Restart` keeps both tiers and loses memory.

**ExecutionHorizon.** `evaluate_once` step by step (`Starts`, `ExtendsEpg`,
`ExtendsExecution`, `ChecksNext`, `FillsNext`, `ChecksSeams`, `ExtendsAhead`) against
an operator's `Publishes`; planning steps may throw. `entries` keeps the plan's and
the operator's entry of a block apart, and `EntryAt` is what a reader finds.

**ScheduleCompiler, BlockSegments, ProgramFeed.** `ScheduleCompiler` is
`compile_schedule` for the days of a horizon: layers are merged, every definition
places blocks (`PlaceSlot`, `PlaceEpisode`, `PlaceMovie`, ...), then they are sorted,
checked and compacted. A seeded random pick is any candidate; a pool that matches
nothing (`NoEpisode`) fails the day. `BlockSegments` has
the arithmetic of acts, breaks and pads with its remainders, the trimming of a
joined block and AIR's validator. `ProgramFeed` lets a viewer tune in at any
instant, fills the two seeds, then feeds from the cursor.

## Runs

Every cfg gives the bounds small values; none replaces a definition.

| Run | Question | Result |
|---|---|---|
| `feed_safety` | ledger, cursor and in-flight set against AIR's queue under one fault of every kind, AIR ending or crashing, paced or not; the pair implements `BlockDelivery` | holds, 10.8 million states |
| `feed_live` | every planned block airs | holds, 0.83 million |
| `feed_crash` | the producer "signals failure" | violated: a dead AIR is only logged |
| `preroll` | no block lost, order, one retry, a hold has work, every block settles | holds, 0.19 million |
| `seams` | buffers hold the right segments, no swap on a frame of the segment that is left, a frame of the incoming one has its swap, a ready seam is taken, segments get their time, every block ends | holds, 0.5 million |
| `channel` | viewers served, no orphan AIR but one per ended session, idle means off | holds, 1.8 million |
| `fanout` | live edge, one registered stream, nothing backwards, streams and threads end | holds, 0.82 million |
| `evidence` | acknowledged means logged (but for stranded records), AIR behind Core, order, the end of a segment fits its start, evidence settles | holds, 1.5 million |
| `playlog` | no row behind a block nobody tried, no day skipped, the horizon catches up with the clock | holds, 0.63 million |
| `playlog_idle` | "Rolling horizon ... appends the next day automatically" | violated: an unwatched channel ends for good |
| `program` | days well formed and advancing, blocks add up, a joined block shows the right instant, tuning in starts | holds, 0.17 million |
| `execution` | the window is honest and deep, the lock stands, generations advance, depth returns | holds, 0.56 million |

What the passing properties exclude is part of what they say: `CreditsFitQueue`
allows one more per lost reply and per repeated block; `NoCreditStarvation` and
`EveryBlockAirs` allow for a block AIR lost, and the first for a subscription that comes
after all four events of the two seeded blocks (a producer that no tick drives then
waits for ever); `FedBlocksSettle` for an overwritten
block and for a hold that never ends; `AckedIsLogged` and `AsRunFaithful` for
`stranded` and `doubtful` records; `DepthKept` of the playlog for blocks that were
tried in vain, by the daemon or by a session whose write failed; the three of `channel`
for the mishaps each of them names, and `NoOrphanAir` for as many processes as AIR has ended sessions;
`NoBleedOnSwap` for a swap forced because nothing is left to show, and for the black of a
pad that opens a block: the fence makes it the last good frame and leaves the origin of
the block before, so a repeat or a hold of it may pass the gate (TLC shows it, with a
plan that has such a block, if the exception is taken out);
`EveryBlockEnds` for files that do not open or have no sound;
`OnAirAsScheduled` for seams that a block of the next day runs across.
Every module of the runs has a type invariant, `TypeOK`. Six are theorems
(`BlockFeed`, `BlockPreroll`, `ChannelLifecycle`, `PlaylogHorizon`, `ExecutionHorizon`,
`EvidencePipeline`; the last is also an invariant of its run, as it says what the cap of
the spool does); those of `ChannelFanout` and `SegmentSeams` hold on the instances of
the runs, which do not list them. Types of `ScheduleCompiler` and
`ProgramFeed` are part of their proved inductive invariants (`CompilerTyped`,
`FeedInv`, `FillInv`).

### Bounds

*feed*: queue depth 3 gives a seed of two and one credit, so the loop feeds one or
several blocks, meets a full queue and drains; four blocks are one more than the
depth, so every block after the seed goes through the credits; one fault of each
kind, in every combination and place; the back-off has two lengths. `feed_safety` lets
all four events of the seeded blocks be missed; `feed_live` one, because liveness does
not survive the loss of all four.
*preroll*: depth 2 and five blocks let the queue, the worker, the slot and preview_
hold four different blocks with one on air; block 3 opens with a pad, so content
follows pad and pad content; two failures let a first attempt and its retry fail, or
a block and its successor.
*seams*: content, a pad and content; a block that opens with a pad; a block of two
segments that fades in. So every kind of seam occurs, within a block and over a fence,
from pads with frames and without; odd numbers of half frames, so segments together are
longer than the block; two slow sources. Buffers of three
frames are the smallest in which 500 ms of sound and two frames fit together with the
one that is popped; a fence up to two ticks late; one file that does not open or has no
sound, or none. The first segment of the third block has three frames: with two, the
wrong origin of a repeated frame (see Findings) lets the gate pass a frame of the
outgoing segment, and `NoBleedOnSwap` does not hold.
*channel*: two viewers and two joins let one leave as the other comes, or a viewer
come back; one ended session and one failed start let a recovery overlap a join, a
leave and a linger. The viewers are interchangeable (symmetry; no liveness).
*fanout*: two viewers, ring and queues of one chunk so that every second chunk
drops one, two runs so that a stream of the first is there when the second starts.
*evidence*: four records are two segments; a cap of two is reached with two records
unacknowledged; one fault of any kind; two worker threads, with none or all of them
taken by other channels.
*playlog*: days of two blocks, a horizon of one day of three, one session beside the
daemon that feeds two blocks ahead, which is one beyond the depth of two blocks the
daemon is to keep, so that it can write a row behind a hole; one fault. `Lag` is 1, so
the day boundary falls on the previous UTC date, and 0 in `playlog_idle`, which has a
horizon of two days of five and needs no fault.
*execution*: days of two blocks, five instants, a locked window of none or two, a
watermark of none or three, generations up to two and one publish of one or
two blocks anywhere within the promised depth; four failures are twice what a day has
blocks, so planning may fail often enough for the fill of the block on air to jump over
a day, which `WindowHonest` excuses and fewer failures cannot bring about.
*program*: a day of four slots of six units, three days, four schedules (episodes
round the clock with a bleeding marathon; a slot list, a movie and episodes after
midnight from one pool; a marathon that may not bleed with definitions off the grid
and pools without a candidate; a slot list alone, joined on two days by definitions
whose pool matches no asset), and both channel types. Episodes
shorter and longer than a slot, chapters inside, at zero and beyond the end, and
spots that do not divide a break.

Deadlock is checked except in `fanout`, `evidence` and `seams`, where a channel that has been torn down, an AIR that has ended, or a
session that stopped on an underflow, stops for good.

### Fairness

*BlockFeed.* Weak for the thread in start(), for the feed loop (RPCs have
time-outs), for the tick if there is one, for the extension of the plan (readers
extend it in-band and keep reading), for AIR's engine thread. Strong for the event
thread: it competes with the tick for the producer's lock, which is free most of the
time. Stopping, failing and losing replies are never fair. A producer that is not
`paced` has no tick, and `EveryBlockAirs` promises it only what events alone can do:
once a feed failed or a plan was missing (`stalled`) nothing is promised.

*BlockPreroll.* Weak for the tick thread, the worker, the fill thread (it delivers a
frame or gives up) and the feeder; strong for the clock, which advances only at the
start of a tick and gets past every fence.

*SegmentSeams.* Weak for the tick thread, the worker, the incoming segment's fill
thread and the next block's preroll. The live segment's fill thread needs none: with
nothing in its buffer the session stops or shows black, and ticks go on.

*ChannelFanout.* Weak for every thread, for the loop's work for each viewer, for the
teardown and for the recovery of a producer: each is a running thread or a timer.
Nobody has to tune in or disconnect, and AIR need not connect or die.

*EvidencePipeline.* Weak for the writer, the connection thread, the ack thread and
every handler. Nothing that breaks has to, and the tick thread need not emit.

*PlaylogHorizon.* Weak for the daemon and for a thread inside a call; strong for the
clock and for somebody asking for the block on air, which is a channel that is
watched: without it nothing extends the horizon.

*ExecutionHorizon.* Weak for the manager's thread, strong for the clock. The operator
need not act.

`ChannelLifecycle` and `ProgramFeed` have none: they speak of settled states and of
single results.

## Proofs

TLAPS proves the following for every value of the constants that the modules'
assumptions allow (`FeedAssumption`, `PrerollAssumption`, `EvidenceAssumption`,
`PlaylogAssumption`, `HorizonAssumption`, `FanoutAssumption`, `SeamAssumption`,
`LifecycleAssumption`, and for the schedule `DurationAssumption`, `TimeAssumption`,
`PoolAssumption`, `DslAssumption`, `SegmentAssumption`, `FeedAssumption`: the
conditions the code puts on its parameters, evaluated by TLC in the runs).

| Module | Theorem | States |
|---|---|---|
| `BlockFeedProofs` | `TypeCorrect`, `CreditsFit`, `NoBlockSkipped`, `Implements`, `CompletionsKnown`, `NoStarvation` | types, `CreditsFitQueue`, `DeliveredGapFree`, `ImplementsDelivery`, `CompletionsRecognised`, `NoCreditStarvation` |
| `BlockPrerollProofs` | `TypeCorrect`, `NothingLost`, `AirsInOrder`, `RetriedOnce`, `HoldHasWork` | types, `NoSilentLoss`, `InOrderUnlessOvertaken`, `AirsAtMostTwice`, `DegradedHasWork` |
| `ChannelLifecycleProofs` | `TypeCorrect`, `ViewersAreServed`, `NoOrphan`, `IdleStops` | types, `ViewersServed`, `NoOrphanAir`, `IdleStopped` |
| `EvidenceProofs` | `TypeCorrect`, `AcksAreStored`, `AcksMeanLogged`, `LogIsFaithful` | `TypeOK`, `AirBehindCore`, `AckedIsLogged`, `AsRunFaithful` |
| `ScheduleProofs` | `TypeCorrect`, `NoneSkipped`, `DepthStands` | types, `NoDaySkipped`, `DepthKept` |
| | `CompilerInvariant`, `RowsAreWellFormed`, `EveryDayAdvances` | inductive invariant of the compiler, `DayWellFormed`, `DaysAdvance` |
| | `ProgramInvariant`, `SlotsAreFilled`, `ScheduleIsAired` | inductive invariant of schedule, filling and feeding, `SlotFilled`, `OnAirAsScheduled` |
| `ExecutionHorizonProofs` | `TypeCorrect`, `LockHolds`, `GenerationsGrow`, `WindowStands` | types, `LockedStands`, `GenerationsAdvance`, `WindowKept` |
| `ChannelFanoutProofs` | `StreamRegistered`, `SlowViewersStayLive`, `NeverBack` | `LiveStreamRegistered`, `LiveEdge`, `NeverBackward` |
| `SegmentSeamsProofs` | `RightSegments`, `FullTime`, `ChosenIsCommitted`, `SwapShowsNoBleed` | `RightSegment`, `FullDwell`, `ShownIsCommitted`, `NoBleedOnSwap` |

Each module opens with its inductive invariant, then has lemmas about the helpers
on sequences, one lemma per action or group of actions, and the theorems last.

*BlockFeed.* `CreditsFitQueue` is not inductive: a BlockStarted on its way will give a
credit for a slot that AIR has freed long before. `IInv` adds `LedgerInv` (what Core
has sent and may still send exceeds the depth by no more than the activations it has
*heard of*; a credit is given only for a later activation than the last one heard),
`StreamInv` (the events in the stream are sorted by activation, all after the last one
heard and none after the last one AIR emitted), `PlayInv` (activations and prepared
blocks are at most the positions popped plus the repeats, so activations heard of
stand for slots really freed), `DeliveryInv` (the last block AIR received is the one
before the cursor, or the one at it when the reply was lost), `RetryInv` (the retry
slot holds the block at the cursor) and `LockInv` (a handler in its loop has a credit
for every iteration left). Credits plus deliveries are then at most the depth, the
activations heard and the lost replies, and what was heard is at most what was popped.
For `DeliveredGapFree` the candidate of a feed is the last block delivered or the next.

*BlockFeed implements BlockDelivery.* The mapping closes the session when either side has said it is over.
`EndInv` says who can know: an `ended` event in the stream, or a session that has
ended, means that AIR no longer runs; `OrderInv` keeps what was delivered sorted, so
what AIR puts on air is something it has taken. `Simulation` then takes each action
to a step of `BlockDelivery` or a stutter. For `CompletionsKnown`, `TrackInv` says
that everything delivered, and the block of every completion in the stream, is in
flight, completed or in the retry slot.

`NoCreditStarvation` needs all of this and six invariants more, because it speaks of
what has *not* been lost: before Core has subscribed AIR has emitted one event for each
start and each end of a block, and all were missed (`SubInv`); until Core has handled
one it has fed nothing, so AIR has the two seeded blocks (`UnheardInv`) and one of them
is still to start or to end unless all four events were missed (`FirstInv`); afterwards
Core has a credit to spend whenever AIR has nothing that brings one (`HeardInv`), since
every block AIR popped is prepared or was on air (`PlayedInv`) and a producer that is up
is SEEDED or RUNNING (`StateInv`).

*BlockPreroll.* `PhaseInv` relates the piece of the tick to what exists (no preview at
the fence, nothing has moved before the first tick), `QueueInv` says that the queue
holds the last blocks fed, `OneInv` that while none has overtaken another only one
block is being prepared, and `OrderInv` that this is the one that left the queue last,
with the preview and the last block aired just before it. `HoldInv` carries the
degraded hold: the block it waits for is in preview_ or with SeamPreparer. For
`AirsAtMostTwice` airings are counted together with what may still air: a block is in one
place between the queue and its airing (`ApartInv`), and what it has aired, with one for
preview_ and one for that place, is at most two, and at most one while its retry is still
to come (`TwiceInv`). The retry alone puts a block into two places, and spends the
submission it needs.

*ChannelLifecycle.* A step of one of the five threads is first brought to what it does
to that thread's place and reference and to the producers (`EnsureEdge`, `StopEdge`,
`TearEdge`, `Elsewhere`: `StepCases`). `TypeInv` needs a ledger, `BuildInv`: what is
built, with every thread, timer and event that may yet build one, is at most the joins
and the ends. `CountInv` says that the published count is that of the sessions, but for
the viewer that is about to publish it. For `NoOrphanAir`: a producer is up exactly while
its AIR is, and one thread at most is in its start() (`ProdInv`); a teardown in time finds
the producer it was asked for tearing down, and so drops nothing (`TearInv`, `DropInv`);
without overlapping starts one starter is past the beginning (`AloneInv`) and what it has
in hand is the active producer (`HoldInv`), so no other is up (`UpInv`); a process is left,
or will be when its producer is stopped (`Astray`), only by the end of its session
(`NoneAstray`), which is counted (`LeftInv`). For `IdleStopped`: with the count at zero
and a producer left, a linger, or a stop, is under way (`PendInv`). `ViewersServed` does hold with overlapping starts, so it rests on other
facts: an active producer that is not up is in some starter's hands (`HandInv`); a starter
that looks at one that is no longer active looks at a stopped one and replaces it
(`LookInv`); with viewers and no producer a start is under way (`NoneInv`); and when the
active producer's session has ended, its event, the timer, a starter that will find out
or a stop is still to come (`EndedInv`).

*EvidencePipeline.* Acks flow from the store over the streams to AIR, so the invariant
says of every stream that what its handler loaded at HELLO, has seen, or has put on
its way back is at most the stored ack (`StreamsCovered`), and of AIR's two copies the
same (`AcksStored`). `SpoolParts` and `FirstTaken` make the types inductive: file and
write queue together are the records appended, each once and in order. For
`AckedIsLogged` a second invariant, `FlowInv`, follows the records from the client to
the files: in what a handler has to read, after what it has seen and what was stored when
it loaded the ack, nothing is left out but stranded records, and what is new is newer
than all before it (`Order`); HELLO comes first and alone (`Hello`); the client's own
stream carries, with its queue, every record appended (`LiveIs`), because a client that
has greeted replays the whole file. What a handler stores is in both files or was
suppressed, and it suppresses an end only if the start was missed (`IndexOK`). For
`AsRunFaithful` a third, `LogInv`, relates the lines of the file to all handlers: a line
is stored as acknowledged, in doubt or still in hand (`LineOK`); what a handler may yet
be sent and is not newer than some line is known to it or in doubt (`ServedOK`); and what
the handler of an *older* stream has yet to acknowledge is in doubt as soon as a newer
one has taken HELLO (`PairOK`), which is why records of two handlers may interleave in
the file only where the property excuses them.

*PlaylogHorizon.* Pruning and failed saves move what is in memory, so the day to
compile, derived from the last block, could be any. `EndInv` says that memory is empty
or ends with the last block of the last compiled day (a pruning that keeps anything
keeps that block), `CompileInv` that at most one thread compiles and is at the day
after it, which follows from `NextDayIs` whatever the lag of the UTC date. The days of
a start are any set: `LastOfDays` finds its last one by well-founded induction.
`DepthKept` speaks of a daemon that measures its depth by the end of the last row, while
sessions write rows too, any number of blocks ahead, and the clock moves. `DepthInv`
therefore says that there is no hole behind any row or behind what the daemon remembers
as its farthest end but a block that was tried in vain (`NoHoleBehind`): a session has
written, or failed to write, every block from the one on air to its cursor
(`SessionTried`), the block on air is backfilled before the scan (`OnAirFirst`), and the
scan has tried every block before
its cursor and every one it has taken off its list (`ScanTried`). Its types need both:
that what a reader compiles is a day of the horizon, that memory holds blocks of compiled
days only, and that a daemon which fills has blocks to fill (`HorizonType`).

*ScheduleCompiler.* What the assumptions ask of a DSL is that it has
finitely many definitions, of the four kinds, and names pools that exist: `validate_dsl`
refuses a slot or a movie of an unknown pool, and a block of one fails its day like a
block of an empty pool, which the model has (`NoEpisode`).
The row of a day says nothing of how it came about, so `CompilerInv` follows the day in
the making. `JobTyped`: the definition that is placed is one of a layer (`Merged`).
`DayInv`: while definitions place blocks, each starts where it is due; during the
compaction what is done is in order and late only behind another block (`Ordered`,
`Late`), what is still to do is on the grid and in time, and the two together hold the
blocks that were made, each once (`SameBlocks`, a bijection that the sort and the push
preserve). That a block is pushed only as far as the end of the block before follows
from the sort. `TurnInv`: the counters of a day are at least its first turn, and a pool
that has moved on has played the first turn; a definition that plays in order counts
for at least one slot of the day, so the slots of a day are not 0 and the first turns
of two days in a row differ by exactly that number.

*BlockSegments.* Sums of lengths are running totals (`Totals`), so a sum over a list
is compared entry by entry and two lists are joined by `TotalsSplit`. The lemmas go
from what is smallest to the whole block: break points ascend and end before the
episode (`PointsAre`), shares with their remainders add up (`Spreads`), a filled break
lasts what the empty one did (`FilledBreakIs`), an act with its break continues the
acts before it (`ActAndBreak`, `CutUpTo`), and a movie or an episode is cut whole
(`MovieIs`, `NetworkIs`). `JoinAgrees` says for every instant of a block that what the
trimmed block plays is what the whole one plays.

*ProgramFeed.* The producer reads what the rows hold (`FeedInv`), the filling is at some
place of what the block was cut into and has kept its acts, its fades and its length up
to there (`FilledTo`, `FillInv`, with the spots picked so far fitting in the break), and
`PlansAgree` is carried on from the step that makes a plan. The two kinds of block that
`SlotFilled` excludes are needed: the proof showed that an episode of at most
`NumBreaks` units, and not only one of no length, is cut into an act of no length
(`TooShort`).

*ExecutionHorizon.* Of two entries of a block a reader finds one; `OnePerBlock` makes
that well defined, and `NotNewer` (nothing in the store is newer than the highest
generation accepted) gives both properties for a replacement: the store refuses what
is not newer and what touches the locked window. Added plan entries never displace
what a reader finds. `WindowKept` rests on `Aligned` (the end of the window is the end of
a day), `Filled` (no block before it lacks an entry an operator did not take out) and
`Deep`. Its claim that the manager alone leaves no gap needs a count: every evaluation
that falls behind has had a failure, so the window ends at most `failures` blocks before
now (`Lag`), and with no more failures than a day has blocks the fill of the block on air
is the day after the last, so that the store is one run of days (`OneRun`). For the types,
`Bounds` adds that the EPG window, too, ends with a day, that there are no more accepted
publishes than publishes, and that every entry is of a block the horizon has; that an
evaluation reads a block the clock reaches rests on `Reaches` (the days of the model go
beyond the last block by the depth). The proof
showed where the property had claimed too much: with more failures the fill may jump over
a day, which the property now names and the run's bounds reach.

*ChannelFanout.* `FanOK` says of each stream: a run that is up has no stopped stream
and its reader belongs to the registered one, unless the wrong one was stopped;
`ViewersOK` that a viewer between _get_or_create_fanout_buffer and subscribe() holds
the registered stream or one that is being stopped; `RunsOK` that only the active
producer's run is up. `LiveEdge` needs that subscribers of a stream refer to it
(`SubscribersOK`) and what a put does to a queue that is full (`QueuesOK`). What a
viewer gets passes through the reader's hands, the ring, the fan-out thread's hands and
the viewer's queue; `BackInv` says that each of them rises and starts beyond the next
one's end (`FeedOK`, `Fed`), for as long as no stream has two fan-out threads, which is
the mishap the property names.

*SegmentSeams.* Three invariants, each on top of the one before. `IInv` says that a tick
goes through its steps with the seam it found due (`PhaseInv`), that a segment seam is
never set for the last segment and never before the segment has had its frames (`SeamInv`:
those it has had and those before its seam add up), and that the incoming buffer is one
of a segment with content (`IncomingInv`); it gives `RightSegments` and `FullTime`.
`CInv` follows a tick's decision to the swap: the sound the gate asks for is there only
with three frames in the buffer, so that two are left after the pop (`SoundInv`); what
was sampled is what the gates see (`ChoiceInv`, `GateInv`); and a frame that is shown
again is never of a segment still to come (`LastInv`). No gate then stands in the way of
a frame already taken from the incoming segment, which is `ChosenIsCommitted`. `OriginInv`
follows the origin of the picture shown last. It is wrong (`Stale`) only in the opening of
a block that a block take put on air; a block that shows a picture has a decoder then, so
after at most one repeat the segment's own frame is shown or the session stops
(`Opening`). A pad has none and may stay black for as long as its fill thread is late,
which is why the property leaves its black out. `SwapShowsNoBleed` follows if the opening
is over before the first seam is due: `OpeningsLongEnough` asks two frames of a first
segment that has a picture and a successor, three if its source is slow. The condition is
needed: TLC finds the bleed with one frame, and with two at a slow source. Core may plan
such a segment, so it is a hypothesis of this theorem and no ASSUME of the module.

Induction over the lengths of lists, which the library's theorems state for operators
the provers cannot instantiate, is done by well-founded minimality on sets
(`NatInduct`, `Greatest`, `Ranking`): the members of Nat at which a claim fails have no
least one. For this the models say what a sum, a sort or a merge is by its entries
(`Totals`, `Rank`, `Ascending`, `Merged`) and not by a fold.

Every safety invariant and action property of the passing runs is proved. Only
model-checked: everything temporal (`EveryBlockAirs`, `FedBlocksSettle`,
`EveryBlockEnds`, `StreamsEnd`, `ThreadsEnd`, `EvidenceSettles`, `CatchesUp`,
`DepthReturns`: liveness under fairness and ENABLED are beyond the prover), and the
`TypeOK` of two modules, whose proved invariants hold the types they need:
`SegmentSeams` bounds its seams by the sum of the segments' lengths, a fold over a list,
which the provers cannot reason about; `ChannelFanout` counts the chunks of a queue with
`SelectSeq`, of which the library states no facts.

## Findings

`PROJECT.json` quotes what the two violated runs contradict: `feed_crash` (PS 454,
INV-CHANNEL-LIVENESS-RECOVERY-001) and `playlog_idle` (DSL 574, "Rolling horizon").

Other divergences met while modelling. They are kept in the models as behaviour, as
mishaps or as exceptions named in the properties, and have no run of their own:

- *Feeding.* A lost reply makes Core feed a block twice (against
  INV-FEED-QUEUE-DISCIPLINE, "gap-free and monotonically increasing"). A planning gap is retried only by ticks
  (CM 2276, 2589), and nobody adds the producers to a PaceController.
- *Preroll.* A second result overwrites the first (PM 489-491). A hold for a decoder
  that never gives a frame does not end (PM 1873).
- *Seams.* While a segment seam is put off it stays the next seam, and nothing looks at
  the fence (PM 2650, against "Rational fence tick is sole authority",
  INV-BLOCK-WALLFENCE-001): with an incoming file that has no sound, or gives no frame,
  the block never ends. The end of the last segment is a block seam even before the
  fence (PM 4695, against "not early advancement", -003). A pad whose successor is late
  and does not fade in is extended with the picture from before it (PM 1909,
  INV-AUTHORITY-ATOMIC-FRAME-TRANSFER-001). A block take replaces the frame shown last
  but not its origin (PM 2037), so a repeat of it is entered as another segment's; the
  origin gate holds all the same unless a block opens with a segment shorter than two
  frames, or three at a slow source. The pop
  at a seam may leave fewer frames than the gate asks for; the swap follows only because
  500 ms of sound come with more of them. A cold load at the fence
  (INV-FENCE-FALLBACK-SYNC-001) may begin by repeating a frame of the block before.
- *Channel.* stop() does nothing for a session that AIR has ended, although it is to
  "Stop the BlockPlan session and terminate AIR" (PS 617, 626): the process is left, and
  nobody refers to it. The linger's stop does not look again for viewers (PD 1202). The prewarm
  timer looks at subscribers, not at viewers tuned in. Teardown takes the stream from
  the registry under another lock than the one it was registered with, possibly a
  newer one.
- *Fan-out.* `stop()` returns early when the reader has ended (CS 742-745), so the
  fan-out thread of a closed ring spins on. Subscribers are sent no end of stream when
  the upstream ends. A RuntimeError of the source factory is not caught.
- *Evidence.* A record whose send failed, and which the spool's writer has not flushed
  yet, is missed by the replay; the next record's cumulative ack covers it (`stranded`;
  ESV 418, against "ACK implies durability"). HELLO is answered with ack 0, which replaces AIR's own. A record refused
  with kSpoolFull has used up its sequence number; as the first record is never
  refused, the next append is then a gap and throws on the tick thread. A broken stream
  is noticed only at the next write. UpdateAck races with the cap check. ToProto drops
  segment_uuid, `_write_to_txlog` drops gain_db. `last_segment_index` is -1 again after
  a reconnection. Spools of earlier sessions are never replayed.
- *Playlog.* `ensure_block_compiled` promises "INSERT ... ON CONFLICT DO NOTHING" (DSL
  315) and merges (429); the loser of the race fails, and with it the session of the
  daemon's evaluation. A block that could not be filled is passed by the frontier,
  and so is one whose write by a session failed: what that throws is swallowed (DSL 435),
  the session writes the next block, and the daemon, which takes the end of the last row
  for its depth and back-fills only the block on air (PHD 669), does not try the first
  again before it is on air, against "Tier 2 maintains ≥2 hours coverage"
  (INV-PLAYLOG-HORIZON-001): `unsaved` in `DepthKept`. A day
  whose compilation fails at the start stays out until a restart. Tier 1 is purged by
  local date, for all channels at once.
- *Execution window.* The record of an override is persisted before the generation is
  checked. An exception in the EPG step ends the evaluation. The store never evicts, and
  a hole in the locked window is never filled.
- *Compilation.* The slots of all layers and pools are counted together, so a pool whose
  length divides the count begins every day with the same episode
  (INV-SCHEDULE-SEQUENTIAL-ADVANCE-001), and a premium grid of 15 minutes is counted
  with 30, where `LengthInSlots` counts in the grid: the model agrees with the code on
  the grid of 30 minutes that the run has. Definitions after midnight are compiled first, so a pool they share airs out
  of turn. Gaps are not checked, although a comment says so (`schedule_compiler.py`
  1029). Blocks of two days may overlap at the seam
  (INV-SCHEDULEDAY-SEAM-NO-OVERLAP-001): tuning in just before then fails, or a block
  is skipped, or blocks of the two days alternate.
- *Segments.* AIR shows black for a block whose segments do not add up, while a viewer
  who joins it in progress gets it padded and accepted. A break longer than the filler,
  with no spot, raises. An act may fade out although the break after it has no time.

## Plan

Done, in this order: `BlockFeed`, `BlockPreroll`, `ChannelLifecycle`, the refinement of
`BlockDelivery`, `EvidencePipeline`, `ChannelFanout`, `PlaylogHorizon`,
`ExecutionHorizon`, the planning modules, `SegmentSeams`, and the proofs listed
above.

What would add most next:

1. `BlockFeed` composed with `BlockPreroll`, so that an overwritten result shows as a
   credit that never comes back.
2. The hysteresis and the generations of the look-ahead buffers, and the sound that is
   emitted at a seam (INV-SEAM-AUDIO-001).
3. PlayoutControl, FrameRingBuffer and SocketSink, if the legacy engine stays in use.

## Not modelled

The map covers about 5,900 lines of the repository, nearly all of the code in which
threads, processes and rows of the two tiers interact. The rest is of another kind:

- Ingest, domain, CLI commands, adapters and web (most of the lines): operator tools,
  one call at a time, over a database whose transactions are external.
- The planning pipeline, schedule manager and catalog resolver: an earlier, sequential
  derivation that DslScheduleService replaces in the product configuration;
  `ExecutionHorizon` has what its results and exceptions do to the window.
- Decoding, rendering, encoding, timing: the media path; of it only what changes which
  block or segment is shown is in the models.
- The legacy AIR engine, `src_legacy` and the `*.bak*` files are not on the BlockPlan
  path.
- As-run reconciliation, clock, metrics, HLS: sequential code or formatting.

Within modelled components: the start-up handshake of a session is one step; the
graceful teardown time-out (`producer/base.py`) advances only by ticks, which nobody
delivers; the deferred teardown of a whole channel has no caller (CM 496); templates
and validation of the DSL, the legacy schedule keys and daylight saving are left out
of the compiler; loudness measurement and the EPG of DslScheduleService as well.
Of the seams: segments of no duration, which the validator refuses (PM 4671-4680); the
MISS branch of `PerformSegmentSwap`, which the gates leave unreachable; sources below
half the output rate; what is emitted as sound; `Cancel()` of segment requests, which
nobody calls while a session runs.

---------------------------- MODULE SegmentSeams ----------------------------
(***************************************************************************)
(* How AIR goes from one segment of a block to the next.                   *)
(*                                                                         *)
(* The tick thread (PipelineManager::Run) shows one frame a tick.  It pops *)
(* it from A, the buffer of the live segment; at a segment seam it may pop *)
(* from B, the buffer of the incoming one, and then moves B to A.  A fill  *)
(* thread of each buffer and SeamPreparer's worker, which opens the next   *)
(* segment's file, run beside it, so a tick is split into the steps        *)
(* between which they may run: the buffers are sampled, the frame is       *)
(* chosen, B is created, the swap is decided.                              *)
(*                                                                         *)
(* Time is relative: seamIn and fenceIn count the ticks to the next seam   *)
(* and to the block's fence and stop at 0, which stands for "due".  How    *)
(* the next block is prerolled is BlockPreroll's subject; here it is ready *)
(* or not.                                                                 *)
(***************************************************************************)
EXTENDS Integers, Sequences, FiniteSets, SequencesExt

CONSTANTS
  Plan,          \* the blocks: sequences of segments, [kind, half, fade]
  Slow,          \* the segments <<block, segment>> whose source is below the output rate
  Depth,         \* bound: the frames a buffer holds (target_depth_frames_)
  Lead,          \* bound: how far the fence may lie behind the end of the last segment
  MaxFailures    \* bound: segments that cannot be decoded or have no sound

ASSUME SeamAssumption ==
  /\ Plan \in Seq(Seq([kind : {"content", "pad"}, half : Nat \ {0}, fade : BOOLEAN]))
  /\ Plan # <<>> /\ \A b \in DOMAIN Plan : Plan[b] # <<>>
  /\ Depth \in Nat /\ Depth >= 3 /\ Lead \in Nat /\ MaxFailures \in Nat

VARIABLES
  \* PipelineManager
  pc,            \* the next step of the tick
  blk, seg,      \* live_parent_block_ and current_segment_index_ (from 1)
  seamType,      \* next_seam_type_
  seamIn,        \* next_seam_frame_, from this tick on
  fenceIn,       \* block_fence_frame_, from this tick on
  a,             \* video_buffer_: whose frames, how many, IsPrimed, fill thread alive
  b,             \* segment_b_*: whose frames, how many, 500 ms of sound, what its file gives
  tick,          \* what this tick has decided so far
  lastGood,      \* whose frame last_good_video_frame_ is
  lastOrigin,    \* last_good_origin_segment_
  repeated,      \* the last tick was a cadence repeat
  next,          \* preview_: no; none to come; its fill thread has just begun; frames
  \* SeamPreparer
  requests, worker, slot,
  \* history
  age,           \* for how many ticks the live segment has been on air
  failures

seamVars == <<seamType, seamIn, fenceIn>>
blkVars  == <<blk, seg, age>>
prepVars == <<requests, worker, slot>>
showVars == <<lastGood, lastOrigin, repeated>>
vars == <<pc, blkVars, seamVars, a, b, tick, showVars, next, prepVars, failures>>

-----------------------------------------------------------------------------
(* Blocks, segments and buffers.                                           *)

Nobody == <<0, 0>>                                 \* no segment
NoB    == [of |-> Nobody, depth |-> 0, sound |-> FALSE, file |-> "bad"]
NoSlot == [of |-> Nobody, file |-> "bad"]
NoTick == [take |-> "none", source |-> "A", primed |-> FALSE, pad |-> FALSE, override |-> FALSE,
           decision |-> "none", origin |-> -2, shown |-> Nobody]

Segments(k)   == Plan[k]
IsPad(k, s)   == s \in DOMAIN Segments(k) /\ Segments(k)[s].kind = "pad"
IsLast(k, s)  == s = Len(Segments(k))
AllSegments   == UNION {{k} \X DOMAIN Plan[k] : k \in DOMAIN Plan}
LowerMin(m, n) == IF m < n THEN m ELSE n

\* A duration is a number of half frames, and frames are counted up.
Frames(k, s)  == (Segments(k)[s].half + 1) \div 2
EndOf(k)      == (FoldSeq(LAMBDA x, sum : x.half + sum, 0, Segments(k)) + 1) \div 2
MaxFence      == LET longest == CHOOSE k \in DOMAIN Plan : \A j \in DOMAIN Plan : EndOf(j) <= EndOf(k)
                 IN  EndOf(longest) + Lead

Before(x, y)  == x[1] < y[1] \/ (x[1] = y[1] /\ x[2] < y[2])

HasB == b # NoB

\* A buffer with its producer: the fill thread of a pad that is swapped in, or
\* of a file that gives no frame, ends at once.  A block that opens with a pad
\* has a producer that makes black frames, without a decoder and unprimed.
Buffer(k, s, depth, alive) ==
  [of |-> <<k, s>>, depth |-> depth, primed |-> depth > 0, alive |-> alive]

HasDecoder == a.alive /\ ~IsPad(blk, seg)

-----------------------------------------------------------------------------
(* SeamPreparer (see also BlockPreroll): one slot for segments.            *)

\* Submit: std::lower_bound puts a request before those with the same seam.
Submit(x) ==
  LET earlier == {i \in DOMAIN requests : Before(requests[i], x)}
  IN  requests' = InsertAt(requests, Cardinality(earlier) + 1, x)

WorkerTake ==
  /\ worker = Nobody /\ requests # <<>>
  /\ worker' = Head(requests) /\ requests' = Tail(requests)
  /\ UNCHANGED <<pc, blkVars, seamVars, a, b, tick, showVars, next, slot, failures>>

\* ProcessRequest stores a result whatever PrimeFirstTick found: a file with
\* picture and sound, one without sound, or nothing that can be decoded.
WorkerDone ==
  /\ worker # Nobody /\ worker' = Nobody
  /\ \E file \in {"good", "mute", "bad"} :
       /\ slot' = [of |-> worker, file |-> file]
       /\ failures' = IF file = "good" THEN failures ELSE failures + 1
  /\ failures' <= MaxFailures
  /\ UNCHANGED <<pc, blkVars, seamVars, a, b, tick, showVars, next, requests>>

\* ArmSegmentPrep: the next segment that is no pad, unless its result is there.
ToPrepare(k, s) == {t \in DOMAIN Segments(k) : t > s /\ ~IsPad(k, t)}
Arm(k, s) ==
  IF ToPrepare(k, s) = {} THEN UNCHANGED requests
  ELSE LET to == CHOOSE t \in ToPrepare(k, s) : \A u \in ToPrepare(k, s) : t <= u
       IN  IF slot.of = <<k, to>> THEN UNCHANGED requests ELSE Submit(<<k, to>>)

-----------------------------------------------------------------------------
(* The fill threads.                                                       *)

\* A live buffer is filled up, after the end of its file with the last frame.
FillA ==
  /\ a.alive /\ a.depth < Depth
  /\ a' = [a EXCEPT !.depth = @ + 1, !.primed = TRUE]
  /\ UNCHANGED <<pc, blkVars, seamVars, b, tick, showVars, next, prepVars, failures>>

\* A frame may bring B's audio buffer to 500 ms, which is the sound of three
\* frames or more, and with B full frames are decoded for their sound alone.
FillB ==
  /\ HasB /\ b.file # "bad"
  /\ \/ b.depth < Depth
     \/ b.file = "good" /\ ~b.sound
  /\ \E sound \in {b.sound, b.file = "good"} :
       /\ b.sound => sound
       /\ b.depth = Depth => sound
       /\ sound => b.sound \/ b.depth + 1 >= 3
       /\ b' = [b EXCEPT !.depth = LowerMin(@ + 1, Depth), !.sound = sound]
  /\ UNCHANGED <<pc, blkVars, seamVars, a, tick, showVars, next, prepVars, failures>>

\* The next block's preroll is complete (BlockPreroll).  A first file gives a
\* frame at once, a pad has its first from the fill thread, and a block that
\* fails the probe or whose first file cannot be decoded gives no picture.
NextBlockReady ==
  /\ next = "no" /\ blk < Len(Plan)
  /\ \/ /\ next' = IF IsPad(blk + 1, 1) THEN "filling" ELSE "frames"
        /\ UNCHANGED failures
     \/ next' = "blank" /\ failures < MaxFailures /\ failures' = failures + 1
  /\ UNCHANGED <<pc, blkVars, seamVars, a, b, tick, showVars, prepVars>>

FillNext ==
  /\ next = "filling" /\ next' = "frames"
  /\ UNCHANGED <<pc, blkVars, seamVars, a, b, tick, showVars, prepVars, failures>>

-----------------------------------------------------------------------------
(* The next seam.                                                          *)

\* UpdateNextSeamFrame, for the first segment of a block.
FirstSeam(k, fence) ==
  IF ~IsLast(k, 1) /\ Frames(k, 1) < fence
  THEN [type |-> "segment", in |-> Frames(k, 1)]
  ELSE [type |-> "block", in |-> fence]

\* PerformSegmentSwap: the seam is counted from this tick, and the last
\* segment of a block ends with the block.
RebaseShort(k, s) == Frames(k, s) - 1                           \* mutated form
Rebase(k, s)      == Frames(k, s)
LastUnguarded(k, s) == FALSE                                    \* mutated form
EndsBlock(k, s)     == IsLast(k, s)

SwapSeam(k, s, fence) ==
  LET frames == Rebase(k, s)
      in     == LowerMin(frames, fence)
  IN  [type |-> IF in >= fence \/ EndsBlock(k, s) THEN "block" ELSE "segment", in |-> in]

\* EnforceNextSeamInvariant: a seam that is due already is put off for the
\* segment's duration, not past a fence that is ahead.
Enforce(seam, k, s, fence) ==
  IF seam.in > 0 THEN seam
  ELSE LET in == IF fence > 0 THEN LowerMin(Frames(k, s), fence) ELSE Frames(k, s)
       IN  [type |-> IF in >= fence THEN "block" ELSE "segment", in |-> in]

SetSeam(seam, fence) == seamType' = seam.type /\ seamIn' = seam.in /\ fenceIn' = fence

-----------------------------------------------------------------------------
(* The incoming segment.                                                   *)

\* EnsureIncomingBReadyForSeam makes B of the result for segment <<blk, to>>, if
\* it has come.  StartFilling puts the frame it was primed with into the buffer.
AnyResult(to) == slot # NoSlot                                  \* mutated form
IsFor(to)     == slot.of = <<blk, to>>

Ensure(to) ==
  IF HasB \/ IsPad(blk, to) \/ ~IsFor(to) THEN UNCHANGED <<b, slot>>
  ELSE /\ slot' = NoSlot
       /\ b' = [of |-> slot.of, depth |-> IF slot.file = "bad" THEN 0 ELSE 1, sound |-> FALSE,
                file |-> slot.file]

\* GetIncomingSegmentState and IsIncomingSegmentEligibleForSwap.  A pad has its
\* own buffers, with half a second of silence in them (PrimePadBForSeamOrDie).
HasIncoming(to) == IsPad(blk, to) \/ HasB
Eligible(to)    == IsPad(blk, to) \/ (b.depth >= 2 /\ b.sound)

-----------------------------------------------------------------------------
(* A tick: what is due and where its frame is to come from.                *)

Due == IF seamType # "none" /\ seamIn = 0 THEN seamType ELSE "none"

Sample ==
  /\ pc = "sample" /\ pc' = "show"
  /\ LET to       == seg + 1
         pad      == Due = "segment" /\ IsPad(blk, to)
         fromPad  == Due = "segment" /\ ~pad /\ IsPad(blk, seg) /\ a.depth = 0
     IN  /\ IF fromPad THEN Ensure(to) ELSE UNCHANGED <<b, slot>>
         /\ tick' = [NoTick EXCEPT
              !.take     = Due,
              !.source   = CASE Due = "block" -> "P"
                             [] Due = "segment" /\ HasB /\ Eligible(to) -> "B"
                             [] OTHER -> "A",
              !.primed   = a.primed,
              !.pad      = pad,
              !.override = fromPad /\ b' # NoB]
  /\ UNCHANGED <<blkVars, seamVars, a, showVars, next, requests, worker, failures>>

-----------------------------------------------------------------------------
(* A tick: the frame that is shown.  origin is frame_origin_segment_id,    *)
(* what the code takes it to be, and shown whose frame it really is.       *)

Show(decision, shown, origin) ==
  /\ pc' = IF tick.take = "segment" THEN "ensure" ELSE IF tick.take = "block" THEN "rotate" ELSE "end"
  /\ tick' = [tick EXCEPT !.decision = decision, !.shown = shown, !.origin = origin]
  /\ UNCHANGED <<blkVars, seamVars, next, prepVars, failures>>

ShowPad  == Show("pad", Nobody, -2) /\ UNCHANGED <<lastGood, lastOrigin>>
ShowGood(decision) == Show(decision, lastGood, lastOrigin) /\ UNCHANGED <<lastGood, lastOrigin>>

\* At a seam to a pad: black, and at once.
ShowPadSeam ==
  /\ pc = "show" /\ tick.pad
  /\ Show("pad", Nobody, seg + 1)
  /\ lastOrigin' = seg + 1 /\ UNCHANGED <<a, b, lastGood, repeated>>

\* At a seam from a pad: B's first frame.
Overrides == tick.override /\ b.depth > 0

ShowOverride ==
  /\ pc = "show" /\ ~tick.pad /\ Overrides
  /\ Show("content", b.of, seg + 1)
  /\ b' = [b EXCEPT !.depth = @ - 1]
  /\ lastGood' = b.of /\ lastOrigin' = seg + 1 /\ UNCHANGED <<a, repeated>>

Cascade == pc = "show" /\ ~tick.pad /\ ~Overrides

\* A source below the output rate: some frames are shown twice, but not instead
\* of the first one of an incoming segment (INV-CADENCE-SEAM-ADVANCE-001).  There
\* is a cadence only while the live segment has a decoder.
MayRepeat == tick.take # "block" /\ tick.source # "B"

ShowRepeat ==
  /\ Cascade /\ MayRepeat /\ <<blk, seg>> \in Slow /\ HasDecoder /\ ~repeated
  /\ repeated' = TRUE
  /\ IF lastGood # Nobody THEN ShowGood("repeat") ELSE ShowPad
  /\ UNCHANGED <<a, b>>

Advances == Cascade /\ repeated' = FALSE

\* A frame that an opening pad gets after A was found empty, with nothing in B,
\* passes for the content that the override was to take.
ShowA ==
  /\ Advances /\ tick.source = "A" /\ a.depth > 0
  /\ LET origin == IF tick.override THEN seg + 1 ELSE seg
     IN  Show("content", a.of, origin) /\ lastOrigin' = origin
  /\ a' = [a EXCEPT !.depth = @ - 1]
  /\ lastGood' = a.of /\ UNCHANGED b

ShowB ==
  /\ Advances /\ tick.source = "B"
  /\ Show("content", b.of, b.of[2])
  /\ b' = [b EXCEPT !.depth = @ - 1]
  /\ lastGood' = b.of /\ lastOrigin' = b.of[2] /\ UNCHANGED a

\* At the fence: the next block's first frame.  last_good_origin_segment_ is
\* left as it was.
PreviewHasFrame == next = "frames"

ShowPreview ==
  /\ Advances /\ tick.source = "P" /\ PreviewHasFrame
  /\ Show("next", <<blk + 1, 1>>, -2)
  /\ lastGood' = <<blk + 1, 1>> /\ UNCHANGED <<a, b, lastOrigin>>

\* Or black, or, while the next block's content is still being prerolled, what
\* was shown last and later the standby frame (DEGRADED_TAKE_MODE).
ShowNoPreview ==
  /\ Advances /\ tick.source = "P" /\ ~PreviewHasFrame
  /\ \/ ShowPad
     \/ /\ next = "no" /\ blk < Len(Plan) /\ ~IsPad(blk + 1, 1)
        /\ \E shown \in {lastGood, Nobody} : Show("wait", shown, -2)
        /\ UNCHANGED <<lastGood, lastOrigin>>
  /\ UNCHANGED <<a, b>>

\* At a seam with nothing in A: what was shown last, but black before a fade-in.
FadesFromPad == IsPad(blk, seg) /\ ~IsLast(blk, seg) /\ Segments(blk)[seg + 1].fade

ShowSeamHold ==
  /\ Advances /\ tick.source = "A" /\ a.depth = 0
  /\ tick.take = "segment" /\ lastGood # Nobody
  /\ IF FadesFromPad THEN ShowPad ELSE ShowGood("hold")
  /\ UNCHANGED <<a, b>>

\* Nothing in A and no seam: black if A never had a frame or its producer has no
\* decoder; else the session ends (INV-VIDEO-LOOKAHEAD-001).
Underflow == tick.source = "A" /\ a.depth = 0 /\ (tick.take = "segment" => lastGood = Nobody)

ShowBlack ==
  /\ Advances /\ Underflow /\ ~(tick.primed /\ HasDecoder)
  /\ ShowPad /\ UNCHANGED <<a, b>>

StopSession ==
  /\ Cascade /\ Underflow /\ tick.primed /\ HasDecoder
  /\ pc' = "stopped" /\ tick' = NoTick
  /\ UNCHANGED <<blkVars, seamVars, a, b, showVars, next, prepVars, failures>>

-----------------------------------------------------------------------------
(* A tick: the swap of segments.                                           *)

MakeB ==
  /\ pc = "ensure" /\ pc' = "swap"
  /\ Ensure(seg + 1)
  /\ UNCHANGED <<blkVars, seamVars, a, tick, showVars, next, requests, worker, failures>>

ForcedByVacuum   == a.depth = 0 /\ HasB /\ b.depth > 0 /\ ~Eligible(seg + 1)
ForcedByPad      == tick.pad /\ tick.decision = "pad"
NotForced        == FALSE                                       \* mutated form
ForcedByOverride == tick.override /\ tick.decision = "content"
Forced           == ForcedByVacuum \/ ForcedByPad \/ ForcedByOverride

\* The frame that was shown is the outgoing segment's: wait for the next tick.
NoGate     == FALSE                                             \* mutated form
OriginGate == tick.origin = seg

Commits == HasIncoming(seg + 1) /\ (Forced \/ (Eligible(seg + 1) /\ ~OriginGate))

Defer ==
  /\ pc = "swap" /\ ~Commits /\ pc' = "end"
  /\ UNCHANGED <<blkVars, seamVars, a, b, tick, showVars, next, prepVars, failures>>

\* PerformSegmentSwap.  After a swap that was forced because A was empty, the
\* frame that was shown is entered as the incoming segment's.  The cadence starts
\* afresh if the source rates differ.
Swap ==
  /\ pc = "swap" /\ Commits /\ pc' = "end"
  /\ seg' = seg + 1 /\ age' = 0
  /\ a' = IF IsPad(blk, seg + 1) THEN Buffer(blk, seg + 1, 0, FALSE)
          ELSE [of |-> b.of, depth |-> b.depth, primed |-> b.file # "bad", alive |-> b.file # "bad"]
  /\ b' = IF IsPad(blk, seg + 1) THEN b ELSE NoB
  /\ SetSeam(Enforce(SwapSeam(blk, seg + 1, fenceIn), blk, seg + 1, fenceIn), fenceIn)
  /\ IF ForcedByVacuum
     THEN lastOrigin' = seg + 1 /\ tick' = [tick EXCEPT !.origin = seg + 1]
     ELSE UNCHANGED <<lastOrigin, tick>>
  /\ repeated' \in {FALSE, repeated}
  /\ Arm(blk, seg + 1)
  /\ UNCHANGED <<blk, lastGood, next, worker, slot, failures>>

-----------------------------------------------------------------------------
(* A tick: the end of the block.                                           *)

\* Block k goes live, on time or not: its fence is where it is.
Activate(k, buffer) ==
  /\ blk' = k /\ seg' = 1 /\ age' = 0 /\ a' = buffer /\ next' = "no" /\ pc' = "end"
  /\ \E fence \in 0..EndOf(k) + Lead : SetSeam(Enforce(FirstSeam(k, fence), k, 1, fence), fence)
  /\ repeated' = FALSE
  /\ Arm(k, 1)
  /\ UNCHANGED <<b, tick, lastGood, lastOrigin, worker, slot, failures>>

\* B has committed a frame, or there is a block without a picture, or the queue
\* has a block that is loaded here and now (INV-FENCE-FALLBACK-SYNC-001).
Rotate ==
  /\ pc = "rotate" /\ tick.decision # "wait" /\ blk < Len(Plan)
  /\ \/ /\ tick.decision = "next"
        /\ \E depth \in {0, 1} :
             Activate(blk + 1, [Buffer(blk + 1, 1, depth, TRUE) EXCEPT !.primed = TRUE])
     \/ /\ tick.decision = "pad"
        /\ \E alive \in IF next = "no" THEN BOOLEAN ELSE {next # "blank"} :
             Activate(blk + 1, Buffer(blk + 1, 1, IF next = "frames" THEN 1 ELSE 0, alive))

\* PADDED_GAP: nothing is live.
EnterGap ==
  /\ pc = "rotate" /\ tick.decision = "pad" /\ next = "no"
  /\ pc' = "end"
  /\ seamType' = "none" /\ seamIn' = 0 /\ fenceIn' = 0
  /\ a' = [of |-> Nobody, depth |-> 0, primed |-> FALSE, alive |-> FALSE]
  /\ UNCHANGED <<blkVars, b, tick, showVars, next, prepVars, failures>>

\* DEGRADED_TAKE_MODE waits at the fence.
Wait ==
  /\ pc = "rotate" /\ tick.decision = "wait" /\ pc' = "end"
  /\ UNCHANGED <<blkVars, seamVars, a, b, tick, showVars, next, prepVars, failures>>

\* TryLoadLiveProducer ends a gap; the fill thread starts with the frame the
\* block was primed with, unless the preview's own fill thread has taken it.
LeaveGap ==
  /\ pc = "end" /\ seamType = "none" /\ next # "no"
  /\ \E depth \in IF next = "frames" THEN {0, 1} ELSE {0} :
       Activate(blk + 1, Buffer(blk + 1, 1, depth, next # "blank"))

LessOne(n) == IF n = 0 THEN 0 ELSE n - 1

EndTick ==
  /\ pc = "end" /\ ~(seamType = "none" /\ next # "no")
  /\ pc' = "sample" /\ tick' = NoTick
  /\ seamIn' = LessOne(seamIn) /\ fenceIn' = LessOne(fenceIn)
  /\ age' = LowerMin(age + 1, Frames(blk, seg))
  /\ UNCHANGED <<blk, seg, seamType, a, b, showVars, next, prepVars, failures>>

-----------------------------------------------------------------------------
\* The first block is live, and primed, before the clock starts.
Init ==
  /\ pc = "sample" /\ tick = NoTick
  /\ blk = 1 /\ seg = 1 /\ age = 0
  /\ a = Buffer(1, 1, IF IsPad(1, 1) THEN 0 ELSE 1, TRUE) /\ b = NoB
  /\ fenceIn \in 1..EndOf(1) + Lead
  /\ LET seam == FirstSeam(1, fenceIn) IN seamType = seam.type /\ seamIn = seam.in
  /\ lastGood = Nobody /\ lastOrigin = -1 /\ repeated = FALSE /\ next = "no"
  /\ requests = (IF ToPrepare(1, 1) = {} THEN <<>>
                 ELSE <<<<1, CHOOSE t \in ToPrepare(1, 1) : \A u \in ToPrepare(1, 1) : t <= u>>>>)
  /\ worker = Nobody /\ slot = NoSlot /\ failures = 0

Tick == \/ Sample \/ ShowPadSeam \/ ShowOverride \/ ShowRepeat \/ ShowA \/ ShowB
        \/ ShowPreview \/ ShowNoPreview \/ ShowSeamHold \/ ShowBlack \/ StopSession
        \/ MakeB \/ Defer \/ Swap \/ Rotate \/ EnterGap \/ Wait \/ LeaveGap \/ EndTick
Worker == WorkerTake \/ WorkerDone
Next   == Tick \/ Worker \/ FillA \/ FillB \/ NextBlockReady \/ FillNext

Fairness == WF_vars(Tick) /\ WF_vars(Worker) /\ WF_vars(FillB) /\ WF_vars(NextBlockReady)

Spec     == Init /\ [][Next]_vars
FairSpec == Spec /\ Fairness

-----------------------------------------------------------------------------
(* What has to hold.                                                       *)

Owners == AllSegments \cup {Nobody}

\* The range of every variable.
TypeOK ==
  /\ pc \in {"sample", "show", "ensure", "swap", "rotate", "end", "stopped"}
  /\ <<blk, seg>> \in AllSegments
  /\ seamType \in {"none", "segment", "block"}
  /\ seamIn \in 0..MaxFence /\ fenceIn \in 0..MaxFence
  /\ a \in [of : Owners, depth : 0..Depth, primed : BOOLEAN, alive : BOOLEAN]
  /\ b \in [of : Owners, depth : 0..Depth, sound : BOOLEAN, file : {"good", "mute", "bad"}]
  /\ tick \in [take : {"none", "segment", "block"}, source : {"A", "B", "P"}, primed : BOOLEAN,
               pad : BOOLEAN, override : BOOLEAN, origin : Int, shown : Owners,
               decision : {"none", "pad", "content", "repeat", "next", "wait", "hold"}]
  /\ lastGood \in Owners /\ lastOrigin \in Int /\ repeated \in BOOLEAN /\ next \in {"no", "blank", "filling", "frames"}
  /\ requests \in Seq(AllSegments) /\ worker \in Owners
  /\ slot \in [of : Owners, file : {"good", "mute", "bad"}]
  /\ age \in 0..MaxFence /\ failures \in 0..MaxFailures

\* The worker's results come late, out of order with the seams, and for a block
\* that may be over: still A only ever holds the live segment's frames and B
\* the frames of the one that follows it, never of a later one or of a block
\* that has ended (INV-SEGMENT-SWAP-001).
RightSegment ==
  /\ seamType # "none" => a.of = <<blk, seg>>
  /\ HasB => b.of = <<blk, seg + 1>> /\ seamType = "segment"

\* The tick on which a segment takes over never shows a picture of the segment it
\* took over from, even if the incoming one became ready between the choice of
\* the frame and the swap; only a swap that was forced because A was empty may
\* (FORCE_EXECUTE_ORIGIN_RESTAMP_SAFETY_NET).  The black of an opening pad may be
\* shown once more: it can be the last good frame with an older block's origin.
NoBleedOnSwap ==
  [][pc = "swap" /\ Commits /\ ~ForcedByVacuum /\ ~IsPad(blk, seg) => tick.shown # <<blk, seg>>]_vars

\* A frame taken from the incoming segment's buffer has its swap on the same
\* tick: content_seam_override_without_swap never happens, nor does a frame of
\* B by the normal gate or a pad's black outlive its tick without the swap.  And
\* a seam whose incoming segment is ready when the tick begins is taken on that
\* tick: neither cadence nor the origin gate puts it off.
ShownIsCommitted ==
  [][pc = "swap" /\ (tick.pad \/ tick.source = "B" \/ tick.shown = <<blk, seg + 1>>) => Commits]_vars

\* A segment is replaced within its block only when it has had all its frames,
\* however many earlier seams were late (the seam is counted from the swap).
FullDwell == [][blk' = blk /\ seg' # seg => age >= Frames(blk, seg)]_vars

\* Every block comes to its end unless the session does, although a segment seam
\* is put off until the incoming segment has picture and sound; one that never
\* gets them puts the end of the block off for ever, past its fence.
EveryBlockEnds == \A k \in 1..Len(Plan) : (blk = k /\ seamType # "none") ~>
                     (blk > k \/ seamType = "none" \/ pc = "stopped" \/ failures > 0)
=============================================================================

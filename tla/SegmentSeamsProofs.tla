------------------------- MODULE SegmentSeamsProofs -------------------------
(***************************************************************************)
(* At the seams of any plan, whatever the worker and the fill threads do   *)
(* and however often a seam is put off: the buffers hold frames of the     *)
(* right segments, a segment is not replaced before its time, a frame that *)
(* was taken from the incoming one has its swap, and the swap shows none   *)
(* of the one that is left.                                                *)
(***************************************************************************)
EXTENDS SegmentSeams, TLAPS

(***************************************************************************)
(* The inductive invariant.  The tick goes through its steps with the seam *)
(* it has found due (PhaseInv); a segment seam is never set for the last   *)
(* segment, and never before the segment has had its frames (SeamInv); the *)
(* incoming buffer is that of a segment with content (IncomingInv).        *)
(***************************************************************************)

Typed ==
  /\ blk \in DOMAIN Plan /\ seg \in DOMAIN Plan[blk]
  /\ next # "no" => blk < Len(Plan)
  /\ seamIn \in Nat /\ fenceIn \in Nat /\ age \in Nat
  /\ {"take", "source"} \subseteq DOMAIN tick
  /\ "of" \in DOMAIN a /\ {"of", "file"} \subseteq DOMAIN b
  /\ seamType \in {"none", "segment", "block"}

DueNow(type) == seamType = type /\ seamIn = 0

PhaseInv ==
  /\ pc = "show" => /\ tick.take \in {"none", "segment", "block"}
                    /\ tick.take # "none" => DueNow(tick.take)
                    /\ tick.source = "B" => HasB
  /\ pc \in {"ensure", "swap"} => DueNow("segment")
  /\ pc = "rotate" => DueNow("block")

SeamInv == seamType = "segment" => ~IsLast(blk, seg) /\ age + seamIn >= Frames(blk, seg)

IncomingInv == HasB => ~IsPad(blk, seg + 1)

IInv == Typed /\ PhaseInv /\ SeamInv /\ IncomingInv /\ RightSegment
-----------------------------------------------------------------------------
(* Segments and seams.                                                     *)

\* Every segment of the plan has a frame or more.
LEMMA HasFrames ==
  ASSUME NEW k \in DOMAIN Plan, NEW s \in DOMAIN Plan[k]
  PROVE  Frames(k, s) \in Nat /\ Frames(k, s) > 0
<1> DEFINE Segment == [kind : {"content", "pad"}, half : Nat \ {0}, fade : BOOLEAN]
<1>1. Plan[k] \in Seq(Segment)
  <2> HIDE DEF Segment
  <2>1. Plan \in Seq(Seq(Segment))
    BY SeamAssumption DEF Segment
  <2> QED   BY <2>1
<1>2. Plan[k][s] \in Segment
  <2> HIDE DEF Segment
  <2> QED   BY <1>1
<1>3. Plan[k][s].half \in Nat \ {0}
  BY <1>2
<1> QED   BY <1>3 DEF Frames, Segments

\* The first segment of a block of the plan.
LEMMA FirstOfBlock ==
  ASSUME NEW k \in 1..Len(Plan)
  PROVE  k \in DOMAIN Plan /\ 1 \in DOMAIN Plan[k]
<1>1. k \in DOMAIN Plan /\ Plan[k] # <<>>
  BY SeamAssumption
<1>2. Plan[k] \in Seq([kind : {"content", "pad"}, half : Nat \ {0}, fade : BOOLEAN])
  BY <1>1, SeamAssumption
<1> QED   BY <1>1, <1>2

\* A segment that is not the last one of its block has a successor.
LEMMA Successor ==
  ASSUME NEW k \in DOMAIN Plan, NEW s \in DOMAIN Plan[k], ~IsLast(k, s)
  PROVE  s + 1 \in DOMAIN Plan[k]
<1>1. Plan[k] \in Seq([kind : {"content", "pad"}, half : Nat \ {0}, fade : BOOLEAN])
  BY SeamAssumption
<1> QED   BY <1>1 DEF IsLast, Segments

\* A seam that gives segment s of block k its time, unless it is the block's.
GivesTime(seam, k, s) ==
  /\ seam.in \in Nat /\ seam.type \in {"segment", "block"}
  /\ seam.type = "segment" => ~IsLast(k, s) /\ seam.in >= Frames(k, s)

\* UpdateNextSeamFrame at the activation of a block.
LEMMA FirstSeamGivesTime ==
  ASSUME NEW k \in DOMAIN Plan, 1 \in DOMAIN Plan[k], NEW fence \in Nat
  PROVE  GivesTime(FirstSeam(k, fence), k, 1)
BY HasFrames DEF GivesTime, FirstSeam

\* EnforceNextSeamInvariant keeps that: a fence that is over makes it a block seam.
LEMMA EnforceGivesTime ==
  ASSUME NEW k \in DOMAIN Plan, NEW s \in DOMAIN Plan[k], NEW fence \in Nat, NEW seam,
         GivesTime(seam, k, s), seam.in = 0 => fence = 0
  PROVE  GivesTime(Enforce(seam, k, s, fence), k, s)
<1>1. Frames(k, s) \in Nat /\ Frames(k, s) > 0
  BY HasFrames
<1>2. CASE seam.in > 0
  BY <1>2 DEF Enforce
<1>3. CASE ~(seam.in > 0)
  <2>1. fence = 0
    BY <1>3 DEF GivesTime
  <2>2. Enforce(seam, k, s, fence) = [type |-> "block", in |-> Frames(k, s)]
    BY <1>1, <1>3, <2>1 DEF Enforce
  <2> QED   BY <1>1, <2>2 DEF GivesTime
<1> QED   BY <1>2, <1>3

\* PerformSegmentSwap counts the seam from the tick of the swap.
LEMMA SwapSeamGivesTime ==
  ASSUME NEW k \in DOMAIN Plan, NEW s \in DOMAIN Plan[k], NEW fence \in Nat
  PROVE  GivesTime(Enforce(SwapSeam(k, s, fence), k, s, fence), k, s)
<1>1. Frames(k, s) \in Nat /\ Frames(k, s) > 0
  BY HasFrames
<1>2. GivesTime(SwapSeam(k, s, fence), k, s)
  BY <1>1 DEF GivesTime, SwapSeam, Rebase, EndsBlock, LowerMin
<1>3. SwapSeam(k, s, fence).in = 0 => fence = 0
  BY <1>1 DEF SwapSeam, Rebase, LowerMin
<1> QED   BY <1>2, <1>3, EnforceGivesTime

-----------------------------------------------------------------------------
(* The steps.                                                              *)

LEMMA InitInv == Init => IInv
<1> SUFFICES ASSUME Init PROVE IInv
  OBVIOUS
<1>1. 1 \in DOMAIN Plan /\ 1 \in DOMAIN Plan[1]
  BY FirstOfBlock, SeamAssumption
<1>2. fenceIn \in Nat /\ seamIn = FirstSeam(1, fenceIn).in /\ seamType = FirstSeam(1, fenceIn).type
  BY DEF Init
<1>3. GivesTime(FirstSeam(1, fenceIn), 1, 1)
  BY <1>1, <1>2, FirstSeamGivesTime
<1>4. Frames(1, 1) \in Nat
  BY <1>1, HasFrames
<1>5. b = NoB /\ tick = NoTick /\ a.of = <<1, 1>> /\ "of" \in DOMAIN a
  BY DEF Init, Buffer
<1>6. /\ pc = "sample" /\ blk = 1 /\ seg = 1 /\ age = 0 /\ next = "no"
  BY DEF Init
<1>7. {"of", "file"} \subseteq DOMAIN b /\ {"take", "source"} \subseteq DOMAIN tick
  BY <1>5 DEF NoB, NoTick
<1>8. Typed
  BY <1>1, <1>2, <1>3, <1>5, <1>6, <1>7 DEF Typed, GivesTime
<1>9. SeamInv
  BY <1>2, <1>3, <1>4, <1>6 DEF SeamInv, GivesTime
<1> QED   BY <1>5, <1>6, <1>8, <1>9 DEF IInv, PhaseInv, IncomingInv, RightSegment, HasB

\* Only a result that was made for the next segment becomes the incoming buffer.
LEMMA EnsureInv ==
  ASSUME IInv, DueNow("segment"), Ensure(seg + 1)
  PROVE  /\ {"of", "file"} \subseteq DOMAIN b'
         /\ b' # NoB => b'.of = <<blk, seg + 1>> /\ ~IsPad(blk, seg + 1)
<1>1. CASE HasB \/ IsPad(blk, seg + 1) \/ ~IsFor(seg + 1)
  BY <1>1 DEF Ensure, IInv, Typed, RightSegment, IncomingInv, HasB
<1>2. CASE ~(HasB \/ IsPad(blk, seg + 1) \/ ~IsFor(seg + 1))
  BY <1>2 DEF Ensure, IsFor
<1> QED   BY <1>1, <1>2

\* A block goes live with a buffer of its own and a seam that gives it its time.
LEMMA ActivateInv ==
  ASSUME IInv, b = NoB, blk < Len(Plan), NEW buffer,
         "of" \in DOMAIN buffer, buffer.of = <<blk + 1, 1>>, Activate(blk + 1, buffer)
  PROVE  IInv'
<1>1. blk + 1 \in DOMAIN Plan /\ 1 \in DOMAIN Plan[blk + 1]
  <2>1. blk + 1 \in 1..Len(Plan)
    BY SeamAssumption DEF IInv, Typed
  <2> QED   BY <2>1, FirstOfBlock
<1>2. PICK fence \in 0..EndOf(blk + 1) + Lead :
             SetSeam(Enforce(FirstSeam(blk + 1, fence), blk + 1, 1, fence), fence)
  BY DEF Activate
<1>3. fence \in Nat
  BY <1>2
<1>4. GivesTime(FirstSeam(blk + 1, fence), blk + 1, 1)
  BY <1>1, <1>3, FirstSeamGivesTime
<1>5. FirstSeam(blk + 1, fence).in = 0 => fence = 0
  BY <1>1, HasFrames DEF FirstSeam
<1>6. GivesTime(Enforce(FirstSeam(blk + 1, fence), blk + 1, 1, fence), blk + 1, 1)
  BY <1>1, <1>3, <1>4, <1>5, EnforceGivesTime
<1>7. GivesTime([type |-> seamType', in |-> seamIn'], blk + 1, 1) /\ fenceIn' = fence
  BY <1>2, <1>6 DEF SetSeam, GivesTime
<1>8. Frames(blk + 1, 1) \in Nat
  BY <1>1, HasFrames
<1>9. /\ blk' = blk + 1 /\ seg' = 1 /\ age' = 0 /\ a' = buffer /\ next' = "no" /\ pc' = "end"
      /\ b' = NoB /\ tick' = tick
  BY DEF Activate
<1>10. Typed'
  BY <1>1, <1>3, <1>7, <1>9 DEF IInv, Typed, GivesTime
<1>11. SeamInv'
  BY <1>7, <1>8, <1>9 DEF SeamInv, GivesTime, IsLast, Frames, Segments
<1>12. PhaseInv' /\ IncomingInv' /\ RightSegment'
  BY <1>9 DEF PhaseInv, IncomingInv, RightSegment, HasB
<1> QED   BY <1>10, <1>11, <1>12 DEF IInv
\* The choice of the frame leaves the place, the seam and whose frames the buffers
\* hold as they are, and goes on to the step that the seam asks for.
LEMMA ShowInv ==
  ASSUME IInv, pc = "show",
         NEW decision, NEW shown, NEW origin, Show(decision, shown, origin),
         a' = a \/ \E n : a' = [a EXCEPT !.depth = n],
         b' = b \/ (HasB /\ \E n : b' = [b EXCEPT !.depth = n])
  PROVE  IInv'
<1>1. /\ UNCHANGED <<blk, seg, age, seamType, seamIn, fenceIn, next>>
      /\ pc' = IF tick.take = "segment" THEN "ensure" ELSE IF tick.take = "block" THEN "rotate" ELSE "end"
      /\ {"take", "source"} \subseteq DOMAIN tick'
  BY DEF Show, blkVars, seamVars, IInv, Typed
<1>2. a'.of = a.of /\ "of" \in DOMAIN a'
  BY DEF IInv, Typed
<1>3. b'.of = b.of /\ {"of", "file"} \subseteq DOMAIN b' /\ (HasB' => HasB)
  BY DEF IInv, Typed, HasB
<1>4. Typed'
  BY <1>1, <1>2, <1>3 DEF IInv, Typed
<1>5. PhaseInv'
  BY <1>1 DEF IInv, PhaseInv, DueNow
<1>6. SeamInv'
  BY <1>1 DEF IInv, SeamInv, IsLast, Frames, Segments
<1>7. IncomingInv' /\ RightSegment'
  BY <1>1, <1>2, <1>3 DEF IInv, IncomingInv, RightSegment, IsPad, Segments, HasB
<1> QED   BY <1>4, <1>5, <1>6, <1>7 DEF IInv

LEMMA Shows ==
  ASSUME IInv,
         \/ ShowPadSeam \/ ShowOverride \/ ShowRepeat \/ ShowA \/ ShowB
         \/ ShowPreview \/ ShowNoPreview \/ ShowSeamHold \/ ShowBlack
  PROVE  IInv'
<1>1. CASE ShowPadSeam
  BY <1>1, ShowInv DEF ShowPadSeam
<1>2. CASE ShowOverride
  <2>1. HasB
    BY <1>2 DEF ShowOverride, Overrides, HasB, NoB
  <2> QED   BY <1>2, <2>1, ShowInv DEF ShowOverride
<1>3. CASE ShowRepeat
  BY <1>3, ShowInv DEF ShowRepeat, Cascade, ShowGood, ShowPad
<1>4. CASE ShowA
  BY <1>4, ShowInv DEF ShowA, Advances, Cascade
<1>5. CASE ShowB
  <2>1. HasB
    BY <1>5 DEF ShowB, Advances, Cascade, IInv, PhaseInv
  <2> QED   BY <1>5, <2>1, ShowInv DEF ShowB, Advances, Cascade
<1>6. CASE ShowPreview
  BY <1>6, ShowInv DEF ShowPreview, Advances, Cascade
<1>7. CASE ShowNoPreview
  BY <1>7, ShowInv DEF ShowNoPreview, Advances, Cascade, ShowPad
<1>8. CASE ShowSeamHold
  BY <1>8, ShowInv DEF ShowSeamHold, Advances, Cascade, ShowPad, ShowGood
<1>9. CASE ShowBlack
  BY <1>9, ShowInv DEF ShowBlack, Advances, Cascade, ShowPad
<1> QED   BY <1>1, <1>2, <1>3, <1>4, <1>5, <1>6, <1>7, <1>8, <1>9

\* What has been found due stays due until the tick is over.
LEMMA SampleInv == ASSUME IInv, Sample PROVE IInv'
<1>1. /\ pc' = "show" /\ UNCHANGED <<blk, seg, age, seamType, seamIn, fenceIn, next, a>>
  BY DEF Sample, blkVars, seamVars
<1>2. /\ tick'.take = Due /\ {"take", "source"} \subseteq DOMAIN tick'
      /\ tick'.source = "B" => Due = "segment" /\ HasB
  BY DEF Sample, NoTick
<1>3. Due \in {"none", "segment", "block"} /\ (Due # "none" => DueNow(Due))
  BY DEF Due, DueNow, IInv, Typed
<1>4. /\ {"of", "file"} \subseteq DOMAIN b'
      /\ HasB => HasB'
      /\ HasB' => b'.of = <<blk, seg + 1>> /\ ~IsPad(blk, seg + 1) /\ seamType = "segment"
  <2>1. CASE UNCHANGED <<b, slot>>
    BY <2>1 DEF IInv, Typed, RightSegment, IncomingInv, HasB
  <2>2. CASE Due = "segment" /\ Ensure(seg + 1)
    <3>1. DueNow("segment")
      BY <1>3, <2>2
    <3>2. HasB => b' = b
      BY <2>2 DEF Ensure
    <3> QED   BY <2>2, <3>1, <3>2, EnsureInv DEF HasB, DueNow
  <2> QED   BY <2>1, <2>2 DEF Sample
<1>5. Typed'
  BY <1>1, <1>2, <1>4 DEF IInv, Typed
<1>6. PhaseInv'
  BY <1>1, <1>2, <1>3, <1>4 DEF PhaseInv, DueNow
<1>7. SeamInv' /\ IncomingInv' /\ RightSegment'
  BY <1>1, <1>4 DEF IInv, SeamInv, IncomingInv, RightSegment, IsLast, Frames, IsPad, Segments, HasB
<1> QED   BY <1>5, <1>6, <1>7 DEF IInv

LEMMA MakeBInv == ASSUME IInv, MakeB PROVE IInv'
<1>1. /\ pc' = "swap" /\ UNCHANGED <<blk, seg, age, seamType, seamIn, fenceIn, next, a, tick>>
      /\ DueNow("segment")
  BY DEF MakeB, blkVars, seamVars, IInv, PhaseInv
<1>2. /\ {"of", "file"} \subseteq DOMAIN b'
      /\ HasB' => b'.of = <<blk, seg + 1>> /\ ~IsPad(blk, seg + 1)
  BY <1>1, EnsureInv DEF MakeB, HasB
<1> QED   BY <1>1, <1>2 DEF IInv, Typed, PhaseInv, DueNow, SeamInv, IncomingInv, RightSegment,
            IsLast, Frames, IsPad, Segments, HasB

\* The incoming segment becomes the live one, with a seam that gives it its time.
LEMMA SwapInv == ASSUME IInv, Swap PROVE IInv'
<1>1. seamType = "segment" /\ ~IsLast(blk, seg)
  BY DEF Swap, IInv, PhaseInv, SeamInv, DueNow
<1>2. seg + 1 \in DOMAIN Plan[blk]
  BY <1>1, Successor DEF IInv, Typed
<1>3. blk \in DOMAIN Plan /\ fenceIn \in Nat
  BY DEF IInv, Typed
<1>4. Frames(blk, seg + 1) \in Nat
  BY <1>2, <1>3, HasFrames
<1>5. GivesTime(Enforce(SwapSeam(blk, seg + 1, fenceIn), blk, seg + 1, fenceIn), blk, seg + 1)
  BY <1>2, <1>3, SwapSeamGivesTime
<1>6. /\ GivesTime([type |-> seamType', in |-> seamIn'], blk, seg + 1) /\ fenceIn' = fenceIn
  BY <1>5 DEF Swap, SetSeam, GivesTime
<1>7. /\ blk' = blk /\ seg' = seg + 1 /\ age' = 0 /\ next' = next /\ pc' = "end"
      /\ {"take", "source"} \subseteq DOMAIN tick'
  BY DEF Swap, IInv, Typed
<1>8. a'.of = <<blk, seg + 1>> /\ "of" \in DOMAIN a'
  <2>1. CASE IsPad(blk, seg + 1)
    BY <2>1 DEF Swap, Buffer
  <2>2. CASE ~IsPad(blk, seg + 1)
    BY <2>2 DEF Swap, Commits, HasIncoming, IInv, RightSegment
  <2> QED   BY <2>1, <2>2
<1>9. b' = NoB
  BY DEF Swap, IInv, IncomingInv, HasB
<1>10. Typed'
  BY <1>2, <1>3, <1>6, <1>7, <1>8, <1>9 DEF IInv, Typed, GivesTime, NoB
<1>11. SeamInv'
  BY <1>4, <1>6, <1>7 DEF SeamInv, GivesTime, IsLast, Frames, Segments
<1>12. PhaseInv' /\ IncomingInv' /\ RightSegment'
  BY <1>7, <1>8, <1>9 DEF PhaseInv, IncomingInv, RightSegment, HasB
<1> QED   BY <1>10, <1>11, <1>12 DEF IInv

LEMMA BlockEndInv == ASSUME IInv, Rotate \/ EnterGap \/ LeaveGap PROVE IInv'
<1>1. CASE Rotate
  <2>1. b = NoB /\ blk < Len(Plan)
    BY <1>1 DEF Rotate, IInv, PhaseInv, DueNow, RightSegment, HasB
  <2>2. PICK buffer : "of" \in DOMAIN buffer /\ buffer.of = <<blk + 1, 1>> /\ Activate(blk + 1, buffer)
    BY <1>1 DEF Rotate, Buffer
  <2> QED   BY <2>1, <2>2, ActivateInv
<1>2. CASE LeaveGap
  <2>1. b = NoB /\ blk < Len(Plan)
    BY <1>2 DEF LeaveGap, IInv, Typed, RightSegment, HasB
  <2>2. PICK buffer : "of" \in DOMAIN buffer /\ buffer.of = <<blk + 1, 1>> /\ Activate(blk + 1, buffer)
    BY <1>2 DEF LeaveGap, Buffer
  <2> QED   BY <2>1, <2>2, ActivateInv
<1>3. CASE EnterGap
  <2>1. b = NoB
    BY <1>3 DEF EnterGap, IInv, PhaseInv, DueNow, RightSegment, HasB
  <2>2. UNCHANGED <<blk, seg, age, b, tick, next>> /\ pc' = "end" /\ seamType' = "none"
        /\ seamIn' = 0 /\ fenceIn' = 0 /\ "of" \in DOMAIN a'
    BY <1>3 DEF EnterGap, blkVars
  <2> QED   BY <2>1, <2>2 DEF IInv, Typed, PhaseInv, SeamInv, IncomingInv, RightSegment, HasB
<1> QED   BY <1>1, <1>2, <1>3

\* The frames a segment has had and those before its seam add up from tick to tick.
LEMMA EndTickInv == ASSUME IInv, EndTick PROVE IInv'
<1>1. /\ pc' = "sample" /\ tick' = NoTick
      /\ seamIn' = LessOne(seamIn) /\ fenceIn' = LessOne(fenceIn)
      /\ age' = LowerMin(age + 1, Frames(blk, seg))
      /\ UNCHANGED <<blk, seg, seamType, a, b, next>>
  BY DEF EndTick
<1>2. Frames(blk, seg) \in Nat
  BY HasFrames DEF IInv, Typed
<1>3. seamIn' \in Nat /\ fenceIn' \in Nat /\ age' \in Nat
  BY <1>1, <1>2 DEF LessOne, LowerMin, IInv, Typed
<1>4. age + seamIn >= Frames(blk, seg) => age' + seamIn' >= Frames(blk, seg)
  BY <1>1, <1>2 DEF LessOne, LowerMin, IInv, Typed
<1>5. Typed' /\ PhaseInv'
  BY <1>1, <1>3 DEF IInv, Typed, PhaseInv, NoTick
<1>6. SeamInv'
  BY <1>1, <1>4 DEF IInv, SeamInv, IsLast, Frames, Segments
<1>7. IncomingInv' /\ RightSegment'
  BY <1>1 DEF IInv, IncomingInv, RightSegment, IsPad, Segments, HasB
<1> QED   BY <1>5, <1>6, <1>7 DEF IInv

\* The other threads, and the steps of a tick that change nothing here.
LEMMA OthersInv ==
  ASSUME IInv,
         \/ WorkerTake \/ WorkerDone \/ FillA \/ FillB \/ NextBlockReady \/ FillNext
         \/ StopSession \/ Defer \/ Wait \/ UNCHANGED vars
  PROVE  IInv'
<1>1. /\ UNCHANGED <<blk, seg, age, seamType, seamIn, fenceIn>>
      /\ pc' = pc \/ pc' \in {"end", "stopped"}
      /\ tick' = tick \/ (pc' = "stopped" /\ tick' = NoTick)
      /\ next' = next \/ blk < Len(Plan)
  <2>1. CASE WorkerTake \/ WorkerDone \/ FillA \/ FillB
    BY <2>1 DEF WorkerTake, WorkerDone, FillA, FillB, blkVars, seamVars
  <2>2. CASE NextBlockReady \/ FillNext
    BY <2>2 DEF NextBlockReady, FillNext, blkVars, seamVars, IInv, Typed
  <2>3. CASE StopSession \/ Defer \/ Wait \/ UNCHANGED vars
    BY <2>3 DEF StopSession, Defer, Wait, vars, blkVars, seamVars
  <2> QED   BY <2>1, <2>2, <2>3
<1>2. a'.of = a.of /\ "of" \in DOMAIN a'
  BY DEF WorkerTake, WorkerDone, FillA, FillB, NextBlockReady, FillNext, StopSession, Defer, Wait, vars, IInv, Typed
<1>3. \/ b' = b
      \/ HasB /\ HasB' /\ b'.of = b.of /\ {"of", "file"} \subseteq DOMAIN b'
  <2>1. CASE FillB
    <3>1. PICK m, sound : b' = [b EXCEPT !.depth = m, !.sound = sound]
      BY <2>1 DEF FillB
    <3>2. b'.of = b.of /\ b'.file = b.file /\ {"of", "file"} \subseteq DOMAIN b'
      BY <3>1 DEF IInv, Typed
    <3>3. HasB /\ b.file # "bad" /\ NoB.file = "bad"
      BY <2>1 DEF FillB, NoB
    <3> QED   BY <3>2, <3>3 DEF HasB
  <2>2. CASE ~FillB
    BY <2>2 DEF WorkerTake, WorkerDone, FillA, NextBlockReady, FillNext, StopSession, Defer, Wait, vars
  <2> QED   BY <2>1, <2>2
<1> QED   BY <1>1, <1>2, <1>3 DEF IInv, Typed, PhaseInv, SeamInv, IncomingInv, RightSegment, DueNow,
            IsLast, Frames, IsPad, Segments, HasB, NoTick
\* Every step of the code keeps the invariant.
LEMMA NextInv == IInv /\ [Next]_vars => IInv'
<1> SUFFICES ASSUME IInv, [Next]_vars PROVE IInv'
  OBVIOUS
<1>1. CASE \/ Worker \/ FillA \/ FillB \/ NextBlockReady \/ FillNext
           \/ StopSession \/ Defer \/ Wait \/ UNCHANGED vars
  BY <1>1, OthersInv DEF Worker
<1>2. CASE Tick /\ ~(StopSession \/ Defer \/ Wait)
  BY <1>2, SampleInv, Shows, MakeBInv, SwapInv, BlockEndInv, EndTickInv DEF Tick
<1> QED   BY <1>1, <1>2 DEF Next

THEOREM Invariant == Spec => []IInv
BY InitInv, NextInv, PTL DEF Spec

\* The buffers hold frames of the right segments, whatever results the worker
\* stores, in whatever order and however late.
THEOREM RightSegments == Spec => []RightSegment
<1>1. IInv => RightSegment
  BY DEF IInv
<1> QED   BY <1>1, Invariant, PTL

\* No segment is replaced within its block before it has had its frames: the
\* rebase of PerformSegmentSwap, for any plan, fence and delay.
THEOREM FullTime == Spec => FullDwell
<1>1. ASSUME IInv, [Next]_vars, blk' = blk, seg' # seg
      PROVE  age >= Frames(blk, seg)
  <2>1. CASE Swap
    BY <1>1, <2>1 DEF Swap, IInv, Typed, PhaseInv, SeamInv, DueNow
  <2>2. CASE \E buffer : Activate(blk + 1, buffer)
    BY <1>1, <2>2, SeamAssumption DEF Activate, IInv, Typed
  <2>3. CASE Rotate \/ LeaveGap
    BY <2>2, <2>3 DEF Rotate, LeaveGap
  <2>4. CASE Tick /\ ~(Swap \/ Rotate \/ LeaveGap)
    BY <1>1, <2>4 DEF Tick, Sample, ShowPadSeam, ShowOverride, ShowRepeat, ShowA, ShowB, ShowPreview,
       ShowNoPreview, ShowSeamHold, ShowBlack, ShowPad, ShowGood, Show, StopSession, MakeB, Defer,
       EnterGap, Wait, EndTick, blkVars
  <2>5. CASE ~Tick
    BY <1>1, <2>5 DEF Next, Worker, WorkerTake, WorkerDone, FillA, FillB, NextBlockReady, FillNext, vars,
       blkVars
  <2> QED   BY <2>1, <2>3, <2>4, <2>5
<1>2. IInv /\ [Next]_vars => [blk' = blk /\ seg' # seg => age >= Frames(blk, seg)]_vars
  BY <1>1
<1> QED   BY <1>2, Invariant, PTL DEF Spec, FullDwell
(***************************************************************************)
(* The decisions of a tick.  B has enough sound only with three frames in  *)
(* it (SoundInv), so that it still passes the gate after the pop; what was *)
(* chosen is what the gates see (ChoiceInv, GateInv); and a frame that is  *)
(* shown again is never of a segment that is still to come (LastInv).      *)
(***************************************************************************)

\* A frame has been taken from the incoming buffer.
Overridden == tick.override /\ tick.decision = "content"
Popped     == Overridden \/ tick.source = "B"

TickTyped ==
  /\ {"take", "source", "pad", "override", "decision", "origin", "shown"} \subseteq DOMAIN tick
  /\ {"of", "depth", "alive"} \subseteq DOMAIN a
  /\ {"of", "file", "depth", "sound"} \subseteq DOMAIN b
  /\ b.depth \in Int /\ b.sound \in BOOLEAN /\ (b.sound => HasB)
  /\ lastGood \in Int \X Int
  /\ seamType = "none" => a.of = Nobody

SoundInv == b.sound => b.depth >= 3 \/ (pc \in {"ensure", "swap"} /\ Popped)

ChoiceInv ==
  pc = "show" => /\ tick.source = "B" => tick.take = "segment" /\ b.sound /\ b.depth >= 3
                 /\ tick.source = "P" => tick.take = "block"
                 /\ tick.pad => tick.take = "segment" /\ IsPad(blk, seg + 1)
                 /\ tick.override => tick.take = "segment" /\ HasB /\ IsPad(blk, seg)

GateInv ==
  pc \in {"ensure", "swap"} =>
    /\ tick.pad => IsPad(blk, seg + 1) /\ tick.decision = "pad"
    /\ tick.override => HasB
    /\ tick.source = "B" => \/ Overridden
                            \/ HasB /\ b.sound /\ b.depth >= 2 /\ tick.origin = seg + 1
    /\ tick.shown = <<blk, seg + 1>> => Popped

NotAhead(x) == x[1] < blk \/ (x[1] = blk /\ x[2] <= seg)
LastInv ==
  \/ NotAhead(lastGood)
  \/ pc \in {"ensure", "swap"} /\ Popped /\ lastGood = <<blk, seg + 1>>
  \/ pc = "rotate" /\ tick.decision = "next" /\ lastGood = <<blk + 1, 1>>

CInv == TickTyped /\ SoundInv /\ ChoiceInv /\ GateInv /\ LastInv
LEMMA InitDecisions == Init => CInv
<1> SUFFICES ASSUME Init PROVE CInv
  OBVIOUS
<1>1. /\ b = NoB /\ tick = NoTick /\ pc = "sample" /\ lastGood = <<0, 0>> /\ blk = 1
      /\ seamType \in {"segment", "block"}
  BY DEF Init, Nobody, FirstSeam
<1>2. TickTyped
  <2>1. {"of", "depth", "alive"} \subseteq DOMAIN a
    BY DEF Init, Buffer
  <2> QED   BY <1>1, <2>1 DEF TickTyped, NoB, NoTick
<1> QED   BY <1>1, <1>2 DEF CInv, SoundInv, ChoiceInv, GateInv, LastInv, NotAhead, NoB

\* A frame of the incoming segment, or the black of a pad, has its swap: no gate
\* stands in the way of what the choice of the frame has decided.
LEMMA ChosenCommits ==
  ASSUME IInv, CInv, pc = "swap", Popped \/ tick.pad
  PROVE  Commits
<1>1. CASE tick.pad
  BY <1>1 DEF Commits, HasIncoming, Forced, ForcedByPad, CInv, GateInv
<1>2. CASE Overridden
  BY <1>2 DEF Overridden, Commits, HasIncoming, Forced, ForcedByOverride, CInv, GateInv
<1>3. CASE tick.source = "B" /\ ~Overridden
  <2>1. HasB /\ b.sound /\ b.depth >= 2 /\ tick.origin = seg + 1
    BY <1>3 DEF CInv, GateInv
  <2>2. seg \in Int
    BY SeamAssumption DEF IInv, Typed
  <2> QED   BY <2>1, <2>2 DEF Commits, HasIncoming, Eligible, OriginGate
<1> QED   BY <1>1, <1>2, <1>3 DEF Popped

\* The choice of a frame that is not taken from the incoming buffer.
LEMMA ShownFromElsewhere ==
  ASSUME IInv, CInv, pc = "show", tick.source # "B", b' = b,
         NEW decision, NEW shown, NEW origin, Show(decision, shown, origin),
         a' = a \/ \E n : a' = [a EXCEPT !.depth = n], lastGood' \in Int \X Int, NotAhead(shown),
         tick.pad => decision = "pad",
         NotAhead(lastGood') \/ (tick.take = "block" /\ decision = "next" /\ lastGood' = <<blk + 1, 1>>)
  PROVE  CInv'
<1>1. /\ UNCHANGED <<blk, seg, seamType, b>>
      /\ pc' = IF tick.take = "segment" THEN "ensure" ELSE IF tick.take = "block" THEN "rotate" ELSE "end"
      /\ tick' = [tick EXCEPT !.decision = decision, !.shown = shown, !.origin = origin]
  BY DEF Show, blkVars, seamVars
<1>2. /\ tick'.take = tick.take /\ tick'.source = tick.source /\ tick'.pad = tick.pad
      /\ tick'.override = tick.override /\ tick'.decision = decision /\ tick'.shown = shown
      /\ DOMAIN tick' = DOMAIN tick
  BY <1>1 DEF CInv, TickTyped
<1>3. blk \in Int /\ seg \in Int
  BY SeamAssumption DEF IInv, Typed
<1>4. TickTyped'
  BY <1>1, <1>2 DEF CInv, TickTyped, HasB
<1>5. SoundInv' /\ ChoiceInv'
  BY <1>1 DEF CInv, SoundInv, ChoiceInv
<1>6. GateInv'
  BY <1>1, <1>2, <1>3 DEF CInv, ChoiceInv, GateInv, HasB, IsPad, Segments, NotAhead
<1>7. LastInv'
  BY <1>1, <1>2 DEF LastInv, NotAhead
<1> QED   BY <1>4, <1>5, <1>6, <1>7 DEF CInv

\* The next block's first frame, at the fence.
LEMMA ShownAtFence ==
  ASSUME IInv, CInv, pc = "show", tick.take = "block", UNCHANGED <<a, b>>,
         Show("next", <<blk + 1, 1>>, -2), lastGood' = <<blk + 1, 1>>
  PROVE  CInv'
<1>1. /\ UNCHANGED <<blk, seg, seamType, a, b>> /\ pc' = "rotate"
      /\ tick' = [tick EXCEPT !.decision = "next", !.shown = <<blk + 1, 1>>, !.origin = -2]
  BY DEF Show, blkVars, seamVars
<1>2. DOMAIN tick' = DOMAIN tick /\ tick'.decision = "next"
  BY <1>1 DEF CInv, TickTyped
<1>3. blk \in Int
  BY SeamAssumption DEF IInv, Typed
<1> QED   BY <1>1, <1>2, <1>3 DEF CInv, TickTyped, SoundInv, ChoiceInv, GateInv, LastInv, HasB,
            IsPad, Segments

LEMMA PlacesAreNumbers ==
  ASSUME IInv
  PROVE  blk \in Int /\ seg \in Int /\ blk > 0 /\ NotAhead(<<blk, seg>>) /\ NotAhead(Nobody)
BY SeamAssumption DEF IInv, Typed, NotAhead, Nobody

LEMMA ShowsDecide ==
  ASSUME IInv, CInv,
         \/ ShowPadSeam \/ ShowRepeat \/ ShowA
         \/ ShowPreview \/ ShowNoPreview \/ ShowSeamHold \/ ShowBlack
  PROVE  CInv'
<1>1. /\ pc = "show" /\ lastGood \in Int \X Int /\ NotAhead(lastGood)
  BY DEF CInv, TickTyped, LastInv, ShowPadSeam, ShowRepeat, ShowA, ShowPreview, ShowNoPreview,
         ShowSeamHold, ShowBlack, Advances, Cascade
<1>2. NotAhead(<<blk, seg>>) /\ NotAhead(Nobody)
  BY PlacesAreNumbers
<1>3. CASE ShowPadSeam
  <2>1. tick.source # "B"
    BY <1>1, <1>3 DEF ShowPadSeam, CInv, ChoiceInv, TickTyped, IInv, IncomingInv
  <2> QED   BY <1>1, <1>2, <1>3, <2>1, ShownFromElsewhere DEF ShowPadSeam
<1>4. CASE ShowRepeat
  BY <1>1, <1>2, <1>4, ShownFromElsewhere DEF ShowRepeat, Cascade, MayRepeat, ShowGood, ShowPad
<1>5. CASE ShowA
  <2>1. NotAhead(a.of) /\ a.of \in Int \X Int
    BY <1>2, PlacesAreNumbers DEF IInv, RightSegment, CInv, TickTyped, Nobody
  <2> QED   BY <1>1, <1>5, <2>1, ShownFromElsewhere DEF ShowA, Advances, Cascade
<1>6. CASE ShowPreview
  <2>1. tick.take = "block" /\ ~tick.pad /\ tick.source = "P"
    BY <1>6 DEF ShowPreview, Advances, Cascade, CInv, ChoiceInv
  <2>2. Show("next", <<blk + 1, 1>>, -2) /\ lastGood' = <<blk + 1, 1>> /\ UNCHANGED <<a, b>>
    BY <1>6 DEF ShowPreview
  <2> QED   BY <1>1, <1>2, <2>1, <2>2, PlacesAreNumbers, ShownAtFence
<1>7. CASE ShowNoPreview
  BY <1>1, <1>2, <1>7, ShownFromElsewhere, Zenon DEF ShowNoPreview, Advances, Cascade, ShowPad
<1>8. CASE ShowSeamHold
  BY <1>1, <1>2, <1>8, ShownFromElsewhere DEF ShowSeamHold, Advances, Cascade, ShowPad, ShowGood
<1>9. CASE ShowBlack
  BY <1>1, <1>2, <1>9, ShownFromElsewhere DEF ShowBlack, Advances, Cascade, Underflow, ShowPad
<1> QED   BY <1>3, <1>4, <1>5, <1>6, <1>7, <1>8, <1>9
\* A pop from the incoming buffer is followed by the swap.
LEMMA ShownFromB ==
  ASSUME IInv, CInv, pc = "show", HasB, tick.take = "segment", ~tick.pad, a' = a,
         b' = [b EXCEPT !.depth = @ - 1], lastGood' = b.of,
         \/ tick.override
         \/ tick.source = "B" /\ ~tick.override,
         NEW origin, origin = seg + 1, Show("content", b.of, origin)
  PROVE  CInv'
<1>1. /\ UNCHANGED <<blk, seg, seamType, a>> /\ pc' = "ensure"
      /\ tick' = [tick EXCEPT !.decision = "content", !.shown = b.of, !.origin = origin]
  BY DEF Show, blkVars, seamVars
<1>2. /\ tick'.source = tick.source /\ tick'.pad = tick.pad /\ tick'.override = tick.override
      /\ tick'.decision = "content" /\ tick'.origin = seg + 1 /\ DOMAIN tick' = DOMAIN tick
  BY <1>1 DEF CInv, TickTyped
<1>3. b.of = <<blk, seg + 1>> /\ blk \in Int /\ seg \in Int
  BY PlacesAreNumbers DEF IInv, RightSegment
<1>4. /\ b'.of = b.of /\ b'.sound = b.sound /\ b'.depth = b.depth - 1 /\ DOMAIN b' = DOMAIN b
  BY DEF CInv, TickTyped
<1>5. HasB'
  BY <1>3, <1>4, PlacesAreNumbers DEF HasB, NoB, Nobody
<1>6. TickTyped'
  BY <1>1, <1>2, <1>3, <1>4, <1>5 DEF CInv, TickTyped, IsPad, Segments
<1>7. Popped'
  BY <1>2 DEF Popped, Overridden
<1>8. SoundInv' /\ ChoiceInv' /\ LastInv'
  BY <1>1, <1>3, <1>7 DEF SoundInv, ChoiceInv, LastInv
<1>9. tick'.source = "B" => Overridden' \/ (b'.sound /\ b'.depth >= 2)
  BY <1>2, <1>4 DEF CInv, ChoiceInv, TickTyped, Overridden
<1>10. GateInv'
  BY <1>1, <1>2, <1>5, <1>7, <1>9 DEF GateInv
<1> QED   BY <1>6, <1>8, <1>10 DEF CInv

LEMMA ShowsOfB == ASSUME IInv, CInv, ShowOverride \/ ShowB PROVE CInv'
<1>1. CASE ShowOverride
  <2>1. HasB /\ tick.override /\ tick.take = "segment" /\ pc = "show" /\ ~tick.pad
    BY <1>1 DEF ShowOverride, Overrides, CInv, ChoiceInv
  <2> QED   BY <1>1, <2>1, ShownFromB DEF ShowOverride
<1>2. CASE ShowB
  <2>1. HasB /\ tick.source = "B" /\ tick.take = "segment" /\ pc = "show" /\ ~tick.pad
    BY <1>2 DEF ShowB, Advances, Cascade, CInv, ChoiceInv, TickTyped
  <2>2. b.of[2] = seg + 1
    BY <2>1 DEF IInv, RightSegment
  <2> QED   BY <1>2, <2>1, <2>2, ShownFromB DEF ShowB
<1> QED   BY <1>1, <1>2

LEMMA SampleDecides == ASSUME IInv, CInv, Sample PROVE CInv'
<1> DEFINE pad     == Due = "segment" /\ IsPad(blk, seg + 1)
           fromPad == Due = "segment" /\ ~pad /\ IsPad(blk, seg) /\ a.depth = 0
<1>1. /\ pc = "sample" /\ pc' = "show" /\ UNCHANGED <<blk, seg, seamType, a, lastGood>>
  BY DEF Sample, blkVars, seamVars, showVars
<1>2. /\ {"take", "source", "pad", "override", "decision", "origin", "shown"} \subseteq DOMAIN tick'
      /\ tick'.take = Due /\ tick'.pad = pad /\ tick'.override = (fromPad /\ b' # NoB)
      /\ tick'.source = "B" => Due = "segment" /\ HasB /\ Eligible(seg + 1)
      /\ tick'.source = "P" => Due = "block"
  BY DEF Sample, NoTick
<1>3. b' = b \/ (~HasB /\ HasB' /\ {"of", "file", "depth", "sound"} \subseteq DOMAIN b'
                 /\ b'.depth \in Int /\ b'.sound = FALSE)
  <2>1. CASE UNCHANGED <<b, slot>>
    BY <2>1
  <2>2. CASE Due = "segment" /\ Ensure(seg + 1) /\ ~UNCHANGED <<b, slot>>
    <3>1. b' = [of |-> <<blk, seg + 1>>, depth |-> IF slot.file = "bad" THEN 0 ELSE 1, sound |-> FALSE,
                file |-> slot.file] /\ ~HasB
      BY <2>2 DEF Ensure, IsFor
    <3> QED   BY <3>1, PlacesAreNumbers DEF HasB, NoB, Nobody
  <2> QED   BY <2>1, <2>2 DEF Sample
<1>4. b.sound => b.depth >= 3
  BY <1>1 DEF CInv, SoundInv
<1>5. TickTyped'
  BY <1>1, <1>2, <1>3 DEF CInv, TickTyped, HasB
<1>6. SoundInv'
  BY <1>3, <1>4 DEF SoundInv
<1>7. tick'.source = "B" => b'.sound /\ b'.depth >= 3
  BY <1>2, <1>3, <1>4 DEF Eligible, IInv, IncomingInv
<1>9. ChoiceInv'
  BY <1>1, <1>2, <1>7 DEF ChoiceInv, IsPad, Segments, HasB
<1>10. GateInv' /\ LastInv'
  BY <1>1 DEF CInv, GateInv, LastInv, NotAhead, IsPad, Segments
<1> QED   BY <1>5, <1>6, <1>9, <1>10 DEF CInv

LEMMA MakeBDecides == ASSUME IInv, CInv, MakeB PROVE CInv'
<1>1. /\ pc = "ensure" /\ pc' = "swap" /\ UNCHANGED <<blk, seg, seamType, a, tick, lastGood>>
  BY DEF MakeB, blkVars, seamVars, showVars
<1>2. b' = b \/ (~HasB /\ HasB' /\ {"of", "file", "depth", "sound"} \subseteq DOMAIN b'
                 /\ b'.depth \in Int /\ b'.sound = FALSE)
  <2>1. CASE UNCHANGED <<b, slot>>
    BY <2>1
  <2>2. CASE ~UNCHANGED <<b, slot>>
    <3>1. b' = [of |-> <<blk, seg + 1>>, depth |-> IF slot.file = "bad" THEN 0 ELSE 1, sound |-> FALSE,
                file |-> slot.file] /\ ~HasB
      BY <2>2 DEF MakeB, Ensure, IsFor
    <3> QED   BY <3>1, PlacesAreNumbers DEF HasB, NoB, Nobody
  <2> QED   BY <2>1, <2>2
<1>3. TickTyped'
  BY <1>1, <1>2 DEF CInv, TickTyped, HasB, IsPad, Segments
<1>4. SoundInv' /\ ChoiceInv' /\ LastInv'
  BY <1>1, <1>2 DEF CInv, SoundInv, ChoiceInv, LastInv, NotAhead, Popped, Overridden
<1>5. GateInv'
  BY <1>1, <1>2 DEF CInv, GateInv, Popped, Overridden, HasB, IsPad, Segments
<1> QED   BY <1>3, <1>4, <1>5 DEF CInv

\* A seam is put off only if nothing was taken from the incoming buffer.
LEMMA DeferDecides == ASSUME IInv, CInv, Defer PROVE CInv'
<1>1. /\ pc = "swap" /\ ~Commits /\ pc' = "end"
      /\ UNCHANGED <<blk, seg, seamType, a, b, tick, lastGood>>
  BY DEF Defer, blkVars, seamVars, showVars
<1>2. ~Popped
  BY <1>1, ChosenCommits
<1> QED   BY <1>1, <1>2 DEF CInv, TickTyped, SoundInv, ChoiceInv, GateInv, LastInv, NotAhead,
            HasB, IsPad, Segments

LEMMA SwapDecides == ASSUME IInv, CInv, Swap PROVE CInv'
<1>1. /\ pc = "swap" /\ pc' = "end" /\ blk' = blk /\ seg' = seg + 1 /\ lastGood' = lastGood
      /\ tick' = tick \/ tick' = [tick EXCEPT !.origin = seg + 1]
  BY DEF Swap
<1>2. b' = NoB
  BY DEF Swap, IInv, IncomingInv, HasB
<1>3. seamType' \in {"segment", "block"}
  BY DEF Swap, SetSeam, Enforce, SwapSeam
<1>4. {"of", "depth", "alive"} \subseteq DOMAIN a'
  <2>1. CASE IsPad(blk, seg + 1)
    BY <2>1 DEF Swap, Buffer
  <2>2. CASE ~IsPad(blk, seg + 1)
    BY <2>2 DEF Swap
  <2> QED   BY <2>1, <2>2
<1>5. TickTyped'
  BY <1>1, <1>2, <1>3, <1>4 DEF CInv, TickTyped, NoB, IsPad, Segments
<1>6. blk \in Int /\ seg \in Int
  BY PlacesAreNumbers
<1>7. LastInv'
  BY <1>1, <1>6 DEF CInv, TickTyped, LastInv, NotAhead
<1> QED   BY <1>1, <1>2, <1>5, <1>7 DEF CInv, SoundInv, ChoiceInv, GateInv, NoB

\* A block goes live: nothing that has been shown is ahead of it.
LEMMA ActivateDecides ==
  ASSUME IInv, CInv, b = NoB, pc \in {"rotate", "end"}, NEW buffer,
         {"of", "depth", "alive"} \subseteq DOMAIN buffer,
         NotAhead(lastGood) \/ lastGood = <<blk + 1, 1>>, Activate(blk + 1, buffer)
  PROVE  CInv'
<1>1. /\ blk' = blk + 1 /\ seg' = 1 /\ a' = buffer /\ pc' = "end"
      /\ b' = NoB /\ tick' = tick /\ lastGood' = lastGood
  BY DEF Activate
<1>2. seamType' \in {"segment", "block"}
  BY DEF Activate, SetSeam, Enforce, FirstSeam
<1>3. TickTyped'
  BY <1>1, <1>2 DEF CInv, TickTyped, NoB, IsPad, Segments
<1>4. NotAhead(lastGood)'
  BY <1>1, PlacesAreNumbers DEF CInv, TickTyped, NotAhead
<1> QED   BY <1>1, <1>3, <1>4 DEF CInv, SoundInv, ChoiceInv, GateInv, LastInv, NoB

LEMMA BlockEndDecides == ASSUME IInv, CInv, Rotate \/ EnterGap \/ LeaveGap PROVE CInv'
<1>1. CASE Rotate
  <2>1. pc = "rotate" /\ b = NoB
    BY <1>1 DEF Rotate, IInv, PhaseInv, DueNow, RightSegment, HasB
  <2>2. NotAhead(lastGood) \/ lastGood = <<blk + 1, 1>>
    BY <2>1 DEF CInv, LastInv
  <2>3. PICK buffer : /\ {"of", "depth", "alive"} \subseteq DOMAIN buffer
                      /\ Activate(blk + 1, buffer)
    BY <1>1 DEF Rotate, Buffer
  <2> QED   BY <2>1, <2>2, <2>3, ActivateDecides
<1>2. CASE LeaveGap
  <2>1. pc = "end" /\ b = NoB
    BY <1>2 DEF LeaveGap, IInv, RightSegment, HasB
  <2>2. NotAhead(lastGood)
    BY <2>1 DEF CInv, LastInv
  <2>3. PICK buffer : /\ {"of", "depth", "alive"} \subseteq DOMAIN buffer
                      /\ Activate(blk + 1, buffer)
    BY <1>2 DEF LeaveGap, Buffer
  <2> QED   BY <2>1, <2>2, <2>3, ActivateDecides
<1>3. CASE EnterGap
  <2>1. /\ pc = "rotate" /\ pc' = "end" /\ tick.decision = "pad" /\ seamType' = "none"
        /\ UNCHANGED <<blk, seg, b, tick, lastGood>>
        /\ a' = [of |-> Nobody, depth |-> 0, primed |-> FALSE, alive |-> FALSE]
    BY <1>3 DEF EnterGap, blkVars, showVars
  <2>2. b = NoB
    BY <1>3 DEF EnterGap, IInv, PhaseInv, DueNow, RightSegment, HasB
  <2> QED   BY <2>1, <2>2 DEF CInv, TickTyped, SoundInv, ChoiceInv, GateInv, LastInv, NotAhead,
              HasB, NoB
<1> QED   BY <1>1, <1>2, <1>3

LEMMA TickOverDecides == ASSUME IInv, CInv, Wait \/ EndTick \/ StopSession PROVE CInv'
<1>1. /\ UNCHANGED <<blk, seg, seamType, a, b, lastGood>>
      /\ pc' \in {"end", "sample", "stopped"} /\ (tick' = tick \/ tick' = NoTick)
      /\ pc \notin {"ensure", "swap"} /\ (pc = "rotate" => tick.decision # "next")
  BY DEF Wait, EndTick, StopSession, Cascade, blkVars, seamVars, showVars
<1>2. TickTyped'
  BY <1>1 DEF CInv, TickTyped, HasB, IsPad, Segments, NoTick
<1> QED   BY <1>1, <1>2 DEF CInv, SoundInv, ChoiceInv, GateInv, LastInv, NotAhead

\* The fill thread of B never takes back what the gate has seen.
LEMMA FillBDecides == ASSUME IInv, CInv, FillB PROVE CInv'
<1>1. /\ UNCHANGED <<pc, blk, seg, seamType, a, tick, lastGood>> /\ HasB
  BY DEF FillB, blkVars, seamVars, showVars
<1>2. /\ b'.of = b.of /\ DOMAIN b' = DOMAIN b /\ b'.depth = LowerMin(b.depth + 1, Depth)
      /\ b'.sound \in BOOLEAN /\ (b.sound => b'.sound)
      /\ b'.sound => b.sound \/ b.depth + 1 >= 3
  BY DEF FillB, CInv, TickTyped
<1>3. b.depth \in Int /\ Depth \in Nat /\ Depth >= 3
  BY SeamAssumption DEF CInv, TickTyped
<1>4. /\ b'.depth \in Int /\ (b.depth >= 2 => b'.depth >= 2)
      /\ b.depth + 1 >= 3 => b'.depth >= 3
  BY <1>2, <1>3 DEF LowerMin
<1>5. HasB'
  <2>1. b.of = <<blk, seg + 1>>
    BY <1>1 DEF IInv, RightSegment
  <2> QED   BY <1>2, <2>1, PlacesAreNumbers DEF HasB, NoB, Nobody
<1>6. TickTyped'
  BY <1>1, <1>2, <1>4, <1>5 DEF CInv, TickTyped, IsPad, Segments
<1>7. SoundInv'
  BY <1>1, <1>2, <1>3, <1>4 DEF CInv, SoundInv, Popped, Overridden
<1>8. ChoiceInv'
  BY <1>1, <1>2, <1>3, <1>4, <1>5 DEF CInv, ChoiceInv, IsPad, Segments
<1>9. GateInv'
  BY <1>1, <1>2, <1>4, <1>5 DEF CInv, GateInv, Popped, Overridden, IsPad, Segments
<1>10. LastInv'
  BY <1>1 DEF CInv, LastInv, NotAhead, Popped, Overridden
<1> QED   BY <1>6, <1>7, <1>8, <1>9, <1>10 DEF CInv

\* The other fill thread, the worker and the next block's preroll change nothing
\* that a tick has decided.
LEMMA OthersDecide ==
  ASSUME IInv, CInv, WorkerTake \/ WorkerDone \/ FillA \/ NextBlockReady \/ FillNext \/ UNCHANGED vars
  PROVE  CInv'
<1>1. UNCHANGED <<pc, blk, seg, seamType, b, tick, lastGood>>
  BY DEF WorkerTake, WorkerDone, FillA, NextBlockReady, FillNext, vars, blkVars, seamVars, showVars
<1>2. a' = a \/ (a.alive /\ DOMAIN a' = DOMAIN a /\ a'.of = a.of /\ a'.alive = a.alive)
  BY DEF WorkerTake, WorkerDone, FillA, NextBlockReady, FillNext, vars, CInv, TickTyped
<1>3. TickTyped'
  BY <1>1, <1>2 DEF CInv, TickTyped, HasB, IsPad, Segments
<1>4. ChoiceInv'
  BY <1>1, <1>2 DEF CInv, ChoiceInv, HasB, IsPad, Segments
<1>5. SoundInv' /\ GateInv' /\ LastInv'
  BY <1>1 DEF CInv, SoundInv, GateInv, LastInv, NotAhead, Popped, Overridden, HasB, IsPad, Segments
<1> QED   BY <1>3, <1>4, <1>5 DEF CInv

LEMMA NextDecides == IInv /\ CInv /\ [Next]_vars => CInv'
<1> SUFFICES ASSUME IInv, CInv, [Next]_vars PROVE CInv'
  OBVIOUS
<1>1. CASE Sample
  BY <1>1, SampleDecides
<1>2. CASE \/ ShowPadSeam \/ ShowRepeat \/ ShowA
           \/ ShowPreview \/ ShowNoPreview \/ ShowSeamHold \/ ShowBlack
  BY <1>2, ShowsDecide
<1>3. CASE ShowOverride \/ ShowB
  BY <1>3, ShowsOfB
<1>4. CASE MakeB \/ Defer \/ Swap
  BY <1>4, MakeBDecides, DeferDecides, SwapDecides
<1>5. CASE Rotate \/ EnterGap \/ LeaveGap
  BY <1>5, BlockEndDecides
<1>6. CASE Wait \/ EndTick \/ StopSession
  BY <1>6, TickOverDecides
<1>7. CASE FillB
  BY <1>7, FillBDecides
<1>8. CASE WorkerTake \/ WorkerDone \/ FillA \/ NextBlockReady \/ FillNext \/ UNCHANGED vars
  BY <1>8, OthersDecide
<1> QED   BY <1>1, <1>2, <1>3, <1>4, <1>5, <1>6, <1>7, <1>8 DEF Next, Tick, Worker

\* What a tick has decided is consistent in every state.
THEOREM Decisions == Spec => []CInv
<1>1. IInv /\ CInv /\ IInv' /\ [Next]_vars => CInv'
  BY NextDecides
<1> QED   BY <1>1, InitDecisions, Invariant, PTL DEF Spec

\* A frame that was taken from the incoming segment's buffer, and the black of a
\* pad seam, have their swap on the same tick, whatever the threads do between
\* the choice of the frame and the swap (content_seam_override_without_swap); and
\* a seam that was ready when the tick began is put off neither by cadence nor by
\* the origin gate.
THEOREM ChosenIsCommitted == Spec => ShownIsCommitted
<1>1. ASSUME IInv, CInv
      PROVE  pc = "swap" /\ (tick.pad \/ tick.source = "B" \/ tick.shown = <<blk, seg + 1>>) => Commits
  BY <1>1, ChosenCommits DEF CInv, GateInv, Popped
<1>2. IInv /\ CInv /\ [Next]_vars =>
        [pc = "swap" /\ (tick.pad \/ tick.source = "B" \/ tick.shown = <<blk, seg + 1>>) => Commits]_vars
  BY <1>1
<1> QED   BY <1>2, Invariant, Decisions, PTL DEF Spec, ShownIsCommitted

(***************************************************************************)
(* Whose picture the swap tick shows.  The origin of a picture that is     *)
(* shown again is wrong only while the first frame of a block, which the   *)
(* block take showed, is the last good one (Stale), and then at most once, *)
(* by a repeat: the next frame is the segment's own (OriginInv).  The seam *)
(* is not due so early in a segment that is long enough.  The black of an  *)
(* opening pad may be entered with another origin for longer, and to the   *)
(* seam: the theorem leaves it out, as the property does.                  *)
(***************************************************************************)

\* A block's first segment, if it has a picture and another follows it, has two
\* frames, or three if the cadence may repeat one of them.
OpeningsLongEnough ==
  \A k \in 2..Len(Plan) :
    ~IsLast(k, 1) /\ ~IsPad(k, 1) => Frames(k, 1) >= 2 /\ (<<k, 1>> \in Slow => Frames(k, 1) >= 3)

\* The last good frame is the live segment's picture, and is entered as another's.
Stale == seamType = "segment" /\ ~IsPad(blk, seg) /\ lastGood = <<blk, seg>> /\ lastOrigin # seg

\* The ticks for which the live segment will have been on air at the next choice.
NextAge == IF pc = "end" THEN age + 1 ELSE age

Opening ==
  /\ seg = 1 /\ blk >= 2
  /\ a.alive /\ a.primed
  /\ NextAge <= 1 \/ (NextAge <= 2 /\ repeated /\ <<blk, seg>> \in Slow)

OriginInv ==
  /\ "primed" \in DOMAIN a /\ repeated \in BOOLEAN
  /\ pc = "show" => tick.source \in {"A", "B", "P"} /\ (tick.take = "none" => tick.source = "A")
  /\ pc \in {"sample", "show", "end"} /\ Stale => Opening /\ (pc = "show" => tick.primed)
  /\ pc \in {"ensure", "swap"} =>
       /\ Stale => tick.pad
       /\ lastGood = <<blk, seg + 1>> => lastOrigin = seg + 1
       /\ tick.shown = <<blk, seg>> /\ ~IsPad(blk, seg) => tick.origin = seg /\ ~tick.pad /\ ~Overridden

LEMMA InitOrigin == Init => OriginInv
<1> SUFFICES ASSUME Init PROVE OriginInv
  OBVIOUS
<1>1. /\ pc = "sample" /\ next = "no" /\ repeated = FALSE /\ lastGood = <<0, 0>> /\ blk = 1
      /\ "primed" \in DOMAIN a
  BY DEF Init, Buffer, Nobody
<1>2. ~Stale
  BY <1>1 DEF Stale
<1> QED   BY <1>1, <1>2 DEF OriginInv

\* When a segment seam is due, the opening frames of the block are over.
LEMMA OriginTrueAtSeam ==
  ASSUME IInv, OriginInv, OpeningsLongEnough, pc = "show", tick.take = "segment"
  PROVE  ~Stale
<1> SUFFICES ASSUME Stale PROVE FALSE
  OBVIOUS
<1>1. seamType = "segment" /\ seamIn = 0
  BY DEF IInv, PhaseInv, DueNow
<1>2. age \in Nat /\ ~IsLast(blk, seg) /\ ~IsPad(blk, seg) /\ age >= Frames(blk, seg)
  BY <1>1, HasFrames DEF IInv, Typed, SeamInv, Stale
<1>3. Opening
  BY DEF OriginInv
<1>4. blk \in 2..Len(Plan) /\ seg = 1
  BY <1>3, SeamAssumption DEF Opening, IInv, Typed
<1>5. Frames(blk, 1) \in Nat
  BY <1>4, HasFrames DEF IInv, Typed
<1>6. /\ Frames(blk, 1) >= 2
      /\ <<blk, 1>> \in Slow => Frames(blk, 1) >= 3
  BY <1>2, <1>4 DEF OpeningsLongEnough
<1>7. NextAge = age
  BY DEF NextAge
<1> QED   BY <1>2, <1>3, <1>4, <1>5, <1>6, <1>7 DEF Opening

\* What the choice of a frame has to leave, by what is due on this tick.
LEMMA ShowOrigin ==
  ASSUME IInv, CInv, OriginInv, pc = "show",
         NEW decision, NEW shown, NEW origin, Show(decision, shown, origin),
         "primed" \in DOMAIN a', repeated' \in BOOLEAN,
         tick.take = "none" => (Stale' => Opening'),
         tick.take = "segment" =>
           /\ Stale' => tick.pad
           /\ lastGood' = <<blk, seg + 1>> => lastOrigin' = seg + 1
           /\ shown = <<blk, seg>> /\ ~IsPad(blk, seg) =>
                /\ origin = seg /\ ~tick.pad
                /\ ~(tick.override /\ decision = "content")
  PROVE  OriginInv'
<1>1. /\ UNCHANGED <<blk, seg, seamType, next>>
      /\ pc' = IF tick.take = "segment" THEN "ensure" ELSE IF tick.take = "block" THEN "rotate" ELSE "end"
      /\ tick' = [tick EXCEPT !.decision = decision, !.shown = shown, !.origin = origin]
  BY DEF Show, blkVars, seamVars
<1>2. /\ tick'.pad = tick.pad /\ tick'.override = tick.override
      /\ tick'.decision = decision /\ tick'.shown = shown /\ tick'.origin = origin
  BY <1>1 DEF CInv, TickTyped
<1>3. tick.take \in {"none", "segment", "block"}
  BY DEF IInv, PhaseInv
<1>4. IsPad(blk, seg)' = IsPad(blk, seg)
  BY <1>1 DEF IsPad, Segments
<1>5. CASE tick.take = "segment"
  BY <1>1, <1>2, <1>4, <1>5 DEF OriginInv, Overridden
<1>6. CASE tick.take # "segment"
  BY <1>1, <1>2, <1>3, <1>4, <1>6 DEF OriginInv
<1> QED   BY <1>5, <1>6

\* A frame that is shown again is entered with its own origin at a segment seam;
\* before it, a repeat uses up the only one the opening may have.
LEMMA ShowGoodOrigin ==
  ASSUME IInv, CInv, OriginInv, OpeningsLongEnough, ShowRepeat \/ ShowSeamHold
  PROVE  OriginInv'
<1>1. /\ pc = "show" /\ ~tick.pad /\ a' = a /\ UNCHANGED <<lastGood, lastOrigin, blk, seg, seamType, age>>
      /\ repeated' \in BOOLEAN
  BY DEF ShowRepeat, ShowSeamHold, Advances, Cascade, ShowGood, ShowPad, Show, blkVars, seamVars
<1>2. PICK decision, shown, origin :
        /\ decision \in {"repeat", "hold", "pad"} /\ Show(decision, shown, origin)
        /\ (shown = lastGood /\ origin = lastOrigin) \/ shown = Nobody
  BY DEF ShowRepeat, ShowSeamHold, ShowGood, ShowPad
<1>3. NotAhead(lastGood) /\ blk \in Int /\ seg \in Int /\ <<blk, seg>> # Nobody
  BY <1>1, PlacesAreNumbers DEF CInv, LastInv, Nobody
<1>4. lastGood # <<blk, seg + 1>>
  BY <1>3 DEF NotAhead
<1>5. CASE tick.take = "segment"
  <2>1. ~Stale /\ seamType = "segment"
    BY <1>1, <1>5, OriginTrueAtSeam DEF IInv, PhaseInv, DueNow
  <2>2. ~Stale'
    BY <1>1, <2>1 DEF Stale, IsPad, Segments
  <2>3. shown = <<blk, seg>> /\ ~IsPad(blk, seg) => origin = seg
    BY <1>2, <1>3, <2>1 DEF Stale
  <2> QED   BY <1>1, <1>2, <1>4, <1>5, <2>2, <2>3, ShowOrigin DEF OriginInv
<1>6. CASE tick.take # "segment"
  <2>1. ShowRepeat /\ ~repeated /\ repeated' = TRUE /\ <<blk, seg>> \in Slow
    BY <1>6 DEF ShowRepeat, ShowSeamHold
  <2>2. tick.take = "none" => pc' = "end"
    BY <1>2 DEF Show
  <2>3. ASSUME tick.take = "none", Stale' PROVE Opening'
    <3>1. Opening
      BY <1>1, <2>3 DEF OriginInv, Stale, IsPad, Segments
    <3>2. age <= 1
      BY <1>1, <2>1, <3>1 DEF Opening, NextAge
    <3>3. NextAge' <= 2
      BY <1>1, <2>2, <2>3, <3>2 DEF NextAge, IInv, Typed
    <3> QED   BY <1>1, <2>1, <3>1, <3>3 DEF Opening
  <2> QED   BY <1>1, <1>2, <1>6, <2>3, ShowOrigin DEF OriginInv
<1> QED   BY <1>5, <1>6

\* A picture of the live segment is entered as its own.
LEMMA ShowAOrigin == ASSUME IInv, CInv, OriginInv, ShowA PROVE OriginInv'
<1> DEFINE origin == IF tick.override THEN seg + 1 ELSE seg
<1>1. /\ pc = "show" /\ ~tick.pad /\ a.depth > 0 /\ Show("content", a.of, origin)
      /\ lastGood' = a.of /\ lastOrigin' = origin /\ repeated' = FALSE
      /\ a' = [a EXCEPT !.depth = @ - 1]
  BY DEF ShowA, Advances, Cascade
<1>7. tick.override => IsPad(blk, seg)
  BY <1>1 DEF CInv, ChoiceInv
<1>2. "primed" \in DOMAIN a'
  BY <1>1 DEF OriginInv
<1>3. ~Stale'
  BY <1>1, <1>7 DEF Stale, Show, blkVars, IsPad, Segments
<1>4. seg \in Int
  BY PlacesAreNumbers
<1>5. ASSUME tick.take = "segment"
      PROVE  a.of # <<blk, seg + 1>>
  BY <1>1, <1>4, <1>5 DEF IInv, PhaseInv, DueNow, RightSegment
<1>6. repeated' \in BOOLEAN
  BY <1>1
<1> QED   BY <1>1, <1>2, <1>3, <1>5, <1>6, <1>7, ShowOrigin

LEMMA ShowBOrigin == ASSUME IInv, CInv, OriginInv, ShowOverride \/ ShowB PROVE OriginInv'
<1>1. /\ pc = "show" /\ ~tick.pad /\ HasB /\ tick.take = "segment"
      /\ a' = a /\ repeated' \in BOOLEAN
  BY DEF ShowOverride, ShowB, Overrides, Advances, Cascade, CInv, ChoiceInv, TickTyped, OriginInv
<1>2. b.of = <<blk, seg + 1>> /\ seg \in Int
  BY <1>1, PlacesAreNumbers DEF IInv, RightSegment
<1>3. Show("content", b.of, seg + 1) /\ lastGood' = b.of /\ lastOrigin' = seg + 1
  BY <1>2 DEF ShowOverride, ShowB
<1>4. ~Stale'
  BY <1>2, <1>3 DEF Stale, Show, blkVars
<1> QED   BY <1>1, <1>2, <1>3, <1>4, ShowOrigin DEF OriginInv

\* Black, or the next block at the fence; in a block's opening there is a frame
\* to show, or the session stops.
LEMMA ShowRestOrigin ==
  ASSUME IInv, CInv, OriginInv, OpeningsLongEnough,
         ShowPadSeam \/ ShowPreview \/ ShowNoPreview \/ ShowBlack
  PROVE  OriginInv'
<1>1. /\ pc = "show" /\ a' = a /\ repeated' \in BOOLEAN /\ "primed" \in DOMAIN a'
  BY DEF ShowPadSeam, ShowPreview, ShowNoPreview, ShowBlack, Advances, Cascade, OriginInv
<1>2. <<blk, seg>> # Nobody /\ NotAhead(lastGood) /\ blk \in Int /\ seg \in Int
  BY <1>1, PlacesAreNumbers DEF CInv, LastInv, Nobody
<1>3. CASE ShowPadSeam
  <2>1. /\ tick.pad /\ tick.take = "segment" /\ Show("pad", Nobody, seg + 1)
        /\ lastOrigin' = seg + 1
    BY <1>3 DEF ShowPadSeam, CInv, ChoiceInv
  <2> QED   BY <1>1, <1>2, <2>1, ShowOrigin
<1>4. CASE ShowPreview
  <2>1. tick.take = "block" /\ Show("next", <<blk + 1, 1>>, -2)
    BY <1>4 DEF ShowPreview, Advances, Cascade, CInv, ChoiceInv
  <2> QED   BY <1>1, <2>1, ShowOrigin
<1>5. CASE ShowNoPreview
  <2>1. tick.take = "block"
    BY <1>5 DEF ShowNoPreview, Advances, Cascade, CInv, ChoiceInv
  <2>2. PICK decision, shown : decision \in {"pad", "wait"} /\ Show(decision, shown, -2)
    BY <1>5 DEF ShowNoPreview, ShowPad
  <2> QED   BY <1>1, <2>1, <2>2, ShowOrigin
<1>6. CASE ShowBlack
  <2>1. /\ Show("pad", Nobody, -2) /\ UNCHANGED <<lastGood, lastOrigin, blk, seg, seamType>>
        /\ ~(tick.primed /\ a.alive /\ ~IsPad(blk, seg))
    BY <1>6 DEF HasDecoder, ShowBlack, ShowPad, Show, blkVars, seamVars
  <2>2. lastGood # <<blk, seg + 1>>
    BY <1>2 DEF NotAhead
  <2>3. tick.take \in {"none", "segment"} => ~Stale
    BY <1>1, <2>1, OriginTrueAtSeam DEF OriginInv, Opening, Stale
  <2>4. Stale' <=> Stale
    BY <2>1 DEF Stale, IsPad, Segments
  <2> QED   BY <1>1, <1>2, <2>1, <2>2, <2>3, <2>4, ShowOrigin
<1> QED   BY <1>3, <1>4, <1>5, <1>6

LEMMA SampleOrigin == ASSUME IInv, CInv, OriginInv, Sample PROVE OriginInv'
<1>1. /\ pc = "sample" /\ pc' = "show"
      /\ UNCHANGED <<blk, seg, age, seamType, a, lastGood, lastOrigin, repeated, next>>
  BY DEF Sample, blkVars, seamVars, showVars
<1>2. /\ tick'.primed = a.primed /\ tick'.source \in {"A", "B", "P"} /\ tick'.take = Due
      /\ Due = "none" => tick'.source = "A"
  BY DEF Sample, NoTick
<1>3. (Stale' <=> Stale) /\ (Opening => Opening')
  BY <1>1 DEF Stale, Opening, NextAge, IsPad, Segments
<1> QED   BY <1>1, <1>2, <1>3 DEF OriginInv, Opening, IsPad, Segments

\* The swap: the frame shown last, if it is the incoming segment's, has its origin.
LEMMA SeamOrigin == ASSUME IInv, CInv, OriginInv, MakeB \/ Defer \/ Swap PROVE OriginInv'
<1>1. CASE MakeB
  <2>1. /\ pc = "ensure" /\ pc' = "swap"
        /\ UNCHANGED <<blk, seg, seamType, a, tick, lastGood, lastOrigin, repeated, next>>
    BY <1>1 DEF MakeB, blkVars, seamVars, showVars
  <2> QED   BY <2>1 DEF OriginInv, Stale, Overridden, IsPad, Segments
<1>2. CASE Defer
  <2>1. /\ pc = "swap" /\ pc' = "end" /\ ~Commits
        /\ UNCHANGED <<blk, seg, seamType, a, tick, lastGood, lastOrigin, repeated, next>>
    BY <1>2 DEF Defer, blkVars, seamVars, showVars
  <2>2. ~Stale
    BY <2>1, ChosenCommits DEF OriginInv
  <2> QED   BY <2>1, <2>2 DEF OriginInv, Stale, IsPad, Segments
<1>3. CASE Swap
  <2>1. /\ pc = "swap" /\ pc' = "end" /\ blk' = blk /\ seg' = seg + 1 /\ lastGood' = lastGood
        /\ lastOrigin' = seg + 1 \/ lastOrigin' = lastOrigin
        /\ next' = next /\ repeated' \in BOOLEAN
    BY <1>3 DEF Swap, OriginInv
  <2>2. "primed" \in DOMAIN a'
    BY <1>3 DEF Swap, Buffer
  <2>3. ~Stale'
    BY <2>1 DEF OriginInv, Stale
  <2> QED   BY <2>1, <2>2, <2>3 DEF OriginInv, IsPad, Segments
<1> QED   BY <1>1, <1>2, <1>3

\* A block that goes live by the block take has a decoder, and its opening begins.
LEMMA BlockEndOrigin ==
  ASSUME IInv, CInv, OriginInv, Rotate \/ EnterGap \/ LeaveGap
  PROVE  OriginInv'
<1>1. CASE EnterGap
  <2>1. /\ pc' = "end" /\ seamType' = "none" /\ "primed" \in DOMAIN a'
        /\ UNCHANGED <<blk, repeated, next>>
    BY <1>1 DEF EnterGap, blkVars, showVars
  <2> QED   BY <2>1 DEF OriginInv, Stale, IsPad, Segments
<1>2. CASE Rotate \/ LeaveGap
  <2>1. PICK buffer : Activate(blk + 1, buffer) /\ "primed" \in DOMAIN buffer
                      /\ (pc = "rotate" /\ tick.decision = "next" => buffer.primed /\ buffer.alive)
    <3>1. CASE LeaveGap
      BY <1>2, <3>1 DEF LeaveGap, Buffer
    <3>2. CASE Rotate /\ tick.decision = "next"
      <4>1. PICK depth \in {0, 1} :
              Activate(blk + 1, [Buffer(blk + 1, 1, depth, TRUE) EXCEPT !.primed = TRUE])
        BY <3>2 DEF Rotate
      <4>2. PICK buffer : /\ buffer = [Buffer(blk + 1, 1, depth, TRUE) EXCEPT !.primed = TRUE]
                          /\ Activate(blk + 1, buffer)
        BY <4>1
      <4>3. "primed" \in DOMAIN buffer /\ buffer.primed = TRUE /\ buffer.alive = TRUE
        BY <4>2 DEF Buffer
      <4> QED   BY <4>2, <4>3
    <3>3. CASE Rotate /\ tick.decision # "next"
      <4>1. PICK depth, decoder : Activate(blk + 1, Buffer(blk + 1, 1, depth, decoder))
        BY <3>3 DEF Rotate
      <4> QED   BY <3>3, <4>1 DEF Buffer
    <3> QED   BY <1>2, <3>1, <3>2, <3>3
  <2>2. /\ blk' = blk + 1 /\ seg' = 1 /\ age' = 0 /\ a' = buffer /\ next' = "no" /\ pc' = "end"
        /\ repeated' = FALSE /\ lastGood' = lastGood
    BY <2>1 DEF Activate
  <2>3. blk \in Int /\ blk >= 1
    BY PlacesAreNumbers
  <2>4. ASSUME Stale' PROVE Opening'
    <3>1. lastGood = <<blk + 1, 1>>
      BY <2>2, <2>4 DEF Stale
    <3>2. pc = "rotate" /\ tick.decision = "next"
      BY <2>3, <3>1 DEF CInv, LastInv, NotAhead, OriginInv, IInv, PhaseInv, DueNow
    <3> QED   BY <2>1, <2>2, <2>3, <3>2 DEF Opening, NextAge
  <2> QED   BY <2>1, <2>2, <2>4 DEF OriginInv
<1> QED   BY <1>1, <1>2

LEMMA TickOverOrigin == ASSUME IInv, CInv, OriginInv, Wait \/ EndTick \/ StopSession PROVE OriginInv'
<1>1. CASE Wait
  <2>1. /\ pc = "rotate" /\ pc' = "end"
        /\ UNCHANGED <<blk, seg, seamType, a, lastGood, lastOrigin, repeated, next>>
    BY <1>1 DEF Wait, blkVars, seamVars, showVars
  <2>2. ~Stale'
    BY <2>1 DEF IInv, PhaseInv, DueNow, Stale
  <2> QED   BY <2>1, <2>2 DEF OriginInv, IsPad, Segments
<1>2. CASE EndTick
  <2>1. /\ pc = "end" /\ pc' = "sample" /\ age' = LowerMin(age + 1, Frames(blk, seg))
        /\ UNCHANGED <<blk, seg, seamType, a, lastGood, lastOrigin, repeated, next>>
    BY <1>2 DEF EndTick, showVars
  <2>2. age' <= age + 1 /\ age' \in Int
    <3>1. Frames(blk, seg) \in Nat /\ age \in Nat
      BY HasFrames DEF IInv, Typed
    <3> QED   BY <2>1, <3>1 DEF LowerMin
  <2>3. Opening => Opening'
    BY <2>1, <2>2 DEF Opening, NextAge, IInv, Typed
  <2> QED   BY <2>1, <2>3 DEF OriginInv, Stale, IsPad, Segments
<1>3. CASE StopSession
  <2>1. pc' = "stopped" /\ UNCHANGED <<blk, a, repeated, next>>
    BY <1>3 DEF StopSession, blkVars, showVars
  <2> QED   BY <2>1 DEF OriginInv, IsPad, Segments
<1> QED   BY <1>1, <1>2, <1>3

LEMMA OthersOrigin ==
  ASSUME IInv, CInv, OriginInv,
         WorkerTake \/ WorkerDone \/ FillA \/ FillB \/ NextBlockReady \/ FillNext \/ UNCHANGED vars
  PROVE  OriginInv'
<1>1. UNCHANGED <<pc, blk, seg, age, seamType, tick, lastGood, lastOrigin, repeated>>
  BY DEF WorkerTake, WorkerDone, FillA, FillB, NextBlockReady, FillNext, vars, blkVars, seamVars, showVars
<1>2. /\ "primed" \in DOMAIN a' /\ a'.alive = a.alive /\ (a.primed => a'.primed)
  BY DEF WorkerTake, WorkerDone, FillA, FillB, NextBlockReady, FillNext, vars, CInv, TickTyped, OriginInv
<1>4. (Stale' <=> Stale) /\ (Opening => Opening')
  BY <1>1, <1>2 DEF Stale, Opening, NextAge, IsPad, Segments
<1> QED   BY <1>1, <1>2, <1>4 DEF OriginInv, Overridden, IsPad, Segments

LEMMA NextOrigin ==
  ASSUME IInv, CInv, OriginInv, OpeningsLongEnough, [Next]_vars
  PROVE  OriginInv'
<1>1. CASE Sample
  BY <1>1, SampleOrigin
<1>2. CASE ShowRepeat \/ ShowSeamHold
  BY <1>2, ShowGoodOrigin
<1>3. CASE ShowA \/ ShowOverride \/ ShowB
  BY <1>3, ShowAOrigin, ShowBOrigin
<1>4. CASE ShowPadSeam \/ ShowPreview \/ ShowNoPreview \/ ShowBlack
  BY <1>4, ShowRestOrigin
<1>5. CASE MakeB \/ Defer \/ Swap
  BY <1>5, SeamOrigin
<1>6. CASE Rotate \/ EnterGap \/ LeaveGap
  BY <1>6, BlockEndOrigin
<1>7. CASE Wait \/ EndTick \/ StopSession
  BY <1>7, TickOverOrigin
<1>8. CASE WorkerTake \/ WorkerDone \/ FillA \/ FillB \/ NextBlockReady \/ FillNext \/ UNCHANGED vars
  BY <1>8, OthersOrigin
<1> QED   BY <1>1, <1>2, <1>3, <1>4, <1>5, <1>6, <1>7, <1>8 DEF Next, Tick, Worker

\* The origin gate sees through a repeat or a hold: the swap tick never shows a
\* picture of the segment that is left, however the fill threads and the worker
\* run between the choice of the frame and the swap, unless nothing was left to
\* show.  A pad that is left may show its black once more.
\* The plan's openings have to be long enough for it: the block take replaces the
\* last good frame and not its origin (PipelineManager.cpp, the take at the fence).
THEOREM SwapShowsNoBleed == OpeningsLongEnough => (Spec => NoBleedOnSwap)
<1> SUFFICES ASSUME OpeningsLongEnough PROVE Spec => NoBleedOnSwap
  OBVIOUS
<1>1. ASSUME IInv, CInv, OriginInv, pc = "swap", Commits, ~ForcedByVacuum, ~IsPad(blk, seg)
      PROVE  tick.shown # <<blk, seg>>
  BY <1>1 DEF OriginInv, Commits, Forced, ForcedByPad, ForcedByOverride, OriginGate, Overridden
<1>2. IInv /\ CInv /\ OriginInv /\ [Next]_vars =>
        [pc = "swap" /\ Commits /\ ~ForcedByVacuum /\ ~IsPad(blk, seg) => tick.shown # <<blk, seg>>]_vars
  BY <1>1
<1>3. IInv /\ CInv /\ OriginInv /\ [Next]_vars => OriginInv'
  BY NextOrigin
<1> QED   BY <1>2, <1>3, InitOrigin, Invariant, Decisions, PTL DEF Spec, NoBleedOnSwap
=============================================================================

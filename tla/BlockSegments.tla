---------------------------- MODULE BlockSegments ----------------------------
(***************************************************************************)
(* What one block holds, on its way from the compiled schedule to AIR: the *)
(* acts and breaks an episode is cut into, the padding of a filled break,  *)
(* the trimming of a block that is joined in progress, and AIR's check of  *)
(* the finished plan.  Durations are in units of which Grid make one grid  *)
(* slot.                                                                   *)
(***************************************************************************)
EXTENDS AssetLengths, SequencesExt

CONSTANTS
  ChaptersOf,  \* [asset -> chapter markers]
  NumBreaks    \* num_breaks, at least 1: breaks of an episode without chapters

NoAsset == "none"

ASSUME SegmentAssumption ==
  /\ NumBreaks \in Nat \ {0} /\ NoAsset \notin DOMAIN Duration
  /\ \A asset \in DOMAIN Duration : IsFiniteSet(ChaptersOf[asset])
                                    /\ ChaptersOf[asset] \subseteq Nat

\* ScheduledSegment; an empty break is a filler segment without an asset.
Content(asset, off, dur, fadeIn, fadeOut) ==
  [kind |-> "content", asset |-> asset, off |-> off, dur |-> dur,
   fadeIn |-> fadeIn, fadeOut |-> fadeOut]
Plain(kind, asset, dur) ==
  [kind |-> kind, asset |-> asset, off |-> 0, dur |-> dur,
   fadeIn |-> FALSE, fadeOut |-> FALSE]
Break(dur) == Plain("filler", NoAsset, dur)
Spot(asset, dur) == Plain("filler", asset, dur)
Pad(dur) == Plain("pad", NoAsset, dur)
IsBreak(seg) == seg.kind = "filler" /\ seg.asset = NoAsset

DursOf(segs) == [i \in DOMAIN segs |-> segs[i].dur]
Total(segs) == Totals(DursOf(segs))[Len(segs)]
Before(segs, i) == Totals(DursOf(segs))[i - 1]

----------------------------------------------------------------------------
(* playout_log_expander: acts and empty breaks *)

Spare(asset, slot) == IF slot > Duration[asset] THEN slot - Duration[asset] ELSE 0
BreakAfter(time) == IF time > 0 THEN <<Break(time)>> ELSE <<>>

\* _expand_movie
ExpandMovie(asset, slot) ==
  <<Content(asset, 0, Duration[asset], FALSE, FALSE)>>
    \o BreakAfter(Spare(asset, slot))

\* The caller leaves out markers at zero; without any other, the episode is
\* divided evenly.
Computed(asset) == ChaptersOf[asset] \subseteq {0}
BreakPoints(asset) ==
  IF Computed(asset)
  THEN [i \in 1..NumBreaks |-> (Duration[asset] * i) \div (NumBreaks + 1)]
  ELSE Ascending({c \in ChaptersOf[asset] : 0 < c /\ c < Duration[asset]})

\* The time of break i of n, the first ones taking what does not divide.
BreakTime(asset, slot, n, i) ==
  LET spare == Spare(asset, slot) IN
  spare \div n + (IF i <= spare % n THEN 1 ELSE 0)

\* _expand_network: an act ends in a fade when its break was computed, and
\* the next one fades in when the break between them has any time.
ExpandNetwork(asset, slot) ==
  LET points == BreakPoints(asset)
      n == Len(points)
      From(i) == IF i = 1 THEN 0 ELSE points[i - 1]
      FadesIn(i) == i > 1 /\ Computed(asset) /\ BreakTime(asset, slot, n, i - 1) > 0
      Act(i) == <<Content(asset, From(i), points[i] - From(i), FadesIn(i),
                          Computed(asset))>>
      rest == Duration[asset] - From(n + 1)
  IN FlattenSeq([i \in 1..n |-> Act(i) \o BreakAfter(BreakTime(asset, slot, n, i))])
       \o (IF rest > 0
           THEN <<Content(asset, From(n + 1), rest, FadesIn(n + 1), FALSE)>>
           ELSE <<>>)

\* expand_program_block
Expand(channelType, asset, slot) ==
  IF channelType = "movie" THEN ExpandMovie(asset, slot)
                           ELSE ExpandNetwork(asset, slot)

----------------------------------------------------------------------------
(* traffic_manager: a break filled with the spots that were picked *)

\* _fill_break_with_interstitials, from the picks on: the time left is spread
\* over pads after the spots, the last ones taking what does not divide.
\* The mutant rounds every pad down.
PadSizeFloored(gap, n, i) == gap \div n
PadSize(gap, n, i) == gap \div n + (IF i > n - (gap % n) THEN 1 ELSE 0)
FilledBreak(picks, dur) ==
  LET n == Len(picks)
      gap == dur - Totals(LengthsOf(picks))[n]
      pad(i) == PadSize(gap, n, i)
  IN FlattenSeq([i \in 1..n |->
       <<Spot(picks[i], Duration[picks[i]])>>
         \o (IF pad(i) > 0 THEN <<Pad(pad(i))>> ELSE <<>>)])

----------------------------------------------------------------------------
(* channel_manager: joining a block in progress *)

\* What the walk of _apply_jip_to_segments leaves of segment i.  The mutant
\* shortens it and leaves its offset in the asset.
TrimmedInPlace(segs, i, skip) ==
  LET cut == IF skip > Before(segs, i) THEN skip - Before(segs, i) ELSE 0 IN
  [segs[i] EXCEPT !.dur = @ - cut]
Trimmed(segs, i, skip) ==
  LET cut == IF skip > Before(segs, i) THEN skip - Before(segs, i) ELSE 0 IN
  [segs[i] EXCEPT !.dur = @ - cut,
                  !.off = IF segs[i].asset = NoAsset THEN @ ELSE @ + cut]

\* Segments that are over are dropped, and so are empty ones; a pad at the
\* end fills up what is missing.
Joined(segs, skip, dur) ==
  LET kept == Ascending({i \in DOMAIN segs : /\ segs[i].dur > 0
                                             /\ Before(segs, i) + segs[i].dur > skip})
      left == [n \in DOMAIN kept |-> Trimmed(segs, kept[n], skip)]
      gap == dur - Total(left)
  IN IF gap <= 0 THEN left
     ELSE IF left # <<>> /\ Last(left).kind = "pad"
     THEN [left EXCEPT ![Len(left)].dur = @ + gap]
     ELSE Append(left, Pad(gap))

----------------------------------------------------------------------------
(* AIR: BlockPlanValidator and what is on the air *)

\* Validate, for assets that exist.
Accepted(segs, dur) ==
  /\ dur > 0 /\ segs # <<>>
  /\ \A i \in DOMAIN segs : segs[i].dur > 0
  /\ Total(segs) = dur
  /\ \A i \in DOMAIN segs :
       segs[i].kind # "pad" => segs[i].off < Duration[segs[i].asset]

\* TickProducer::AssignBlock: a plan that is refused has no decoder, and the
\* block is black.  Of an accepted one the segment at x plays.
Black == <<NoAsset, 0>>
PlaysAt(segs, x) ==
  LET i == CHOOSE i \in DOMAIN segs : Before(segs, i) <= x
                                      /\ x < Before(segs, i) + segs[i].dur
  IN IF segs[i].kind = "pad" THEN Black
     ELSE <<segs[i].asset, segs[i].off + x - Before(segs, i)>>
=============================================================================

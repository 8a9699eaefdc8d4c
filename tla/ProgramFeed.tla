----------------------------- MODULE ProgramFeed -----------------------------
(***************************************************************************)
(* From the compiled schedule to what AIR airs.  A viewer tunes in; the    *)
(* producer looks up the block that is on, which is expanded, filled with  *)
(* spots and cut to the time that is left, and the block after it, and     *)
(* starts AIR with the two; then it feeds block after block from the end   *)
(* of the last one.                                                        *)
(***************************************************************************)
EXTENDS ScheduleCompiler, BlockSegments

CONSTANTS
  Spots,         \* assets that may fill a break
  Filler,        \* the fallback filler, played when there is no spot
  ChannelTypes   \* the types a channel may have

\* get_filler_assets and fill_ad_blocks take no asset without a length.
ASSUME FeedAssumption ==
  /\ Spots \subseteq DOMAIN Duration /\ Filler \in DOMAIN Duration
  /\ \A spot \in Spots \union {Filler} : Duration[spot] > 0

VARIABLES
  channelType,  \* _channel_type
  session,      \* "off", "filling", "on", "gap" or "failed"
  seeding,      \* the block that is filled is block_a, block_b or a later one
  joinedAt,     \* the instant of the join
  block,        \* the scheduled block that is filled
  segs,         \* its segments up to where fill_ad_blocks is
  rest,         \* the segments from there on
  picks,        \* spots picked for the break rest begins with
  cursor,       \* _next_block_start_ms
  plan          \* the BlockPlan just generated: [block, whole, start, segs, after]

feedVars == <<channelType, session, seeding, joinedAt, block, segs, rest, picks,
              cursor, plan>>
programVars == <<compilerVars, feedVars>>

NoBlock == [asset |-> NoAsset, start |-> 0, dur |-> 0, due |-> 0,
            pool |-> NoAsset, turn |-> -1]
NoPlan == [block |-> NoBlock, whole |-> <<>>, start |-> 0, segs |-> <<>>,
           after |-> -1]

FeedInit ==
  /\ CompilerInit
  /\ channelType \in ChannelTypes
  /\ session = "off" /\ seeding = "none" /\ joinedAt = 0 /\ block = NoBlock
  /\ segs = <<>> /\ rest = <<>> /\ picks = <<>> /\ cursor = 0 /\ plan = NoPlan

\* _find_in_memory_block: the first block in the list that covers t.
Covers(b, t) == b.start <= t /\ t < End(b)
BlockAt(t) ==
  LET n == Min({i \in DOMAIN timeline : Covers(timeline[i], t)}) IN timeline[n]
Scheduled(t) == \E i \in DOMAIN timeline : Covers(timeline[i], t)

\* Where no block can be had the start fails, or the session waits.
Stopped == IF seeding = "next" THEN "gap" ELSE "failed"

\* get_block_at: the block is expanded and its filling begins.
Fetch(t) ==
  /\ block' = BlockAt(t)
  /\ rest' = Expand(channelType, BlockAt(t).asset, BlockAt(t).dur)
  /\ segs' = <<>> /\ picks' = <<>>
  /\ session' = "filling"

Compiled == pc = "idle" /\ day > FinalDay

\* _ensure_producer_running and start: the block that is on is block_a.
TuneIn ==
  /\ Compiled /\ session = "off"
  /\ \E t \in 0..((FinalDay + 3) * DayLen) :
       /\ Scheduled(t)
       /\ joinedAt' = t
       /\ Fetch(t)
  /\ seeding' = "a"
  /\ UNCHANGED <<compilerVars, channelType, cursor, plan>>

----------------------------------------------------------------------------
(* fill_ad_blocks *)

KeepSegment ==
  /\ session = "filling" /\ rest # <<>> /\ ~IsBreak(Head(rest))
  /\ segs' = Append(segs, Head(rest))
  /\ rest' = Tail(rest)
  /\ UNCHANGED <<compilerVars, channelType, session, seeding, joinedAt, block, picks,
                 cursor, plan>>

InBreak == session = "filling" /\ rest # <<>> /\ IsBreak(Head(rest))
Left == Head(rest).dur - Totals(LengthsOf(picks))[Len(picks)]

\* get_filler_assets: a spot that fits; the cooldowns and caps, kept outside,
\* may leave any of them.
Fits(spot) == Duration[spot] <= Left
PickSpot ==
  /\ InBreak /\ Left > 0
  /\ \E spot \in Spots : Fits(spot) /\ picks' = Append(picks, spot)
  /\ UNCHANGED <<compilerVars, channelType, session, seeding, joinedAt, block, segs,
                 rest, cursor, plan>>

FillBreak ==
  /\ InBreak /\ picks # <<>>
  /\ segs' = segs \o FilledBreak(picks, Head(rest).dur)
  /\ rest' = Tail(rest) /\ picks' = <<>>
  /\ UNCHANGED <<compilerVars, channelType, session, seeding, joinedAt, block, plan,
                 cursor>>

\* Without a spot the filler plays, when it is long enough.
Fallback ==
  /\ InBreak /\ picks = <<>> /\ Head(rest).dur <= Duration[Filler]
  /\ segs' = Append(segs, Spot(Filler, Head(rest).dur))
  /\ rest' = Tail(rest)
  /\ UNCHANGED <<compilerVars, channelType, session, seeding, joinedAt, block, picks,
                 cursor, plan>>
TooLong ==
  /\ InBreak /\ picks = <<>> /\ Head(rest).dur > Duration[Filler]
  /\ session' = Stopped
  /\ UNCHANGED <<compilerVars, channelType, seeding, joinedAt, block, segs, rest,
                 picks, cursor, plan>>

----------------------------------------------------------------------------
(* Feeding *)

\* _generate_next_block: only block_a is joined in progress.  _advance_cursor
\* follows.
Skip == IF seeding = "a" THEN joinedAt - block.start ELSE 0
Cut == IF Skip > 0 THEN Joined(segs, Skip, block.dur - Skip) ELSE segs
Generate ==
  /\ plan' = [block |-> block, whole |-> segs, start |-> block.start + Skip,
              segs |-> Cut, after |-> IF seeding = "a" THEN -1 ELSE cursor]
  /\ cursor' = End(block)

Filled == session = "filling" /\ rest = <<>>

SeedFirst ==
  /\ Filled /\ seeding = "a"
  /\ Generate
  /\ session' = "on" /\ seeding' = "b"
  /\ UNCHANGED <<compilerVars, channelType, joinedAt, block, segs, rest, picks>>

\* StartBlockPlanSession refuses two blocks that are not contiguous.
Apart == block.start # cursor
SeedSecond ==
  /\ Filled /\ seeding = "b"
  /\ IF Apart
     THEN session' = "failed" /\ UNCHANGED <<seeding, cursor, plan>>
     ELSE session' = "on" /\ seeding' = "next" /\ Generate
  /\ UNCHANGED <<compilerVars, channelType, joinedAt, block, segs, rest, picks>>

\* _feed_ahead: the block at the cursor is fed, wherever it starts.
FeedNext ==
  /\ Filled /\ seeding = "next"
  /\ session' = "on" /\ Generate
  /\ UNCHANGED <<compilerVars, channelType, seeding, joinedAt, block, segs, rest, picks>>

\* The next block is looked up at the cursor.
LookUp ==
  /\ session = "on"
  /\ IF Scheduled(cursor)
     THEN Fetch(cursor)
     ELSE session' = Stopped /\ UNCHANGED <<block, segs, rest, picks>>
  /\ plan' = NoPlan
  /\ UNCHANGED <<compilerVars, channelType, seeding, joinedAt, cursor>>

\* The last viewer leaves, or the start failed.
TuneOut ==
  /\ session \in {"on", "gap", "failed"}
  /\ session' = "off" /\ seeding' = "none" /\ joinedAt' = 0 /\ block' = NoBlock
  /\ segs' = <<>> /\ rest' = <<>> /\ picks' = <<>> /\ plan' = NoPlan
  /\ cursor' = 0
  /\ UNCHANGED <<compilerVars, channelType>>

Feed ==
  \/ TuneIn \/ KeepSegment \/ PickSpot \/ FillBreak \/ Fallback \/ TooLong
  \/ SeedFirst \/ SeedSecond \/ FeedNext \/ LookUp \/ TuneOut

ProgramNext ==
  \/ Compile /\ UNCHANGED feedVars
  \/ Feed

ProgramSpec == FeedInit /\ [][ProgramNext]_programVars

----------------------------------------------------------------------------
(* Properties *)

\* However the definitions of a day overlap, its row holds every block that
\* was placed, on the grid and one after the other; a block starts later than
\* its definition says only where the block before it ends (the sort, the grid
\* checks and the compaction of compile_schedule).
Same(b) == <<b.asset, b.due, b.turn>>
DayWellFormed ==
  \A d \in DOMAIN rows :
    LET row == rows[d] IN
    /\ \A i, j \in DOMAIN row : i < j => End(row[i]) <= row[j].start
    /\ \A i \in DOMAIN row :
         /\ OnGrid(row[i])
         /\ row[i].start # row[i].due =>
              row[i].start > row[i].due /\ i > 1 /\ End(row[i - 1]) = row[i].start
    /\ pc = "idle" /\ d = day - 1 =>
         \A b \in Range(made) :
           Cardinality({i \in DOMAIN row : Same(row[i]) = Same(b)})
             = Cardinality({i \in DOMAIN made : Same(made[i]) = Same(b)})

\* A pool that is played in order on two days in a row does not begin both
\* with the same episode, unless the slots counted for a day, all layers and
\* pools together, are a multiple of the pool (_count_slots_in_dsl and the
\* counters _compile_day starts from).
TurnsOf(d, p) == {i \in DOMAIN rows[d] : rows[d][i].pool = p /\ rows[d][i].turn >= 0}
FirstOf(d, p) ==
  LET i == CHOOSE i \in TurnsOf(d, p) :
             \A j \in TurnsOf(d, p) : rows[d][i].turn <= rows[d][j].turn
  IN rows[d][i].asset
DaysAdvance ==
  \A d \in DOMAIN rows, p \in DOMAIN PoolOf :
    /\ d + 1 \in DOMAIN rows
    /\ TurnsOf(d, p) # {} /\ TurnsOf(d + 1, p) # {}
    => \/ FirstOf(d, p) # FirstOf(d + 1, p)
       \/ SlotsPerDay > 0 /\ SlotsPerDay % Len(PoolOf[p]) = 0

\* A filled block plays its episode once, from beginning to end and in order,
\* an act fading in only when the one before it faded out, with every break
\* filled to its length, so that AIR accepts it.  Two kinds of block AIR
\* refuses: an asset too short to be cut, and an episode whose chapters all lie
\* beyond its end, whose break time is lost.
TooShort(b) ==
  \/ Duration[b.asset] = 0
  \/ channelType # "movie" /\ Computed(b.asset) /\ Duration[b.asset] <= NumBreaks
BreaksLost(b) ==
  /\ channelType # "movie" /\ Spare(b.asset, b.dur) > 0
  /\ ~Computed(b.asset) /\ BreakPoints(b.asset) = <<>>
IsAct(i) == segs[i].kind = "content"
ActTime == Totals([i \in DOMAIN segs |-> IF IsAct(i) THEN segs[i].dur ELSE 0])
SlotFilled ==
  Filled =>
    /\ ActTime[Len(segs)] = Duration[block.asset]
    /\ \A i \in DOMAIN segs : IsAct(i) =>
         /\ segs[i].asset = block.asset /\ segs[i].off = ActTime[i - 1]
         /\ segs[i].fadeIn => \E j \in 1..(i - 1) :
              IsAct(j) /\ segs[j].fadeOut /\ \A k \in (j + 1)..(i - 1) : ~IsAct(k)
    /\ \/ Accepted(segs, block.dur)
       \/ TooShort(block)
       \/ BreaksLost(block)

\* At every instant of a plan AIR shows what the whole block has at that
\* instant, whether the session began with the block or joined it in progress;
\* and a plan begins where the one before it ended, unless a block of another
\* day overlaps it (_apply_jip_to_segments, the lookup at the cursor).
Overlapped(b) ==
  \E d \in DOMAIN rows : \E c \in Range(rows[d]) :
    c # b /\ c.start < End(b) /\ b.start < End(c)
PlansAgree ==
  LET b == plan.block IN
  b # NoBlock =>
    /\ Accepted(plan.whole, b.dur) =>
         /\ Accepted(plan.segs, End(b) - plan.start)
         /\ \A t \in plan.start..(End(b) - 1) :
              PlaysAt(plan.segs, t - plan.start) = PlaysAt(plan.whole, t - b.start)
    /\ IF plan.after = -1 THEN plan.start = joinedAt
       ELSE plan.start # plan.after => Overlapped(b) /\ plan.start < plan.after

\* A viewer who tunes in while a block is on that another block of its day
\* follows directly gets a session, unless a block of the next day runs across
\* their seam, or a break is longer than the filler and no spot may be played
\* (start() needs two contiguous blocks).
Straddled(t) == \E d \in DOMAIN rows : \E b \in Range(rows[d]) : b.start < t /\ t < End(b)
TuneInStarts ==
  session = "failed" =>
    \/ rest # <<>> /\ Head(rest).dur > Duration[Filler]
    \/ \A d \in DOMAIN rows : \A i \in 1..(Len(rows[d]) - 1) :
         End(rows[d][i]) = cursor /\ rows[d][i + 1].start = cursor => Straddled(cursor)

\* A viewer is shown the schedule: plans agree with it, and tuning in works.
OnAirAsScheduled == PlansAgree /\ TuneInStarts
=============================================================================

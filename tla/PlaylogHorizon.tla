--------------------------- MODULE PlaylogHorizon ---------------------------
(***************************************************************************)
(* The two-tier schedule horizon of one channel: DslScheduleService        *)
(* compiles broadcast days into memory and into CompiledProgramLog         *)
(* (Tier 1); PlaylogHorizonDaemon fills the ad breaks of the blocks ahead  *)
(* and writes them to TransmissionLog (Tier 2); the threads of the channel *)
(* ask get_block_at for a block, which fills it on the spot when the       *)
(* daemon has not.                                                         *)
(*                                                                         *)
(* Time is counted in grid blocks: block b runs over [b, b+1) and a        *)
(* broadcast day has DayBlocks of them.  What a row holds is left out.     *)
(***************************************************************************)
EXTENDS Integers, FiniteSets, FiniteSetsExt

CONSTANTS
  Readers,        \* threads of the channel that call get_block_at
  DayBlocks,      \* blocks of a broadcast day
  LastDay,        \* bound: the last day that can be compiled
  Lag,            \* 1 where the day boundary falls on the previous UTC date
  HorizonDays,    \* HORIZON_DAYS
  Threshold,      \* RECOMPILE_THRESHOLD_HOURS, in blocks
  MinDepth,       \* min_hours, in blocks
  Retain,         \* the four hours Tier 2 keeps, in blocks
  QueueDepth,     \* queue_depth: how far ahead of the block on air a session feeds
  MaxFaults       \* bound: failed fills, statements, compilations; restarts

ASSUME PlaylogAssumption ==
  /\ DayBlocks \in Nat \ {0} /\ Lag \in {0, 1}
  /\ {LastDay, HorizonDays, Threshold, MinDepth, Retain, MaxFaults} \subseteq Nat
  /\ QueueDepth \in Nat \ {0, 1}

Days == 0..LastDay
Blocks == 0..((LastDay + 1) * DayBlocks - 1)
DayOf(t) == t \div DayBlocks
BlocksOf(days) == {b \in Blocks : DayOf(b) \in days}

VARIABLES
  now,        \* the wall clock
  tier1,      \* days with a locked, segmented CompiledProgramLog row
  tier2,      \* the blocks that have a TransmissionLog row
  blocks,     \* DslScheduleService._blocks
  compiled,   \* DslScheduleService._compiled_days
  extending,  \* DslScheduleService._extending
  reader,     \* the call each thread is in
  nextBlock,  \* BlockPlanProducer._next_block_start_ms of its session
  daemon,     \* where the evaluation is, and what it works on
  far,        \* PlaylogHorizonDaemon._farthest_end_utc_ms
  excused,    \* blocks the daemon could not fill when its scan reached them
  unsaved,    \* blocks a thread has filled and answered, but could not write
  faults      \* faults so far

vars == <<now, tier1, tier2, blocks, compiled, extending, reader, nextBlock,
          daemon, far, excused, unsaved, faults>>
service == <<blocks, compiled, extending>>

Faulty == faults < MaxFaults /\ faults' = faults + 1

----------------------------------------------------------------------------
(* Starting Core *)

\* _build_initial: today and the days after it.  A day whose compilation
\* throws is left out; one that is in the database is read from there.
FirstDays(t) == {d \in Days : d \in DayOf(t)..(DayOf(t) + HorizonDays - 1)}

NoSession == -1                 \* nextBlock of a thread that feeds no session
Idle == [pc |-> "idle", at |-> 0, day |-> 0, insert |-> FALSE]
Resting == [pc |-> "idle", at |-> 0, cursor |-> 0, day |-> 0, todo |-> {},
            insert |-> FALSE, done |-> FALSE]

Init ==
  /\ now = 0
  /\ \E failed \in SUBSET FirstDays(0) :
       /\ Cardinality(failed) <= MaxFaults
       /\ faults = Cardinality(failed)
       /\ tier1 = FirstDays(0) \ failed
  /\ blocks = BlocksOf(tier1)
  /\ compiled = tier1
  /\ extending = FALSE
  /\ tier2 = {}
  /\ reader = [r \in Readers |-> Idle]
  /\ nextBlock = [r \in Readers |-> NoSession]
  /\ daemon = Resting
  /\ far = 0
  /\ excused = {}
  /\ unsaved = {}

\* Core dies and is started again: memory is lost, both tiers stay.
Restart ==
  /\ \E failed \in SUBSET (FirstDays(now) \ tier1) :
       /\ faults' = faults + Cardinality(failed) + 1
       /\ faults' <= MaxFaults
       /\ tier1' = tier1 \union (FirstDays(now) \ failed)
       /\ compiled' = FirstDays(now) \ failed
  /\ blocks' = BlocksOf(compiled')
  /\ extending' = FALSE
  /\ reader' = [r \in Readers |-> Idle]
  /\ nextBlock' = [r \in Readers |-> NoSession]
  /\ daemon' = Resting
  /\ far' = 0
  /\ UNCHANGED <<now, tier2, excused, unsaved>>

----------------------------------------------------------------------------
(* DslScheduleService: a thread of the channel asks for the block at t     *)

LastEnd == Max(blocks) + 1

\* Mutants of NextDay: only the date itself is tried; a day too far is.
NextDayByDate == DayOf(LastEnd) - Lag
NextDayTooFar == DayOf(LastEnd) + 1

\* The day _maybe_extend_horizon compiles: the date the last block ends on,
\* or the day after it when that one has been compiled; none when both have.
NextDay ==
  LET d == DayOf(LastEnd) - Lag
      open == {d, d + 1} \ compiled
  IN IF open = {} THEN LastDay + 1 ELSE Min(open)

ThinAt(t) == /\ ~extending
             /\ blocks # {}
             /\ LastEnd - t <= Threshold
             /\ NextDay \in Days

Call(r, call) == reader' = [reader EXCEPT ![r] = call]

Asks(r, t) ==
  /\ reader[r].pc = "idle"
  /\ t \in Blocks
  /\ IF ThinAt(t)
     THEN /\ extending' = TRUE
          /\ Call(r, [Idle EXCEPT !.pc = "compile", !.at = t, !.day = NextDay])
     ELSE /\ UNCHANGED extending
          /\ Call(r, [Idle EXCEPT !.pc = "find", !.at = t])
  /\ UNCHANGED <<now, tier1, tier2, blocks, compiled, nextBlock, daemon, far,
                 excused, unsaved, faults>>

\* A thread that starts a session asks for the block on air (_ensure_producer
\* and start do); one that has a session asks for the block at its cursor, and
\* AIR's queue has room for QueueDepth blocks after the one on air.  The cursor
\* stays at a block that was not found, however late it is.
TunesIn(r) == Asks(r, now)
Feeds(r) == /\ nextBlock[r] \in 0..(now + QueueDepth)
            /\ Asks(r, nextBlock[r])

\* _advance_cursor: the session has got its block.
Answers(r) ==
  /\ Call(r, Idle)
  /\ nextBlock' = [nextBlock EXCEPT ![r] = reader[r].at + 1]

\* _prune_old_blocks keeps what ended less than 24 hours ago;
\* _purge_expired_tier1 keeps yesterday and later.
Recent(bs, t) == {b \in bs : b + 1 > t - DayBlocks}
Kept(days) == {d \in days : d >= DayOf(now) - 1}

\* A save that throws is swallowed: the day is then in memory only.  A
\* compilation that throws leaves the horizon as it was.
Compiles(r) ==
  LET d == reader[r].day IN
  /\ reader[r].pc = "compile"
  /\ extending' = FALSE
  /\ Call(r, [reader[r] EXCEPT !.pc = "find", !.day = 0])
  /\ \/ /\ compiled' = compiled \union {d}
        /\ blocks' = Recent(blocks \union BlocksOf({d}), reader[r].at)
        /\ \/ tier1' = Kept(tier1 \union {d}) /\ UNCHANGED faults
           \/ d \notin tier1 /\ Faulty /\ tier1' = Kept(tier1)
     \/ d \notin tier1 /\ Faulty /\ UNCHANGED <<compiled, blocks, tier1>>
  /\ UNCHANGED <<now, tier2, nextBlock, daemon, far, excused, unsaved>>

\* A pure in-memory lookup: no block, no answer.
Finds(r) ==
  /\ reader[r].pc = "find"
  /\ Call(r, IF reader[r].at \in blocks
             THEN [reader[r] EXCEPT !.pc = "lookup"] ELSE Idle)
  /\ UNCHANGED <<now, tier1, tier2, service, nextBlock, daemon, far, excused,
                 unsaved, faults>>

\* _get_filled_block_by_id, and the same query again in
\* ensure_block_compiled.  A row is the answer; a query that throws counts as
\* no row.
LooksUp(r) ==
  LET known == reader[r].at \in tier2
      onwards == [reader[r] EXCEPT !.pc = "fill"]
  IN
  /\ reader[r].pc = "lookup"
  /\ \/ known /\ Answers(r) /\ UNCHANGED faults
     \/ ~known /\ Call(r, onwards) /\ UNCHANGED <<nextBlock, faults>>
     \/ known /\ Call(r, onwards) /\ UNCHANGED nextBlock /\ Faulty
  /\ UNCHANGED <<now, tier1, tier2, service, daemon, far, excused, unsaved>>

\* The fill and the SELECT of Session.merge, which decides between INSERT
\* and UPDATE.  A fill that throws throws to the caller.
FillsNow(r) ==
  /\ reader[r].pc = "fill"
  /\ \/ /\ Call(r, [reader[r] EXCEPT !.pc = "commit",
                                     !.insert = reader[r].at \notin tier2])
        /\ UNCHANGED faults
     \/ Call(r, Idle) /\ Faulty
  /\ UNCHANGED <<now, tier1, tier2, service, nextBlock, daemon, far, excused,
                 unsaved>>

\* The commit fails when another session's commit falsified that SELECT.
Clash(b, insert) == insert # (b \notin tier2)

\* The answer is the filled block, persisted or not: what the commit throws is
\* swallowed.
Commits(r) ==
  LET b == reader[r].at IN
  /\ reader[r].pc = "commit"
  /\ Answers(r)
  /\ \/ /\ ~Clash(b, reader[r].insert)
        /\ tier2' = tier2 \union {b}
        /\ UNCHANGED <<unsaved, faults>>
     \/ Clash(b, reader[r].insert) /\ UNCHANGED <<tier2, unsaved, faults>>
     \/ /\ ~Clash(b, reader[r].insert)
        /\ Faulty
        /\ unsaved' = unsaved \union {b}
        /\ UNCHANGED tier2
  /\ UNCHANGED <<now, tier1, service, daemon, far, excused>>

----------------------------------------------------------------------------
(* PlaylogHorizonDaemon: one evaluation *)

Frontier == IF tier2 = {} THEN 0 ELSE Max(tier2) + 1
Larger(m, n) == IF m > n THEN m ELSE n
TargetEnd == daemon.at + MinDepth
ScanTo == DayOf(TargetEnd - 1)
Backfill == -1                  \* daemon.day while the block on air is filled

\* _ensure_tier2_covers_now: the block on air is filled first if it has no
\* row.
Evaluates ==
  LET hole == now \notin tier2 IN
  /\ daemon.pc = "idle"
  /\ daemon' = IF hole /\ DayOf(now) \in tier1
               THEN [Resting EXCEPT !.pc = "fill", !.at = now, !.day = Backfill,
                                    !.todo = {now}]
               ELSE [Resting EXCEPT !.pc = "frontier", !.at = now]
  /\ excused' = excused \union {b \in {now} : hole /\ DayOf(b) \notin tier1}
  /\ UNCHANGED <<now, tier1, tier2, service, reader, nextBlock, far, unsaved,
                 faults>>

\* The end of the last row is taken for the depth; enough of it ends the
\* evaluation, before the purge.
ReadsFrontier ==
  LET reached == Larger(far, Frontier)
      cursor == Larger(reached, daemon.at)
  IN
  /\ daemon.pc = "frontier"
  /\ far' = reached
  /\ daemon' = IF reached - daemon.at >= MinDepth
               THEN [Resting EXCEPT !.at = daemon.at, !.done = TRUE]
               ELSE [daemon EXCEPT !.pc = "scan", !.cursor = cursor,
                                   !.day = DayOf(cursor)]
  /\ UNCHANGED <<now, tier1, tier2, service, reader, nextBlock, excused,
                 unsaved, faults>>

\* Mutant of Wanted: the block that starts at the cursor is passed over.
WantedBeyond(d) == {b \in BlocksOf({d}) : b > daemon.cursor /\ b < TargetEnd}

\* One day of _extend_to_target: its blocks between the cursor and the
\* target, less those that have a row.  (The scan also looks at the day on
\* either side, for blocks that cross a day boundary; these here do not.)
Wanted(d) == {b \in BlocksOf({d}) : b + 1 > daemon.cursor /\ b < TargetEnd}
Missing(d) == Wanted(d) \ tier2

ScansDay ==
  LET d == daemon.day
      seen == d \in tier1
  IN
  /\ daemon.pc = "scan"
  /\ d <= ScanTo
  /\ far' = IF seen THEN Max({far} \union {b + 1 : b \in Wanted(d) \ Missing(d)})
                    ELSE far
  /\ daemon' = IF seen /\ Missing(d) # {}
               THEN [daemon EXCEPT !.pc = "fill", !.todo = Missing(d)]
               ELSE [daemon EXCEPT !.day = d + 1]
  /\ excused' = IF seen THEN excused ELSE excused \union Wanted(d)
  /\ UNCHANGED <<now, tier1, tier2, service, reader, nextBlock, unsaved,
                 faults>>

\* The blocks are filled in the order of their starts.
Block == Min(daemon.todo)

\* Its block is done with: what the evaluation turns to.
AfterBlock ==
  IF daemon.todo # {Block}
  THEN [daemon EXCEPT !.pc = "fill", !.todo = @ \ {Block}, !.insert = FALSE]
  ELSE IF daemon.day = Backfill
  THEN [Resting EXCEPT !.pc = "frontier", !.at = daemon.at]
  ELSE [daemon EXCEPT !.pc = "scan", !.todo = {}, !.day = @ + 1, !.insert = FALSE]

\* The fill and the SELECT of the merge; a fill that throws is counted and
\* the block passed over.
Prefills ==
  /\ daemon.pc = "fill"
  /\ \/ /\ daemon' = [daemon EXCEPT !.pc = "commit", !.insert = Block \notin tier2]
        /\ UNCHANGED <<excused, faults>>
     \/ /\ Faulty
        /\ daemon' = AfterBlock
        /\ excused' = excused \union {Block}
  /\ UNCHANGED <<now, tier1, tier2, service, reader, nextBlock, far, unsaved>>

Prewrites ==
  /\ daemon.pc = "commit"
  /\ ~Clash(Block, daemon.insert)
  /\ tier2' = tier2 \union {Block}
  /\ far' = Larger(far, Block + 1)
  /\ daemon' = AfterBlock
  /\ UNCHANGED <<now, tier1, service, reader, nextBlock, excused, unsaved,
                 faults>>

\* A statement that fails leaves the session of the whole evaluation unusable:
\* nothing it still tries is read or written, and the next one starts afresh.
Breaks ==
  /\ \/ /\ daemon.pc = "commit"
        /\ Clash(Block, daemon.insert)
        /\ UNCHANGED faults
     \/ daemon.pc # "idle" /\ Faulty
  /\ daemon' = Resting
  /\ UNCHANGED <<now, tier1, tier2, service, reader, nextBlock, far, excused,
                 unsaved>>

\* The end of an evaluation that had to extend: rows that ended Retain ago
\* are deleted, unless it was done less than an hour ago.
Purges ==
  /\ daemon.pc = "scan"
  /\ daemon.day > ScanTo
  /\ \/ tier2' = {b \in tier2 : b + 1 > daemon.at - Retain}
     \/ UNCHANGED tier2
  /\ daemon' = [Resting EXCEPT !.at = daemon.at, !.done = TRUE]
  /\ UNCHANGED <<now, tier1, service, reader, nextBlock, far, excused,
                 unsaved, faults>>

----------------------------------------------------------------------------
(* A block of time passes.  The daemon evaluates every 60 to 75 seconds    *)
(* and a block lasts 30 minutes: it has looked at this one before, and no  *)
(* call lasts longer than a block.                                         *)
Tick ==
  /\ now + 1 \in Blocks
  /\ daemon.done /\ daemon.at = now
  /\ \A r \in Readers : reader[r].pc = "idle" \/ reader[r].at >= now
  /\ now' = now + 1
  /\ excused' = {b \in excused : b > now}
  /\ unsaved' = {b \in unsaved : b > now}
  /\ UNCHANGED <<tier1, tier2, service, reader, nextBlock, daemon, far, faults>>

Daemon == Evaluates \/ ReadsFrontier \/ ScansDay \/ Prefills \/ Prewrites
            \/ Breaks \/ Purges
Reader(r) == Compiles(r) \/ Finds(r) \/ LooksUp(r) \/ FillsNow(r) \/ Commits(r)
Next ==
  \/ \E r \in Readers : TunesIn(r) \/ Feeds(r) \/ Reader(r)
  \/ Daemon
  \/ Tick
  \/ Restart

Spec == Init /\ [][Next]_vars

(* The daemon thread and the threads inside a call go on; time passes; and *)
(* somebody keeps asking for the block on air.                             *)
FairSpec ==
  /\ Spec
  /\ WF_vars(Daemon)
  /\ SF_vars(Tick)
  /\ \A r \in Readers : WF_vars(Reader(r))
  /\ SF_vars(\E r \in Readers : TunesIn(r))

----------------------------------------------------------------------------
(* Properties *)

\* Every variable keeps its type, and an evaluation that fills has a block
\* to fill.
TypeOK ==
  /\ now \in Blocks
  /\ tier1 \subseteq Days /\ compiled \subseteq Days
  /\ blocks \subseteq BlocksOf(compiled)
  /\ extending \in BOOLEAN
  /\ tier2 \subseteq Blocks
  /\ reader \in [Readers -> [pc : {"idle", "compile", "find", "lookup",
                                   "fill", "commit"},
                             at : Blocks, day : Days, insert : BOOLEAN]]
  /\ daemon.pc \in {"idle", "frontier", "scan", "fill", "commit"}
  /\ daemon.pc \in {"fill", "commit"} <=> daemon.todo # {}
  /\ nextBlock \in [Readers -> NoSession..(Max(Blocks) + 1)]
  /\ far \in 0..(Max(Blocks) + 1)
  /\ excused \subseteq Blocks /\ unsaved \subseteq Blocks
  /\ faults \in 0..MaxFaults

\* An evaluation that ran to its end leaves every block of the next MinDepth
\* with a row, save those that somebody tried in vain: its own scan (the fill
\* threw, or the day was not compiled yet) or a session whose write failed.
\* The frontier is only the end of the last row, and sessions write rows too,
\* ahead of the clock: so this says that nothing is ever written beyond a
\* block that was not tried.
DepthKept ==
  daemon.done /\ daemon.at = now =>
    \A b \in Blocks : b \in now..(now + MinDepth - 1) =>
      b \in tier2 \union excused \union unsaved

\* A day is left out when a later one is compiled and it is not.
LeftOut(d) == d \notin compiled /\ \E e \in compiled : e > d

\* _maybe_extend_horizon never leaves a day out: only a start does, when the
\* day's compilation throws.
NoDaySkipped ==
  [][\A d \in Days : LeftOut(d)' => LeftOut(d) \/ Restart]_vars

\* The schedule catches up with the clock while somebody asks, unless all
\* that was in memory has been pruned or the day was left out at the start.
CatchesUp == <>[](now \in blocks \/ blocks = {} \/ LeftOut(DayOf(now)))

\* "Rolling horizon: ... appends the next day automatically"
\* (dsl_schedule_service.py:8): a channel somebody watches has a schedule,
\* unless the day was left out at the start.
HorizonRolls == <>[](now \in blocks \/ LeftOut(DayOf(now)))

=============================================================================

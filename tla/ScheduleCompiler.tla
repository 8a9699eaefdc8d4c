-------------------------- MODULE ScheduleCompiler --------------------------
(***************************************************************************)
(* compile_schedule as DslScheduleService calls it at its start, one       *)
(* broadcast day after the other: the layers of the DSL are merged, each   *)
(* block definition places program blocks, which are sorted, checked       *)
(* against the grid, pushed forward where they overlap, and published as   *)
(* the day's row and as part of the list of blocks in memory.              *)
(*                                                                         *)
(* Times are in units, of which Grid make a grid slot and DayLen a day.    *)
(* What a seeded generator picks is any of its candidates.  The time zone  *)
(* is a fixed offset.                                                      *)
(***************************************************************************)
EXTENDS AssetLengths, SequencesExt, FiniteSetsExt

CONSTANTS
  Grid,        \* units of a grid slot
  DayLen,      \* units of a day
  DayStart,    \* BROADCAST_DAY_START_HOUR, as a clock time
  FinalDay,    \* the last day compiled, HORIZON_DAYS - 1
  PoolOf,      \* [pool -> its assets, in order]
  ShortMovie,  \* a movie shorter than this, but not 0, is passed over
  Dsls         \* the DSLs: sequences of layers [days, defs]

ASSUME TimeAssumption ==
  Grid \in Nat \ {0} /\ {DayLen, DayStart, FinalDay} \subseteq Nat
\* query() filters the catalog, which holds an asset once.
ASSUME PoolAssumption ==
  \A pool \in DOMAIN PoolOf :
    PoolOf[pool] \in Seq(DOMAIN Duration) /\ IsInjective(PoolOf[pool])

(* A definition is a record [kind, pools, entries, mode, end, bleed, admits]: *)
(* entries are the slots of a slot list, [pool, mode]; admits are the movies  *)
(* that pass its rating and max_duration.  validate_dsl refuses a slot or a   *)
(* movie of an unknown pool; a block of an unknown pool fails its day, as one *)
(* of a pool without assets does.                                             *)
Kinds == {"slots", "block", "movie", "marathon"}
Valid(def) ==
  /\ def.kind \in Kinds /\ def.end \in Nat
  /\ def.pools \in Seq(DOMAIN PoolOf) /\ (def.kind # "slots" => def.pools # <<>>)
  /\ def.entries \in Seq([pool : DOMAIN PoolOf \union DOMAIN Duration, mode : STRING])
  /\ \A n \in DOMAIN def.entries :
       def.entries[n].mode # "fixed" => def.entries[n].pool \in DOMAIN PoolOf
ASSUME DslAssumption ==
  \A layers \in Dsls :
    /\ layers \in Seq(Range(layers))
    /\ \A i \in DOMAIN layers : LET defs == layers[i].defs IN
         /\ DOMAIN defs \subseteq Nat /\ IsFiniteSet(DOMAIN defs)
         /\ \A from \in DOMAIN defs : Valid(defs[from])

VARIABLES
  dsl,       \* the channel's schedule, base layer first
  day,       \* the day that is compiled
  pc,        \* where its compilation is
  starts,    \* start times of the definitions still to come
  job,       \* the definition that is placed: [from, def, at, end, turn]
  counters,  \* sequential_counters
  used,      \* used_movie_ids
  made,      \* all_blocks
  todo,      \* all_blocks, sorted, from the one the compaction is at
  done,      \* compacted
  rows,      \* [compiled day -> the program blocks of its row]
  timeline   \* DslScheduleService._blocks

compilerVars == <<dsl, day, pc, starts, job, counters, used, made, todo, done,
                  rows, timeline>>

----------------------------------------------------------------------------
(* One day of the DSL *)

\* resolve_day_schedule: a higher layer replaces definitions with the same
\* start time.
Merged(d) ==
  LET layers == {i \in DOMAIN dsl : d \in dsl[i].days}
      Defining(t) == {i \in layers : t \in DOMAIN dsl[i].defs}
  IN [t \in UNION {DOMAIN dsl[i].defs : i \in layers} |-> dsl[Max(Defining(t))].defs[t]]

\* _parse_time: a clock time before the start of the broadcast day is on the
\* next calendar day.
At(d, clock) ==
  d * DayLen + clock + (IF clock < DayStart THEN DayLen ELSE 0)
EndAt(d, from, end) ==
  LET at == At(d, end) IN IF at <= At(d, from) THEN at + DayLen ELSE at

SlotsOf(asset) ==
  IF Duration[asset] <= Grid THEN 1 ELSE (Duration[asset] + Grid - 1) \div Grid
\* _grid_slot_duration
SlotDuration(asset) == SlotsOf(asset) * Grid

\* _count_slots_in_dsl; the mutant counts slot lists only.
LengthInSlots(from, end) ==
  LET len == IF end <= from THEN end + DayLen - from ELSE end - from IN
  IF len < Grid THEN 1 ELSE len \div Grid
CountedEntries(from, def) == Len(def.entries)
Counted(from, def) ==
  CASE def.kind = "slots" -> Len(def.entries)
    [] def.kind \in {"block", "marathon"} -> LengthInSlots(from, def.end)
    [] def.kind = "movie" -> 1
DslSlots ==
  UNION {UNION {{<<i, from, n>> : n \in 1..Counted(from, dsl[i].defs[from])} :
                  from \in DOMAIN dsl[i].defs} : i \in DOMAIN dsl}
SlotsPerDay == Cardinality(DslSlots)

NoJob == [from |-> 0, def |-> [kind |-> "none"], at |-> 0, end |-> 0, turn |-> 0]

CompilerInit ==
  /\ dsl \in Dsls
  /\ day = 0 /\ pc = "idle"
  /\ starts = <<>> /\ job = NoJob
  /\ counters = [p \in DOMAIN PoolOf |-> 0] /\ used = {}
  /\ made = <<>> /\ todo = <<>> /\ done = <<>>
  /\ rows = [d \in {} |-> <<>>] /\ timeline = <<>>

\* _compile_day up to the loop over the definitions, which are taken by their
\* start times as strings.
BeginDay ==
  /\ pc = "idle" /\ day <= FinalDay
  /\ starts' = Ascending(DOMAIN Merged(day))
  /\ counters' = [p \in DOMAIN PoolOf |-> day * SlotsPerDay]
  /\ used' = {} /\ made' = <<>> /\ todo' = <<>> /\ done' = <<>>
  /\ pc' = "next"
  /\ UNCHANGED <<dsl, day, job, rows, timeline>>

\* _build_initial catches what a day's compilation raises and goes on.
FailDay ==
  /\ pc' = "idle" /\ day' = day + 1
  /\ starts' = <<>> /\ made' = <<>> /\ todo' = <<>> /\ done' = <<>> /\ job' = NoJob
  /\ UNCHANGED <<dsl, counters, used, rows, timeline>>

OpenDef ==
  /\ pc = "next" /\ starts # <<>>
  /\ LET from == Head(starts)
         def == Merged(day)[from] IN
     /\ job' = [from |-> from, def |-> def, at |-> At(day, from),
                end |-> EndAt(day, from, def.end), turn |-> 0]
     /\ pc' = def.kind
  /\ starts' = Tail(starts)
  /\ UNCHANGED <<dsl, day, counters, used, made, todo, done, rows, timeline>>

CloseDef == pc' = "next" /\ job' = NoJob

----------------------------------------------------------------------------
(* Placing program blocks *)

\* ProgramBlockOutput: due is where its definition puts it, and turn the
\* value of its pool's counter.
ProgramBlock(asset, at, pool, turn) ==
  [asset |-> asset, start |-> at, dur |-> SlotDuration(asset), due |-> at,
   pool |-> pool, turn |-> turn]

\* select_episode: sequential takes the pool's next one, anything else any.
InTurn(pool) == PoolOf[pool][(counters[pool] % Len(PoolOf[pool])) + 1]
SelectEpisode(pool, mode, asset) ==
  /\ asset \in Range(PoolOf[pool])
  /\ IF mode = "sequential"
     THEN asset = InTurn(pool) /\ counters' = [counters EXCEPT ![pool] = @ + 1]
     ELSE UNCHANGED counters
\* An entry of a slot list may also name its program.
SelectEntry(entry, asset) ==
  IF entry.mode = "fixed" THEN asset = entry.pool /\ UNCHANGED counters
                          ELSE SelectEpisode(entry.pool, entry.mode, asset)
Turn(pool, mode) == IF mode = "sequential" THEN counters[pool] ELSE -1

Place(asset, pool, turn) ==
  /\ made' = Append(made, ProgramBlock(asset, job.at, pool, turn))
  /\ job' = [job EXCEPT !.at = @ + SlotDuration(asset)]

\* _compile_sitcom_block: a long episode takes up the entries after it.
PlaceSlot ==
  /\ pc = "slots" /\ job.turn < Len(job.def.entries)
  /\ LET entry == job.def.entries[job.turn + 1] IN
     \E asset \in DOMAIN Duration :
       /\ SelectEntry(entry, asset)
       /\ made' = Append(made, ProgramBlock(asset, job.at, entry.pool,
                                            Turn(entry.pool, entry.mode)))
       /\ job' = [job EXCEPT !.at = @ + SlotDuration(asset),
                             !.turn = @ + SlotsOf(asset)]
  /\ UNCHANGED <<dsl, day, pc, starts, used, todo, done, rows, timeline>>
SlotsEnd ==
  /\ pc = "slots" /\ job.turn >= Len(job.def.entries)
  /\ CloseDef
  /\ UNCHANGED <<dsl, day, starts, counters, used, made, todo, done, rows, timeline>>

\* _compile_episode_block: sequential and shuffle take turns over the pools.
InRotation(n) ==
  job.def.mode # "random" => n = (job.turn % Len(job.def.pools)) + 1
PlaceEpisode ==
  /\ pc = "block" /\ job.at < job.end
  /\ LET pools == job.def.pools
         rotates == Len(pools) > 1 /\ job.def.mode \in {"sequential", "shuffle"}
         mode == IF job.def.mode \in {"sequential", "shuffle"} THEN "sequential"
                                                               ELSE job.def.mode
     IN
     \E asset \in DOMAIN Duration, n \in DOMAIN pools :
       /\ InRotation(n)
       /\ SelectEpisode(pools[n], mode, asset)
       /\ made' = Append(made, ProgramBlock(asset, job.at, pools[n], Turn(pools[n], mode)))
       /\ job' = [job EXCEPT !.at = @ + SlotDuration(asset),
                             !.turn = IF rotates THEN @ + 1 ELSE @]
  /\ UNCHANGED <<dsl, day, pc, starts, used, todo, done, rows, timeline>>
EpisodesEnd ==
  /\ pc = "block" /\ job.at >= job.end
  /\ CloseDef
  /\ UNCHANGED <<dsl, day, starts, counters, used, made, todo, done, rows, timeline>>

\* select_episode raises when the pool is empty, and the day fails.
NoEpisode ==
  /\ \/ /\ pc = "slots" /\ job.turn < Len(job.def.entries)
        /\ LET entry == job.def.entries[job.turn + 1] IN
           entry.mode # "fixed" /\ PoolOf[entry.pool] = <<>>
     \/ /\ pc = "block" /\ job.at < job.end
        /\ \E n \in DOMAIN job.def.pools :
             InRotation(n) /\ PoolOf[job.def.pools[n]] = <<>>
  /\ FailDay

Movies == UNION {Range(PoolOf[p]) : p \in Range(job.def.pools)}
Eligible == {m \in Movies : /\ m \in job.def.admits
                            /\ Duration[m] = 0 \/ Duration[m] >= ShortMovie}

\* _compile_movie_block: without a candidate the day fails.
PlaceMovie ==
  /\ pc = "movie"
  /\ \E m \in Eligible :
       made' = Append(made, ProgramBlock(m, job.at, Head(job.def.pools), -1))
  /\ CloseDef
  /\ UNCHANGED <<dsl, day, starts, counters, used, todo, done, rows, timeline>>
NoMovie == pc = "movie" /\ Eligible = {} /\ FailDay

\* _compile_movie_marathon: the movie that runs past the end is dropped unless
\* it may bleed.
Overruns(end) == end > job.end /\ ~job.def.bleed
PlaceMarathon ==
  /\ pc = "marathon" /\ job.at < job.end
  /\ \E m \in Eligible \ used :
       /\ used' = used \union {m}
       /\ IF Overruns(job.at + SlotDuration(m))
          THEN CloseDef /\ UNCHANGED made
          ELSE Place(m, Head(job.def.pools), -1) /\ UNCHANGED pc
  /\ UNCHANGED <<dsl, day, starts, counters, todo, done, rows, timeline>>
\* Every movie was used: all may be used again.  Without a candidate at all
\* the attempts run out.
ResetMarathon ==
  /\ pc = "marathon" /\ job.at < job.end /\ Eligible \subseteq used
  /\ used' = {}
  /\ IF Eligible = {} THEN CloseDef ELSE UNCHANGED <<pc, job>>
  /\ UNCHANGED <<dsl, day, starts, counters, made, todo, done, rows, timeline>>
MarathonEnds ==
  /\ pc = "marathon" /\ job.at >= job.end
  /\ CloseDef
  /\ UNCHANGED <<dsl, day, starts, counters, used, made, todo, done, rows, timeline>>

----------------------------------------------------------------------------
(* The end of compile_schedule *)

\* Python's sort keeps blocks with the same start in their order.
Sooner(s, i, j) == s[i].start < s[j].start \/ (s[i].start = s[j].start /\ i < j)
Rank(s, j) == Cardinality({i \in DOMAIN s : Sooner(s, i, j)}) + 1
SortedByStart(s) ==
  [n \in DOMAIN s |-> s[CHOOSE j \in DOMAIN s : Rank(s, j) = n]]

OnGrid(b) == b.start % Grid = 0 /\ b.dur % Grid = 0

\* The sort and the first _validate_grid_alignment.
SortBlocks ==
  /\ pc = "next" /\ starts = <<>>
  /\ \A i \in DOMAIN made : OnGrid(made[i])
  /\ todo' = SortedByStart(made)
  /\ pc' = "compact"
  /\ UNCHANGED <<dsl, day, starts, job, counters, used, made, done, rows, timeline>>
OffGrid ==
  /\ pc = "next" /\ starts = <<>>
  /\ \E i \in DOMAIN made : ~OnGrid(made[i])
  /\ FailDay

\* The compaction of one block; the mutant leaves a block that the one before
\* it encloses.
End(b) == b.start + b.dur
PushedIfPartial(b) ==
  IF done # <<>> /\ End(Last(done)) > b.start /\ End(Last(done)) < End(b)
  THEN [b EXCEPT !.start = End(Last(done))] ELSE b
Pushed(b) ==
  IF done # <<>> /\ End(Last(done)) > b.start
  THEN [b EXCEPT !.start = End(Last(done))] ELSE b
CompactNext ==
  /\ pc = "compact" /\ todo # <<>>
  /\ done' = Append(done, Pushed(Head(todo)))
  /\ todo' = Tail(todo)
  /\ UNCHANGED <<dsl, day, pc, starts, job, counters, used, made, rows, timeline>>

\* The row is saved, and _build_initial adds the blocks to the others.
PublishDay ==
  /\ pc = "compact" /\ todo = <<>>
  /\ rows' = [d \in DOMAIN rows \union {day} |-> IF d = day THEN done ELSE rows[d]]
  /\ timeline' = SortedByStart(timeline \o done)
  /\ pc' = "idle" /\ day' = day + 1
  /\ UNCHANGED <<dsl, starts, job, counters, used, made, todo, done>>

Compile ==
  \/ BeginDay \/ OpenDef \/ SortBlocks \/ OffGrid \/ CompactNext \/ PublishDay
  \/ PlaceSlot \/ SlotsEnd \/ PlaceEpisode \/ EpisodesEnd \/ NoEpisode
  \/ PlaceMovie \/ NoMovie \/ PlaceMarathon \/ ResetMarathon \/ MarathonEnds

CompilerSpec == CompilerInit /\ [][Compile]_compilerVars
=============================================================================

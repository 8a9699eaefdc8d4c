-------------------------- MODULE ExecutionHorizon --------------------------
(***************************************************************************)
(* HorizonManager and ExecutionWindowStore: the execution window of a      *)
(* channel whose schedule_source is "phase3".  The manager's thread        *)
(* evaluates every evaluation_interval_seconds: it resolves EPG days,      *)
(* generates execution days when the window is shallower than              *)
(* min_execution_hours, fills the block on air when it is missing, and     *)
(* publishes one more day when the window falls below the proactive        *)
(* watermark.  Any other caller of the store's publish API is the          *)
(* operator.                                                               *)
(*                                                                         *)
(* Time is counted in grid blocks; an entry covers one block.              *)
(***************************************************************************)
EXTENDS Integers, FiniteSets, FiniteSetsExt

CONSTANTS
  DayBlocks,      \* blocks of a broadcast day
  LastBlock,      \* bound: the wall clock stops there
  MinEpgDays,     \* min_epg_days
  MinDepth,       \* min_execution_hours, in blocks
  LockedWindows,  \* values of locked_window_ms, in blocks; 0 is unguarded
  Watermarks,     \* values of proactive_extend_threshold_ms; 0 is disabled
  MaxGeneration,  \* bound on generation ids
  MaxFailures,    \* bound on planning steps that throw
  MaxPublishes    \* bound on the operator's publishes

ASSUME HorizonAssumption ==
  /\ DayBlocks \in Nat \ {0}
  /\ {LastBlock, MinEpgDays, MinDepth, MaxGeneration, MaxFailures, MaxPublishes} \subseteq Nat
  /\ LockedWindows \subseteq Nat /\ Watermarks \subseteq Nat

\* A window of no depth promises nothing of the block on air.
ASSUME DepthAssumption == MinDepth > 0

DayOf(t) == t \div DayBlocks
Days == 0..(DayOf(LastBlock + MinDepth) + MinEpgDays + 1)
Blocks == 0..((Cardinality(Days)) * DayBlocks - 1)
BlocksOf(d) == {b \in Blocks : DayOf(b) = d}
DayEnd(d) == (d + 1) * DayBlocks

\* An entry: its block, whose block_id it carries, generation and override.
Entry == [block : Blocks, by : {"plan", "operator"}, gen : 0..MaxGeneration,
          override : BOOLEAN]
Planned(d, gen) == {[block |-> b, by |-> "plan", gen |-> gen, override |-> FALSE] :
                      b \in BlocksOf(d)}

VARIABLES
  now,        \* the wall clock
  locked,     \* locked_window_ms of the store and of the manager
  watermark,  \* proactive_extend_threshold_ms
  entries,    \* ExecutionWindowStore._entries
  maxGen,     \* ExecutionWindowStore._max_generation_id
  records,    \* override records persisted
  epgEnd,     \* epg_window_end_utc_ms: end of the farthest resolved day
  windowEnd,  \* HorizonManager._execution_window_end_utc_ms
  nextGen,    \* HorizonManager._next_generation_id
  eval,       \* where evaluate_once is: [pc, at, ok]
  nextOk,     \* next_block_compliant
  seamsOk,    \* coverage_compliant
  removed,    \* blocks an operator's publish left without an entry
  failures,   \* planning steps that threw
  publishes   \* the operator's publishes

vars == <<now, locked, watermark, entries, maxGen, records, epgEnd, windowEnd,
          nextGen, eval, nextOk, seamsOk, removed, failures, publishes>>
store == <<entries, maxGen, records, removed>>
config == <<locked, watermark>>

Covered(es) == {e.block : e \in es}

\* get_entry_at: of two entries of a block the first one inserted, and an
\* operator's publish removes what was there before it.
EntryAt(es, b) ==
  LET here == {e \in es : e.block = b}
      mine == {e \in here : e.by = "operator"}
  IN IF mine # {} THEN mine ELSE here

Throws == failures < MaxFailures /\ failures' = failures + 1

Init ==
  /\ now = 0
  /\ locked \in LockedWindows /\ watermark \in Watermarks
  /\ entries = {} /\ maxGen = 0 /\ records = 0 /\ removed = {}
  /\ epgEnd = 0 /\ windowEnd = 0 /\ nextGen = 0
  /\ eval = [pc |-> "idle", at |-> -1, ok |-> TRUE]
  /\ nextOk = TRUE /\ seamsOk = TRUE
  /\ failures = 0 /\ publishes = 0

----------------------------------------------------------------------------
(* ExecutionWindowStore *)

\* add_entries: an entry whose block_id is there already is ignored.
AddEntries(new) ==
  LET known == {e.block : e \in {o \in entries : o.by = "plan"}} IN
  entries' = entries \union {e \in new : e.block \notin known}

\* Mutants of the two guards: only a range inside the window is refused; the
\* generation is not looked at.
LockedInside(from, to) == locked > 0 /\ from >= now /\ to <= now + locked
NeverStale(gen) == FALSE

LockedOut(from, to) == locked > 0 /\ from < now + locked /\ to > now
Stale(gen) == gen <= maxGen

\* publish_atomic_replace of [from, to) with the entries new.
Replaced(from, to, new) ==
  {e \in entries : e.block \notin from..(to - 1)} \union new

\* The operator replaces a range.  The locked window and the generation are
\* looked at; an override passes the lock, and its record is persisted before
\* the generation is looked at.
Publishes ==
  \E from \in Blocks, gen \in 1..MaxGeneration, override \in BOOLEAN :
  \E to \in {from + 1, from + 2}, given \in SUBSET {from, from + 1} :
    LET refused == LockedOut(from, to) /\ ~override
        new == {[block |-> b, by |-> "operator", gen |-> gen,
                 override |-> override] : b \in given}
    IN
    /\ publishes < MaxPublishes
    /\ given \subseteq from..(to - 1)
    /\ to - 1 \in now..(now + MinDepth)
    /\ publishes' = publishes + 1
    /\ records' = IF override THEN records + 1 ELSE records
    /\ IF refused \/ Stale(gen)
       THEN UNCHANGED <<entries, maxGen, removed>>
       ELSE /\ entries' = Replaced(from, to, new)
            /\ maxGen' = gen
            /\ removed' = (removed \ given) \union (from..(to - 1) \ given)
    /\ UNCHANGED <<now, config, epgEnd, windowEnd, nextGen, eval, nextOk, seamsOk,
                   failures>>

----------------------------------------------------------------------------
(* HorizonManager.evaluate_once *)

Goto(pc) == eval' = [eval EXCEPT !.pc = pc]
Failed(pc) == eval' = [eval EXCEPT !.pc = pc, !.ok = FALSE]

Starts ==
  /\ eval.pc = "idle"
  /\ eval' = [pc |-> "epg", at |-> now, ok |-> TRUE]
  /\ UNCHANGED <<now, config, store, epgEnd, windowEnd, nextGen, nextOk, seamsOk,
                 failures, publishes>>

\* Mutant: the clock's day is resolved again.
NextEpgDayOfClock == DayOf(eval.at)

\* The day that follows the farthest one resolved.
NextEpgDay == IF epgEnd = 0 THEN DayOf(eval.at) ELSE epgEnd \div DayBlocks

\* _extend_epg, a day at a time.  An exception ends the whole evaluation: the
\* execution window is not looked at.
ExtendsEpg ==
  LET due == epgEnd - eval.at < MinEpgDays * DayBlocks IN
  /\ eval.pc = "epg"
  /\ \/ /\ ~due
        /\ Goto("execution")
        /\ UNCHANGED <<epgEnd, failures>>
     \/ /\ due
        /\ epgEnd' = DayEnd(NextEpgDay)
        /\ UNCHANGED <<eval, failures>>
     \/ due /\ Throws /\ Failed("idle") /\ UNCHANGED epgEnd
  /\ UNCHANGED <<now, config, store, windowEnd, nextGen, nextOk, seamsOk, publishes>>

\* Mutant: a block short is deep enough.
ShallowByOne(t) == windowEnd + 1 < t + MinDepth

\* The day that follows the window, and when it is wanted.
Shallow(t) == windowEnd < t + MinDepth
NextDay == IF windowEnd = 0 THEN DayOf(eval.at) ELSE windowEnd \div DayBlocks
Grows(end) == windowEnd' = IF end > windowEnd THEN end ELSE windowEnd

\* _extend_execution, a day at a time; the first that throws ends it.
ExtendsExecution ==
  LET due == Shallow(eval.at) IN
  /\ eval.pc = "execution"
  /\ \/ /\ ~due
        /\ Goto("ready")
        /\ UNCHANGED <<entries, windowEnd, failures>>
     \/ /\ due
        /\ AddEntries(Planned(NextDay, 0))
        /\ Grows(DayEnd(NextDay))
        /\ UNCHANGED <<eval, failures>>
     \/ due /\ Throws /\ Failed("ready") /\ UNCHANGED <<entries, windowEnd>>
  /\ UNCHANGED <<now, config, maxGen, records, removed, epgEnd, nextGen, nextOk,
                 seamsOk, publishes>>

\* _check_next_block_ready: a hole at the block on air is left alone inside a
\* locked window, and else filled with the day's plan.
ChecksNext ==
  /\ eval.pc = "ready"
  /\ IF EntryAt(entries, eval.at) # {} \/ locked > 0
     THEN /\ nextOk' = (EntryAt(entries, eval.at) # {})
          /\ Goto("seams")
     ELSE Goto("fill") /\ UNCHANGED nextOk
  /\ UNCHANGED <<now, config, store, epgEnd, windowEnd, nextGen, seamsOk, failures,
                 publishes>>

FillsNext ==
  /\ eval.pc = "fill"
  /\ \/ /\ AddEntries(Planned(DayOf(eval.at), 0))
        /\ Grows(DayEnd(DayOf(eval.at)))
        /\ nextOk' = (EntryAt(entries', eval.at) # {})
        /\ Goto("seams")
        /\ UNCHANGED failures
     \/ Throws /\ Failed("seams") /\ nextOk' = FALSE /\ UNCHANGED <<entries, windowEnd>>
  /\ UNCHANGED <<now, config, maxGen, records, removed, epgEnd, nextGen, seamsOk,
                 publishes>>

\* _check_seam_contiguity over the whole store, the past included: no gap
\* between two entries and no two of one block.
Contiguous(es) ==
  /\ Cardinality(es) = Cardinality(Covered(es))
  /\ es # {} => Covered(es) = Min(Covered(es))..Max(Covered(es))

ChecksSeams ==
  /\ eval.pc = "seams"
  /\ seamsOk' = Contiguous(entries)
  /\ Goto("proactive")
  /\ UNCHANGED <<now, config, store, epgEnd, windowEnd, nextGen, nextOk, failures,
                 publishes>>

\* _check_proactive_extend: below the watermark one day is generated and
\* published with the manager's next generation id, which the store refuses
\* inside the locked window and when an operator's is not smaller.
ExtendsAhead ==
  LET due == /\ watermark > 0 /\ windowEnd - eval.at <= watermark
             /\ nextGen < MaxGeneration
      from == NextDay * DayBlocks
      to == DayEnd(NextDay)
      gen == nextGen + 1
  IN
  /\ eval.pc = "proactive"
  /\ \/ /\ ~due
        /\ Goto("idle")
        /\ UNCHANGED <<entries, maxGen, removed, windowEnd, nextGen, failures>>
     \/ /\ due
        /\ nextGen' = gen
        /\ IF LockedOut(from, to) \/ Stale(gen)
           THEN Failed("idle") /\ UNCHANGED <<entries, maxGen, removed, windowEnd>>
           ELSE /\ entries' = Replaced(from, to, Planned(NextDay, gen))
                /\ maxGen' = gen
                /\ removed' = removed \ BlocksOf(NextDay)
                /\ Grows(to)
                /\ Goto("idle")
        /\ UNCHANGED failures
     \/ /\ due /\ Throws /\ Failed("idle")
        /\ UNCHANGED <<entries, maxGen, removed, windowEnd, nextGen>>
  /\ UNCHANGED <<now, config, records, epgEnd, nextOk, seamsOk, publishes>>

----------------------------------------------------------------------------
(* A block of time passes; the manager evaluates many times in one. *)
Tick ==
  /\ now < LastBlock
  /\ eval.pc = "idle" /\ eval.at = now
  /\ now' = now + 1
  /\ UNCHANGED <<config, store, epgEnd, windowEnd, nextGen, eval, nextOk, seamsOk,
                 failures, publishes>>

Manager == Starts \/ ExtendsEpg \/ ExtendsExecution \/ ChecksNext \/ FillsNext
             \/ ChecksSeams \/ ExtendsAhead
Next == Manager \/ Publishes \/ Tick

Spec == Init /\ [][Next]_vars

(* The manager's thread goes on and time passes; an operator need not act. *)
FairSpec == Spec /\ WF_vars(Manager) /\ SF_vars(Tick)

----------------------------------------------------------------------------
(* Properties *)

\* Every variable keeps its type.
TypeOK ==
  /\ now \in 0..LastBlock
  /\ locked \in LockedWindows /\ watermark \in Watermarks
  /\ entries \subseteq Entry
  /\ maxGen \in 0..MaxGeneration /\ nextGen \in 0..MaxGeneration
  /\ records \in 0..MaxPublishes /\ publishes \in 0..MaxPublishes
  /\ epgEnd % DayBlocks = 0 /\ windowEnd % DayBlocks = 0
  /\ eval.pc \in {"idle", "epg", "execution", "ready", "fill", "seams", "proactive"}
  /\ eval.at \in -1..LastBlock /\ eval.ok \in BOOLEAN
  /\ nextOk \in BOOLEAN /\ seamsOk \in BOOLEAN
  /\ removed \subseteq Blocks
  /\ failures \in 0..MaxFailures

\* INV-HORIZON-CONTINUOUS-COVERAGE-001: the window's end is honest.  Every
\* block from now to windowEnd has an entry, save those an operator's publish
\* took out; two entries of one block are a plan's and an operator's.  The
\* manager alone leaves no gap until planning has failed more often than a day
\* has blocks, when the fill of the block on air may jump over a day.
WindowHonest ==
  /\ \A b \in Blocks : b \in now..(windowEnd - 1) =>
       b \in Covered(entries) \union removed
  /\ \A e, f \in entries : e.block = f.block => e = f \/ e.by # f.by
  /\ ~seamsOk => publishes > 0 \/ failures > DayBlocks
  /\ ~nextOk => publishes > 0 \/ failures > 0

\* An evaluation in which no planning step threw leaves the window at least
\* MinDepth deep, and the block on air with an entry unless a locked window
\* kept the hole an operator made.
DepthKept ==
  eval.pc = "idle" /\ eval.ok /\ eval.at = now =>
    /\ windowEnd >= now + MinDepth
    /\ now \in Covered(entries) \/ now \in removed

\* The window is what the store holds, and as deep as promised.
WindowKept == WindowHonest /\ DepthKept

\* INV-HORIZON-LOCKED-IMMUTABLE-001: what a reader finds inside the locked
\* window changes only by an override.
LockedStands ==
  [][\A b \in Blocks :
       b \in now..(now + locked - 1) /\ EntryAt(entries, b) # {} =>
         \/ EntryAt(entries', b) = EntryAt(entries, b)
         \/ records' > records]_vars

\* INV-HORIZON-ATOMIC-PUBLISH-001: a reader never sees the generation of a
\* block go back while the block has an entry.
GenerationsAdvance ==
  [][\A b \in Blocks :
       \A e \in EntryAt(entries, b), f \in EntryAt(entries', b) :
         e.gen <= f.gen]_vars

\* A planning failure or a refused publish is only ever a delay: the window is
\* deep enough in the end.
DepthReturns == <>[](windowEnd >= now + MinDepth /\ epgEnd >= now + MinEpgDays * DayBlocks)

=============================================================================

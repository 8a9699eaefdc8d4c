--------------------------- MODULE ScheduleProofs ---------------------------
(***************************************************************************)
(* The two ends of the schedule of a channel.                              *)
(*                                                                         *)
(* The horizon (PlaylogHorizon), for any length of day and horizon, any    *)
(* number of threads that ask for blocks and any faults:                   *)
(* DslScheduleService extends the horizon of a channel a day at a time and *)
(* only a start can leave out a day; and an evaluation of the daemon that  *)
(* runs to its end has tried every block of the next MinDepth.             *)
(*                                                                         *)
(* What a block holds (ProgramFeed), for any catalog, grid, DSL and spots: *)
(* the days that compile_schedule publishes are in order and on the grid,  *)
(* and their pools advance from day to day; a block that is cut into acts  *)
(* and filled by traffic lasts as long as its slot; and AIR is told to air *)
(* what the block has at that instant.                                     *)
(***************************************************************************)
EXTENDS PlaylogHorizon, ProgramFeed, FunctionTheorems, FiniteSetTheorems,
        SequenceTheorems, WellFoundedInduction, TLAPS

(***************************************************************************)
(* The inductive invariant.  The last block in memory is the last one of   *)
(* the last day that was compiled, however much was pruned before it; and  *)
(* the one thread that compiles is at the day after that.                  *)
(***************************************************************************)

Top(m)    == m \in compiled /\ \A d \in compiled : d <= m
EndOf(d)  == (d + 1) * DayBlocks - 1
EndsWith(m) == Top(m) /\ EndOf(m) \in blocks /\ \A b \in blocks : b <= EndOf(m)

Calls == [pc : {"idle", "compile", "find", "lookup", "fill", "commit"},
          at : Int, day : Int, insert : BOOLEAN]
Typed == /\ compiled \subseteq Days /\ blocks \subseteq Blocks
         /\ now \in Int /\ reader \in [Readers -> Calls]

EndInv == blocks # {} => \E m : EndsWith(m)

Compiling(r) == reader[r].pc = "compile"
CompileInv ==
  \A r \in Readers : Compiling(r) =>
    /\ extending
    /\ reader[r].day \in Days /\ \E m : EndsWith(m) /\ reader[r].day = m + 1
    /\ \A s \in Readers : Compiling(s) => s = r

IInv == Typed /\ EndInv /\ CompileInv

\* A thread asks for a block.
Asking == \E r \in Readers : TunesIn(r) \/ Feeds(r)

-----------------------------------------------------------------------------
(* Days and blocks.                                                        *)

\* A bounded set of numbers that is not empty has a greatest and a least one.
LEMMA Greatest ==
  ASSUME NEW n \in Nat, NEW T, T \subseteq 0..n, T # {}
  PROVE  \E m \in T : \A d \in T : d <= m
<1> DEFINE From(d) == d..n
           U == {From(d) : d \in T}
<1>1. \A d \in T : d \in Int /\ d <= n
  OBVIOUS
<1>2. U \subseteq FiniteSubsetsOf(Int) /\ U # {}
  <2>1. \A d \in T : IsFiniteSet(From(d)) /\ From(d) \subseteq Int
    BY <1>1, FS_Interval
  <2> QED   BY <2>1 DEF FiniteSubsetsOf
<1>3. IsWellFoundedOn(StrictSubsetOrdering(Int), FiniteSubsetsOf(Int))
  BY FS_StrictSubsetOrderingWellFounded
<1>4. PICK u \in U : \A w \in U : ~(<<w, u>> \in StrictSubsetOrdering(Int))
  <2> HIDE DEF U
  <2> QED   BY <1>2, <1>3, WFMin
<1>5. PICK m \in T : u = From(m)
  OBVIOUS
<1>6. ASSUME NEW d \in T PROVE d <= m
  <2> SUFFICES ASSUME d > m PROVE FALSE
    BY <1>1
  <2>1. From(d) \subseteq From(m) /\ m \in From(m) /\ m \notin From(d)
    BY <1>1
  <2>2. From(d) \subseteq Int /\ From(m) \subseteq Int
    BY <1>1
  <2>3. <<From(d), From(m)>> \in StrictSubsetOrdering(Int)
    <3> HIDE DEF From
    <3> QED   BY <2>1, <2>2 DEF StrictSubsetOrdering
  <2> QED   BY <1>4, <1>5, <2>3
<1> QED   BY <1>6

LEMMA Least ==
  ASSUME NEW n \in Nat, NEW T, T \subseteq 0..n, T # {}
  PROVE  \E m \in T : \A d \in T : m <= d
<1> DEFINE U == {n - d : d \in T}
<1>1. U \subseteq 0..n /\ U # {}
  <2>1. \A d \in T : n - d \in 0..n
    OBVIOUS
  <2> QED   BY <2>1
<1>2. PICK u \in U : \A d \in U : d <= u
  <2> HIDE DEF U
  <2> QED   BY <1>1, Greatest
<1>3. PICK m \in T : u = n - m
  BY <1>2
<1>4. ASSUME NEW d \in T PROVE m <= d
  <2>1. n - d <= n - m /\ d \in Int /\ m \in Int
    BY <1>2, <1>3
  <2> QED   BY <2>1
<1> QED   BY <1>4

\* What Max and Min take from such a set.
LEMMA MaxMin ==
  ASSUME NEW n \in Nat, NEW T, T \subseteq 0..n, T # {}
  PROVE  /\ Max(T) \in T /\ \A d \in T : d <= Max(T)
         /\ Min(T) \in T /\ \A d \in T : Min(T) <= d
<1>1. T \subseteq Int
  OBVIOUS
<1>2. \E m \in T : \A d \in T : m >= d
  BY <1>1, Greatest
<1>3. \E m \in T : \A d \in T : m <= d
  BY Least
<1>4. Max(T) \in T /\ \A d \in T : Max(T) >= d
  BY <1>2 DEF Max
<1>5. Min(T) \in T /\ \A d \in T : Min(T) <= d
  BY <1>3 DEF Min
<1> QED   BY <1>1, <1>4, <1>5

\* A set of days that is not empty has a last one.
LEMMA LastOfDays ==
  ASSUME NEW T, T \subseteq Days, T # {}
  PROVE  \E m \in T : \A d \in T : d <= m
BY Greatest, PlaylogAssumption DEF Days

\* The last block of a day is in it, and no block of it comes later.
LEMMA DayEnds ==
  ASSUME NEW d \in Days
  PROVE  /\ EndOf(d) \in Blocks /\ DayOf(EndOf(d)) = d
         /\ DayOf(EndOf(d) + 1) = d + 1
         /\ \A b \in Blocks : DayOf(b) <= d => b <= EndOf(d)
<1>1. DayBlocks \in Nat \ {0} /\ LastDay \in Nat /\ d \in Nat /\ d <= LastDay
  BY PlaylogAssumption DEF Days
<1>2. (d + 1) * DayBlocks = d * DayBlocks + DayBlocks
  BY <1>1
<1>3. d * DayBlocks \in Nat /\ (LastDay + 1) * DayBlocks \in Nat
  BY <1>1
<1>4. (d + 1) * DayBlocks <= (LastDay + 1) * DayBlocks
  BY <1>1
<1>5. EndOf(d) \in Blocks
  BY <1>1, <1>2, <1>3, <1>4 DEF EndOf, Blocks
<1>6. DayOf(EndOf(d)) = d
  BY <1>1, <1>2, <1>3 DEF DayOf, EndOf
<1>7. DayOf(EndOf(d) + 1) = d + 1
  BY <1>1, <1>2, <1>3 DEF DayOf, EndOf
<1>8. ASSUME NEW b \in Blocks, DayOf(b) <= d  PROVE b <= EndOf(d)
  <2>1. b \in Nat /\ DayOf(b) \in Nat
    BY <1>1, <1>8 DEF Blocks, DayOf
  <2>2. b < (DayOf(b) + 1) * DayBlocks
    BY <1>1, <2>1 DEF DayOf
  <2>3. (DayOf(b) + 1) * DayBlocks <= (d + 1) * DayBlocks
    BY <1>1, <1>8, <2>1
  <2> QED   BY <1>1, <1>2, <1>3, <2>1, <2>2, <2>3 DEF EndOf
<1> QED   BY <1>5, <1>6, <1>7, <1>8

\* What a start puts into memory ends with the last of its days.
LEMMA BuiltEnds ==
  ASSUME NEW T, T \subseteq Days, T # {}
  PROVE  \E m \in T : /\ \A d \in T : d <= m
                      /\ EndOf(m) \in BlocksOf(T) /\ \A b \in BlocksOf(T) : b <= EndOf(m)
<1>1. PICK m \in T : \A d \in T : d <= m
  BY LastOfDays
<1>2. EndOf(m) \in BlocksOf(T)
  BY <1>1, DayEnds DEF BlocksOf
<1>3. \A b \in BlocksOf(T) : b <= EndOf(m)
  BY <1>1, DayEnds DEF BlocksOf
<1> QED   BY <1>1, <1>2, <1>3

\* The day _maybe_extend_horizon compiles is the one after the last compiled.
LEMMA NextDayIs ==
  ASSUME Typed, NEW m, EndsWith(m), NextDay \in Days
  PROVE  NextDay = m + 1
<1>1. m \in Days /\ m \in Int /\ m + 1 \notin compiled
  <2>1. m \in Int /\ m \in Days
    BY DEF EndsWith, Top, Typed, Days
  <2> QED   BY <2>1 DEF EndsWith, Top
<1>2. EndOf(m) \in Int /\ \A b \in blocks : b \in Int
  BY <1>1, DayEnds DEF Blocks, Typed
<1>3. Max(blocks) = EndOf(m)
  <2>1. EndOf(m) \in blocks /\ \A b \in blocks : EndOf(m) >= b
    BY <1>2 DEF EndsWith
  <2>2. Max(blocks) \in blocks /\ \A b \in blocks : Max(blocks) >= b
    BY <2>1 DEF Max
  <2> QED   BY <1>2, <2>1, <2>2
<1>4. DayOf(LastEnd) = m + 1
  BY <1>1, <1>3, DayEnds DEF LastEnd
<1> DEFINE d    == DayOf(LastEnd) - Lag
           open == {d, d + 1} \ compiled
<1>5. m + 1 \in open /\ \A x \in open : m + 1 <= x
  BY <1>1, <1>4, PlaylogAssumption DEF EndsWith, Top
<1>6. Min(open) = m + 1
  <2>1. Min(open) \in open /\ \A x \in open : Min(open) <= x
    BY <1>5 DEF Min
  <2>2. Min(open) \in Int
    BY <1>1, <1>4, <2>1, PlaylogAssumption
  <2> QED   BY <1>1, <1>5, <2>1, <2>2
<1> QED   BY <1>5, <1>6 DEF NextDay

-----------------------------------------------------------------------------
(* The invariant holds at the start and every step keeps it.               *)

\* Memory as a start leaves it.
LEMMA BuiltHolds ==
  ASSUME compiled \subseteq Days, blocks = BlocksOf(compiled)
  PROVE  EndInv
<1> SUFFICES ASSUME blocks # {} PROVE \E m : EndsWith(m)
  BY DEF EndInv
<1>1. compiled # {}
  BY DEF BlocksOf
<1> QED   BY <1>1, BuiltEnds DEF EndsWith, Top

LEMMA InitHolds == Init => IInv
<1> SUFFICES ASSUME Init PROVE IInv
  OBVIOUS
<1>1. compiled \subseteq Days /\ blocks = BlocksOf(compiled)
  BY DEF Init, FirstDays
<1>2. Typed
  BY <1>1 DEF Typed, Init, Calls, Idle, BlocksOf
<1>3. CompileInv
  BY DEF Init, CompileInv, Compiling, Idle
<1> QED   BY <1>1, <1>2, <1>3, BuiltHolds DEF IInv

\* A step that leaves the service alone and starts no compilation.
LEMMA QuietStep ==
  ASSUME IInv, UNCHANGED service, now' \in Int, reader' \in [Readers -> Calls],
         \A s \in Readers : Compiling(s)' => reader'[s] = reader[s]
  PROVE  IInv'
<1>1. Typed'
  BY DEF IInv, Typed, service
<1>2. \A m : EndsWith(m)' <=> EndsWith(m)
  BY DEF EndsWith, Top, service
<1>3. EndInv'
  BY <1>2 DEF IInv, EndInv, service
<1>4. CompileInv'
  BY <1>2 DEF IInv, CompileInv, Compiling, service
<1> QED   BY <1>1, <1>3, <1>4 DEF IInv

LEMMA AsksKeeps ==
  ASSUME IInv, NEW r \in Readers, NEW t, Asks(r, t)
  PROVE  IInv'
<1>1. Typed /\ Typed'
  <2>1. Typed
    BY DEF IInv
  <2>2. /\ t \in Int
        /\ ThinAt(t) => NextDay \in Int
    BY DEF Asks, Blocks, ThinAt, Days
  <2>3. PICK c \in Calls : reader' = [reader EXCEPT ![r] = c]
    <3>1. /\ ThinAt(t) => [Idle EXCEPT !.pc = "compile", !.at = t, !.day = NextDay] \in Calls
          /\ [Idle EXCEPT !.pc = "find", !.at = t] \in Calls
      <4>1. Idle \in Calls
        BY DEF Idle, Calls
      <4>2. \A c \in Calls, n \in Int :
              /\ [c EXCEPT !.pc = "compile", !.at = t, !.day = n] \in Calls
              /\ [c EXCEPT !.pc = "find", !.at = t] \in Calls
        BY <2>2 DEF Calls
      <4> QED   BY <2>2, <4>1, <4>2, Zenon
    <3> QED   BY <3>1 DEF Asks, Call
  <2> QED   BY <2>1, <2>3 DEF Typed, Asks
<1>2. \A m : EndsWith(m)' <=> EndsWith(m)
  BY DEF EndsWith, Top, Asks
<1>3. EndInv'
  BY <1>2 DEF IInv, EndInv, Asks
<1>4. CompileInv'
  <2>1. CASE ThinAt(t)
    <3>1. PICK m : EndsWith(m)
      BY <2>1 DEF ThinAt, IInv, EndInv
    <3>2. NextDay = m + 1 /\ NextDay \in Days
      BY <1>1, <2>1, <3>1, NextDayIs DEF ThinAt
    <3>3. \A s \in Readers : ~Compiling(s)
      BY <2>1 DEF ThinAt, IInv, CompileInv
    <3>4. /\ extending'
          /\ reader'[r].day = NextDay
          /\ \A s \in Readers : s # r => reader'[s] = reader[s]
      BY <1>1, <2>1 DEF Asks, Call, Idle, Typed
    <3> QED   BY <1>2, <3>1, <3>2, <3>3, <3>4 DEF CompileInv, Compiling
  <2>2. CASE ~ThinAt(t)
    <3>1. /\ extending' = extending
          /\ reader'[r].pc = "find"
          /\ \A s \in Readers : s # r => reader'[s] = reader[s]
      BY <1>1, <2>2 DEF Asks, Call, Idle, Typed
    <3> QED   BY <1>2, <3>1 DEF IInv, CompileInv, Compiling
  <2> QED   BY <2>1, <2>2
<1> QED   BY <1>1, <1>3, <1>4 DEF IInv

\* A compilation adds the day after the last: memory ends with that one, or
\* is empty when all of it was pruned.
LEMMA CompilesKeeps ==
  ASSUME IInv, NEW r \in Readers, Compiles(r)
  PROVE  IInv'
<1>1. PICK m, d : EndsWith(m) /\ reader[r].day = d /\ d = m + 1 /\ d \in Days
  BY DEF Compiles, IInv, CompileInv, Compiling
<1>2. Typed /\ Typed'
  <2>1. Typed /\ reader[r] \in Calls
    BY DEF IInv, Typed
  <2>2. \A c \in Calls : [c EXCEPT !.pc = "find", !.day = 0] \in Calls
    BY 0 \in Int DEF Calls
  <2>3. reader' \in [Readers -> Calls]
    BY <2>1, <2>2 DEF Compiles, Call, Typed
  <2>4. compiled' \subseteq Days /\ blocks' \subseteq Blocks
    BY <1>1, <2>1 DEF Compiles, Recent, BlocksOf, Typed
  <2> QED   BY <2>1, <2>3, <2>4 DEF Typed, Compiles
<1>3. CompileInv'
  <2>1. \A s \in Readers : ~Compiling(s)'
    BY <1>2 DEF IInv, CompileInv, Compiling, Compiles, Call, Typed
  <2> QED   BY <2>1 DEF CompileInv
<1>4. EndInv'
  <2>1. CASE UNCHANGED <<compiled, blocks>>
    <3>1. \A k : EndsWith(k)' <=> EndsWith(k)
      BY <2>1 DEF EndsWith, Top
    <3> QED   BY <2>1, <3>1 DEF IInv, EndInv
  <2>2. CASE /\ compiled' = compiled \union {d}
             /\ blocks' = Recent(blocks \union BlocksOf({d}), reader[r].at)
    <3>1. m \in Days /\ m \in Int /\ d \in Int
      BY <1>1, <1>2 DEF Typed, EndsWith, Top, Days
    <3>2. EndOf(d) \in BlocksOf({d}) /\ EndOf(d) \in Int
      BY <1>1, DayEnds DEF BlocksOf, Blocks
    <3>3. \A b \in blocks \union BlocksOf({d}) : b \in Int /\ b <= EndOf(d)
      <4>1. \A b \in BlocksOf({d}) : b \in Int /\ b <= EndOf(d)
        BY <1>1, <3>1, DayEnds DEF BlocksOf, Blocks
      <4>2. EndOf(m) \in Int /\ EndOf(m) <= EndOf(d)
        BY <1>1, <3>1, DayEnds DEF Blocks
      <4>3. \A b \in blocks : b \in Int /\ b <= EndOf(m)
        BY <1>1, <1>2 DEF EndsWith, Typed, Blocks
      <4> QED   BY <3>2, <4>1, <4>2, <4>3
    <3>4. ASSUME blocks' # {} PROVE EndOf(d) \in blocks'
      <4>1. PICK b \in blocks \union BlocksOf({d}) : b + 1 > reader[r].at - DayBlocks
        BY <2>2, <3>4 DEF Recent
      <4>2. reader[r].at \in Int /\ DayBlocks \in Int
        BY <1>2, PlaylogAssumption DEF Typed, Calls
      <4>3. EndOf(d) + 1 > reader[r].at - DayBlocks
        <5>1. b \in Int /\ b <= EndOf(d) /\ EndOf(d) \in Int
          BY <3>2, <3>3, <4>1
        <5> QED   BY <4>1, <4>2, <5>1
      <4> QED   BY <2>2, <3>2, <4>3 DEF Recent
    <3>5. \A b \in blocks' : b <= EndOf(d)
      BY <2>2, <3>3 DEF Recent
    <3>6. Top(d)'
      <4>1. d \in compiled' /\ \A e \in compiled : e \in Int /\ e <= m
        BY <1>1, <1>2, <2>2 DEF EndsWith, Top, Typed, Days
      <4>2. \A e \in compiled' : e <= d
        BY <1>1, <2>2, <3>1, <4>1
      <4> QED   BY <4>1, <4>2 DEF Top
    <3> QED   BY <3>4, <3>5, <3>6 DEF EndInv, EndsWith, EndOf
  <2>3. UNCHANGED <<compiled, blocks>> \/
         /\ compiled' = compiled \union {d}
         /\ blocks' = Recent(blocks \union BlocksOf({d}), reader[r].at)
    BY <1>1, Zenon DEF Compiles
  <2> QED   BY <2>1, <2>2, <2>3
<1> QED   BY <1>2, <1>3, <1>4 DEF IInv

LEMMA RestartKeeps ==
  ASSUME IInv, Restart
  PROVE  IInv'
<1>1. compiled' \subseteq Days /\ blocks' = BlocksOf(compiled)'
  BY DEF Restart, FirstDays, BlocksOf, Blocks, Days
<1>2. Typed'
  BY <1>1 DEF IInv, Typed, Restart, Calls, Idle, BlocksOf
<1>3. EndInv'
  <2> SUFFICES ASSUME blocks' # {} PROVE \E m : EndsWith(m)'
    BY DEF EndInv
  <2>1. blocks' = BlocksOf(compiled') /\ compiled' # {}
    BY <1>1 DEF BlocksOf, Restart
  <2> QED   BY <1>1, <2>1, BuiltEnds DEF EndsWith, Top
<1>4. CompileInv'
  BY DEF Restart, CompileInv, Compiling, Idle
<1> QED   BY <1>2, <1>3, <1>4 DEF IInv

\* The last compiled day is the only one a compilation can put another after.
LEMMA StepKeeps == IInv /\ [Next]_vars => IInv'
<1> SUFFICES ASSUME IInv, [Next]_vars PROVE IInv'
  OBVIOUS
<1>0. now \in Int /\ reader \in [Readers -> Calls]
  BY DEF IInv, Typed
<1>1. CASE Asking
  BY <1>1, AsksKeeps DEF Asking, TunesIn, Feeds
<1>2. CASE \E r \in Readers : Reader(r)
  <2>1. PICK r \in Readers : Reader(r)
    BY <1>2
  <2>2. CASE Compiles(r)
    BY <2>2, CompilesKeeps
  <2>3. ASSUME UNCHANGED service, now' = now,
               NEW c \in Calls, c.pc # "compile", Call(r, c)
        PROVE  IInv'
    <3>1. reader' \in [Readers -> Calls]
      BY <1>0, <2>3 DEF Call
    <3>2. \A s \in Readers : Compiling(s)' => reader'[s] = reader[s]
      BY <1>0, <2>3 DEF Call, Compiling
    <3> QED   BY <1>0, <2>3, <3>1, <3>2, QuietStep
  <2>4. Idle \in Calls /\ Idle.pc # "compile"
    BY DEF Idle, Calls
  <2>5. /\ \A p \in {"lookup", "fill"} :
             [reader[r] EXCEPT !.pc = p] \in Calls
        /\ \A i \in BOOLEAN :
             [reader[r] EXCEPT !.pc = "commit", !.insert = i] \in Calls
    BY <1>0 DEF Calls
  <2>6. \A p \in {"lookup", "fill"} : [reader[r] EXCEPT !.pc = p].pc # "compile"
    BY <1>0 DEF Calls
  <2>7. \A i : [reader[r] EXCEPT !.pc = "commit", !.insert = i].pc # "compile"
    BY <1>0 DEF Calls
  <2>8. CASE Finds(r)
    BY <2>3, <2>4, <2>5, <2>6, <2>8 DEF Finds
  <2>9. CASE LooksUp(r)
    BY <2>3, <2>4, <2>5, <2>6, <2>9 DEF LooksUp, Answers
  <2>10. CASE FillsNow(r)
    BY <2>3, <2>4, <2>5, <2>7, <2>10 DEF FillsNow
  <2>11. CASE Commits(r)
    BY <2>3, <2>4, <2>11 DEF Commits, Answers
  <2> QED   BY <2>1, <2>2, <2>8, <2>9, <2>10, <2>11 DEF Reader
<1>3. CASE Daemon
  <2>1. UNCHANGED <<now, service, reader>>
    BY <1>3 DEF Daemon, Evaluates, ReadsFrontier, ScansDay, Prefills, Prewrites,
                Breaks, Purges
  <2> QED   BY <1>0, <2>1, QuietStep
<1>4. CASE Tick
  <2>1. now' \in Int /\ UNCHANGED <<service, reader>>
    BY <1>0, <1>4 DEF Tick
  <2> QED   BY <1>0, <2>1, QuietStep
<1>5. CASE Restart
  BY <1>5, RestartKeeps
<1>6. CASE UNCHANGED vars
  BY <1>0, <1>6, QuietStep DEF vars, service
<1> QED   BY <1>1, <1>2, <1>3, <1>4, <1>5, <1>6 DEF Next, Asking

\* A step that is not a start leaves out no day: the day it adds is the one
\* after the last, and that one is compiled.
LEMMA NoneLeftOut ==
  ASSUME IInv, [Next]_vars, ~Restart, NEW x \in Days, LeftOut(x)'
  PROVE  LeftOut(x)
<1>1. CASE compiled' = compiled
  BY <1>1 DEF LeftOut
<1>2. CASE \E r \in Readers : Compiles(r)
  <2>1. PICK r \in Readers : Compiles(r)
    BY <1>2
  <2>2. PICK m : EndsWith(m) /\ reader[r].day = m + 1
    BY <2>1 DEF Compiles, IInv, CompileInv, Compiling
  <2>3. compiled' = compiled \/ compiled' = compiled \union {m + 1}
    BY <2>1, <2>2 DEF Compiles
  <2>4. m \in compiled /\ m \in Int /\ x \in Int
    BY <2>2 DEF EndsWith, Top, IInv, Typed, Days
  <2>5. x \notin compiled
    BY <2>3 DEF LeftOut
  <2>6. PICK e \in compiled \union {m + 1} : e > x
    BY <2>3 DEF LeftOut
  <2>7. CASE e \in compiled
    BY <2>5, <2>6, <2>7 DEF LeftOut
  <2>8. CASE e = m + 1
    <3>1. m > x
      BY <2>4, <2>5, <2>6, <2>8
    <3> QED   BY <2>4, <2>5, <3>1 DEF LeftOut
  <2> QED   BY <2>6, <2>7, <2>8
<1>3. compiled' = compiled \/ \E r \in Readers : Compiles(r)
  BY DEF Next, vars, TunesIn, Feeds, Asks, Reader, Finds, LooksUp, FillsNow, Commits, Answers, service,
         Daemon, Evaluates, ReadsFrontier, ScansDay, Prefills, Prewrites, Breaks,
         Purges, Tick
<1> QED   BY <1>1, <1>2, <1>3

\* _maybe_extend_horizon leaves no day out of the schedule, whatever was
\* pruned and whichever compilations failed: only a start does
\* (NoDaySkipped).
THEOREM NoneSkipped == Spec => NoDaySkipped
<1>1. IInv /\ [Next]_vars => [\A d \in Days : LeftOut(d)' => LeftOut(d) \/ Restart]_vars
  BY NoneLeftOut
<1> QED   BY <1>1, InitHolds, StepKeeps, PTL DEF Spec, NoDaySkipped

-----------------------------------------------------------------------------
(***************************************************************************)
(* How far Tier 2 reaches.  A block after the one on air that the far end  *)
(* or a row lies beyond has been tried: the daemon writes a block only     *)
(* when it has been at those before it, and a session asks for a block     *)
(* only when it has got those between the one on air and that one, with a  *)
(* row or without.  The block on air itself may be a hole that a session   *)
(* wrote past, until the evaluation has filled it first.                   *)
(***************************************************************************)

Work == [pc : {"idle", "frontier", "scan", "fill", "commit"}, at : Int, cursor : Int,
         day : Int, todo : SUBSET Blocks, insert : BOOLEAN, done : BOOLEAN]

Tried(b)  == b \in tier2 \/ b \in excused \/ b \in unsaved
Behind(b) == b < far \/ \E c \in tier2 : b <= c
Filling   == daemon.pc \in {"fill", "commit"}
Scanning  == daemon.pc = "scan" \/ (Filling /\ daemon.day # Backfill)

DepthTyped == now \in Blocks /\ tier2 \subseteq Blocks /\ far \in Nat /\ daemon \in Work

\* The clock stands still during an evaluation.
InStep == daemon.pc # "idle" => daemon.at = now /\ ~daemon.done

NoHoleBehind == \A b \in Blocks : now < b /\ Behind(b) => Tried(b)

OnAirFirst ==
  /\ daemon.pc = "frontier" \/ Scanning => Tried(now)
  /\ Filling /\ daemon.day = Backfill => daemon.todo = {now}

\* The scan has tried the days before the one it is at, and of that day the
\* blocks that it has found a row of or that are not on its list any more.
ScanTried ==
  /\ Scanning => daemon.day \in Nat
  /\ Scanning => \A b \in Blocks : /\ now <= b /\ b < TargetEnd
                                   /\ DayOf(b) < daemon.day \/ b < daemon.cursor
                                   => Tried(b)
  /\ Scanning /\ Filling => /\ daemon.todo \subseteq Wanted(daemon.day)
                            /\ \A b \in Wanted(daemon.day) \ daemon.todo : now <= b => Tried(b)
  /\ Filling => daemon.todo # {}

DoneTried ==
  daemon.done => /\ daemon.pc = "idle"
                 /\ daemon.at = now =>
                      \A b \in Blocks : now <= b /\ b < now + MinDepth => Tried(b)

\* A session has got every block before its cursor, and one that finds a row to
\* update will find it still: the purge takes old ones only.
GotBy(r, b) ==
  \/ b < nextBlock[r]
  \/ reader[r].pc # "idle" /\ b < reader[r].at
  \/ reader[r].pc = "commit" /\ ~reader[r].insert /\ b = reader[r].at

SessionTried ==
  /\ nextBlock \in [Readers -> Int]
  /\ \A r \in Readers, b \in Blocks : now <= b /\ GotBy(r, b) => Tried(b)
  /\ \A r \in Readers : reader[r].pc # "idle" => reader[r].at \in Blocks

DepthInv == DepthTyped /\ InStep /\ NoHoleBehind /\ OnAirFirst /\ ScanTried /\ DoneTried

\* Blocks is an interval of numbers.
LEMMA BlocksAre == \E top \in Nat : Blocks = 0..top
<1>1. DayBlocks \in Nat \ {0} /\ LastDay \in Nat
  BY PlaylogAssumption
<1> DEFINE n == (LastDay + 1) * DayBlocks
<1>2. n \in Nat /\ n > 0
  BY <1>1
<1>3. Blocks = 0..(n - 1)
  BY DEF Blocks
<1> HIDE DEF n
<1> QED   BY <1>2, <1>3

LEMMA InitDepth == Init => DepthInv
<1> SUFFICES ASSUME Init PROVE DepthInv
  OBVIOUS
<1>1. 0 \in Blocks
  BY BlocksAre
<1>2. now = 0 /\ tier2 = {} /\ far = 0 /\ daemon = Resting
  BY DEF Init
<1>3. Resting \in Work /\ Resting.pc = "idle" /\ ~Resting.done
  BY DEF Resting, Work
<1>4. DepthTyped /\ InStep
  BY <1>1, <1>2, <1>3 DEF DepthTyped, InStep
<1>5. NoHoleBehind
  BY <1>2, BlocksAre DEF NoHoleBehind, Behind
<1>6. OnAirFirst /\ ScanTried /\ DoneTried
  BY <1>2, <1>3 DEF OnAirFirst, ScanTried, DoneTried, Scanning, Filling
<1> QED   BY <1>4, <1>5, <1>6 DEF DepthInv

\* The types of the state.
LEMMA DepthTypes ==
  ASSUME DepthInv
  PROVE  /\ now \in Nat /\ far \in Nat /\ daemon \in Work /\ now \in Blocks
         /\ \A b \in Blocks : b \in Nat
         /\ \A c \in tier2 : c \in Blocks /\ c \in Nat
         /\ MinDepth \in Nat /\ DayBlocks \in Nat \ {0} /\ Retain \in Nat
         /\ Backfill = -1
BY BlocksAre, PlaylogAssumption DEF DepthInv, DepthTyped, Backfill

\* A step of a thread: the daemon stays where it is, and a block before a new
\* row has been tried.
LEMMA ReaderStep ==
  ASSUME DepthInv, UNCHANGED <<now, far, daemon, excused>>,
         tier2' \subseteq Blocks, tier2 \subseteq tier2', unsaved \subseteq unsaved',
         \A c \in tier2' \ tier2, b \in Blocks : now < b /\ b < c => Tried(b)
  PROVE  DepthInv'
<1>1. \A b : Tried(b) => Tried(b)'
  BY DEF Tried
<1>2. DepthTyped' /\ InStep'
  BY DEF DepthInv, DepthTyped, InStep
<1>3. NoHoleBehind'
  <2> SUFFICES ASSUME NEW b \in Blocks, now < b, Behind(b)'  PROVE Tried(b)'
    BY DEF NoHoleBehind
  <2>1. CASE Behind(b)
    BY <1>1, <2>1 DEF DepthInv, NoHoleBehind
  <2>2. CASE ~Behind(b)
    <3>1. PICK c \in tier2' : b <= c /\ c \notin tier2
      BY <2>2 DEF Behind
    <3>2. b = c \/ b < c
      BY <3>1, BlocksAre
    <3> QED   BY <1>1, <3>1, <3>2 DEF Tried
  <2> QED   BY <2>1, <2>2
<1>4. OnAirFirst' /\ DoneTried'
  BY <1>1 DEF DepthInv, OnAirFirst, DoneTried, Scanning, Filling
<1>5. ScanTried'
  BY <1>1 DEF DepthInv, ScanTried, Scanning, Filling, TargetEnd, Wanted
<1> QED   BY <1>2, <1>3, <1>4, <1>5 DEF DepthInv

LEMMA ReadersDepth ==
  ASSUME DepthInv, SessionTried, Asking \/ \E r \in Readers : Reader(r)
  PROVE  DepthInv'
<1>1. UNCHANGED <<now, far, daemon, excused>> /\ tier2 \subseteq tier2'
      /\ unsaved \subseteq unsaved'
  BY DEF Asking, TunesIn, Feeds, Asks, Reader, Compiles, Finds, LooksUp, FillsNow, Commits, Answers
<1>2. CASE tier2' = tier2
  BY <1>1, <1>2, ReaderStep DEF DepthInv, DepthTyped
<1>3. CASE \E r \in Readers : Commits(r)
  <2>1. PICK r \in Readers : Commits(r)
    BY <1>3
  <2>2. reader[r].pc = "commit" /\ tier2' \subseteq tier2 \cup {reader[r].at}
    BY <2>1 DEF Commits
  <2>4. reader[r].at \in Blocks /\ \A b \in Blocks : now < b /\ b < reader[r].at => Tried(b)
    BY <2>2, DepthTypes DEF SessionTried, GotBy
  <2>3. tier2' \subseteq Blocks
        /\ \A c \in tier2' \ tier2, b \in Blocks : now < b /\ b < c => Tried(b)
    BY <2>2, <2>4 DEF DepthInv, DepthTyped
  <2> QED   BY <1>1, <2>3, ReaderStep
<1>4. tier2' = tier2 \/ \E r \in Readers : Commits(r)
  BY DEF Asking, TunesIn, Feeds, Asks, Reader, Compiles, Finds, LooksUp, FillsNow
<1> QED   BY <1>2, <1>3, <1>4

\* The daemon's order: a later block is on no earlier day.
LEMMA DaysInOrder ==
  ASSUME NEW x \in Nat, NEW y \in Nat
  PROVE  DayOf(x) \in Nat /\ (x <= y => DayOf(x) <= DayOf(y))
<1>1. DayBlocks \in Nat \ {0}
  BY PlaylogAssumption
<1>2. /\ DayOf(x) \in Nat /\ DayOf(x) * DayBlocks <= x /\ x < DayOf(x) * DayBlocks + DayBlocks
      /\ DayOf(y) \in Nat /\ DayOf(y) * DayBlocks <= y /\ y < DayOf(y) * DayBlocks + DayBlocks
  BY <1>1 DEF DayOf
<1> DEFINE m == DayOf(x)
           n == DayOf(y)
<1>3. ASSUME x <= y, m > n  PROVE FALSE
  <2>1. m - n \in Nat /\ m - n >= 1
    BY <1>2, <1>3
  <2>2. m * DayBlocks = n * DayBlocks + (m - n) * DayBlocks /\ (m - n) * DayBlocks >= DayBlocks
    BY <1>1, <1>2, <2>1
  <2> QED   BY <1>1, <1>2, <1>3, <2>2
<1> QED   BY <1>2, <1>3

\* The first of the blocks to do is one of them, and none comes before it.
LEMMA BlockIsFirst ==
  ASSUME DepthInv, Filling
  PROVE  Block \in daemon.todo /\ Block \in Nat /\ \A b \in daemon.todo : Block <= b
<1>1. daemon.todo \subseteq Blocks /\ daemon.todo # {}
  BY DEF DepthInv, DepthTyped, Work, ScanTried
<1>2. PICK top \in Nat : Blocks = 0..top
  BY BlocksAre
<1> QED   BY <1>1, <1>2, MaxMin DEF Block

\* When the scan fills a block it has tried those of the day before it.
LEMMA TriedBefore ==
  ASSUME DepthInv, Filling, Scanning, NEW b \in Blocks, now <= b,
         DayOf(b) <= daemon.day, b < TargetEnd, b \notin daemon.todo
  PROVE  Tried(b)
<1>1. b \in Nat /\ daemon.day \in Nat /\ DayOf(b) \in Nat /\ daemon.cursor \in Int
  BY DepthTypes, DaysInOrder DEF DepthInv, DepthTyped, Work, ScanTried
<1>2. CASE DayOf(b) < daemon.day \/ b < daemon.cursor
  BY <1>2 DEF DepthInv, ScanTried
<1>3. CASE ~(DayOf(b) < daemon.day) /\ ~(b < daemon.cursor)
  <2>1. b \in Wanted(daemon.day)
    BY <1>1, <1>3 DEF Wanted, BlocksOf
  <2> QED   BY <2>1 DEF DepthInv, ScanTried
<1> QED   BY <1>2, <1>3

LEMMA RestingWorks ==
  /\ Resting \in Work /\ Resting.pc = "idle" /\ ~Resting.done
  /\ \A t \in Int :
       LET w == [Resting EXCEPT !.pc = "frontier", !.at = t]
       IN  w \in Work /\ w.pc = "frontier" /\ w.at = t /\ ~w.done
  /\ \A t \in Int :
       LET w == [Resting EXCEPT !.at = t, !.done = TRUE]
       IN  w \in Work /\ w.pc = "idle" /\ w.at = t /\ w.done
<1> DEFINE none == {}
<1>1. none \in SUBSET Blocks
  OBVIOUS
<1>2. Resting = [pc |-> "idle", at |-> 0, cursor |-> 0, day |-> 0, todo |-> none,
                 insert |-> FALSE, done |-> FALSE]
  BY DEF Resting
<1> HIDE DEF none
<1>3. Resting \in Work /\ Resting.pc = "idle" /\ ~Resting.done
  BY <1>1, <1>2 DEF Work
<1> QED   BY <1>3 DEF Work

\* What the evaluation turns to when its block was tried.
LEMMA AfterBlockDepth ==
  ASSUME DepthInv, Filling, daemon' = AfterBlock, UNCHANGED <<now, reader>>,
         NEW first, first = Block, Tried(first)',
         \A b \in Blocks : now <= b /\ Tried(b) => Tried(b)'
  PROVE  daemon' \in Work /\ InStep' /\ OnAirFirst' /\ ScanTried' /\ DoneTried'
<1>0. /\ daemon \in Work /\ daemon.at = now /\ ~daemon.done /\ now \in Nat
      /\ daemon.todo \subseteq Blocks /\ Backfill = -1
  BY DepthTypes DEF DepthInv, InStep, Filling, DepthTyped, Work
<1>1. first \in daemon.todo /\ first \in Nat
  BY BlockIsFirst
<1> DEFINE next   == [daemon EXCEPT !.pc = "fill", !.todo = @ \ {Block}, !.insert = FALSE]
           ensure == [Resting EXCEPT !.pc = "frontier", !.at = daemon.at]
           onward == [daemon EXCEPT !.pc = "scan", !.todo = {}, !.day = @ + 1, !.insert = FALSE]
<1>3. ASSUME daemon'.at = now, ~daemon'.done, daemon' \in Work, OnAirFirst', ScanTried'
      PROVE  daemon' \in Work /\ InStep' /\ OnAirFirst' /\ ScanTried' /\ DoneTried'
  BY <1>3 DEF InStep, DoneTried
<1>4. CASE daemon.todo # {Block}
  <2>1. daemon' = next
    BY <1>4 DEF AfterBlock
  <2>2. /\ next \in Work /\ next.pc = "fill" /\ next.todo = daemon.todo \ {first}
        /\ next.day = daemon.day /\ next.at = daemon.at /\ next.cursor = daemon.cursor
        /\ next.done = daemon.done
    BY <1>0 DEF Work
  <2> HIDE DEF next
  <2>3. daemon.day # Backfill
    BY <1>1, <1>4 DEF DepthInv, OnAirFirst
  <2>4. Scanning /\ Scanning' /\ TargetEnd' = TargetEnd /\ Wanted(daemon.day)' = Wanted(daemon.day)
    BY <2>1, <2>2, <2>3 DEF Scanning, Filling, TargetEnd, Wanted
  <2>5. daemon.todo \ {first} # {}
    BY <1>1, <1>4
  <2>6. OnAirFirst'
    BY <1>0, <2>1, <2>2, <2>3, <2>4 DEF DepthInv, OnAirFirst, DepthTyped
  <2>7. ScanTried'
    <3>1. \A b \in Wanted(daemon.day) \ (daemon.todo \ {first}) : now <= b => Tried(b)'
      <4> SUFFICES ASSUME NEW b \in Wanted(daemon.day), b \notin daemon.todo \/ b = first, now <= b
                   PROVE Tried(b)'
        OBVIOUS
      <4>1. b \in Blocks
        BY DEF Wanted, BlocksOf
      <4>2. b \notin daemon.todo => Tried(b)
        BY <2>4 DEF DepthInv, ScanTried
      <4> QED   BY <4>1, <4>2
    <3>2. \A b \in Blocks : /\ now <= b /\ b < TargetEnd
                            /\ DayOf(b) < daemon.day \/ b < daemon.cursor
                            => Tried(b)'
      BY <2>4 DEF DepthInv, ScanTried
    <3>3. daemon.day \in Nat /\ daemon.todo \subseteq Wanted(daemon.day)
      BY <2>4 DEF DepthInv, ScanTried
    <3> QED   BY <2>1, <2>2, <2>4, <2>5, <3>1, <3>2, <3>3 DEF ScanTried
  <2> QED   BY <1>0, <1>3, <2>1, <2>2, <2>6, <2>7
<1>5. CASE daemon.todo = {Block} /\ daemon.day = Backfill
  <2>1. daemon' = ensure
    BY <1>5 DEF AfterBlock
  <2>2. ensure \in Work /\ ensure.pc = "frontier" /\ ensure.at = now /\ ~ensure.done
    <3>1. daemon.at \in Int
      BY <1>0
    <3> QED   BY <1>0, <3>1, RestingWorks
  <2> HIDE DEF ensure
  <2>3. OnAirFirst'
    <3>1. first = now
      BY <1>1, <1>5 DEF DepthInv, OnAirFirst
    <3> QED   BY <2>1, <2>2, <3>1 DEF OnAirFirst, Filling
  <2>4. ScanTried'
    BY <2>1, <2>2 DEF ScanTried, Scanning, Filling
  <2> QED   BY <1>3, <2>1, <2>2, <2>3, <2>4
<1>6. CASE daemon.todo = {Block} /\ daemon.day # Backfill
  <2>1. daemon' = onward
    BY <1>6 DEF AfterBlock
  <2>2. Scanning /\ daemon.day \in Nat /\ TargetEnd \in Int /\ daemon.cursor \in Int
    BY <1>0, <1>6, PlaylogAssumption DEF DepthInv, Scanning, ScanTried, TargetEnd, Work
  <2>3. /\ onward \in Work /\ onward.pc = "scan" /\ onward.day = daemon.day + 1
        /\ onward.at = daemon.at /\ onward.cursor = daemon.cursor /\ onward.done = daemon.done
    <3>1. daemon.day + 1 \in Int /\ {} \in SUBSET Blocks
      BY <2>2
    <3> DEFINE d == daemon.day + 1
    <3> HIDE DEF d
    <3> QED   BY <1>0, <3>1 DEF Work
  <2> HIDE DEF onward
  <2>4. OnAirFirst'
    BY <1>0, <2>1, <2>2, <2>3 DEF DepthInv, OnAirFirst, Filling, DepthTyped
  <2>5. ScanTried'
    <3>1. ASSUME NEW b \in Blocks, now <= b, b < TargetEnd,
                 DayOf(b) < daemon.day + 1 \/ b < daemon.cursor
          PROVE  Tried(b)'
      <4>1. DayOf(b) \in Nat
        BY DepthTypes, DaysInOrder
      <4>2. CASE b = first
        BY <4>2
      <4>3. CASE b # first /\ DayOf(b) <= daemon.day
        BY <1>6, <2>2, <3>1, <4>3, TriedBefore
      <4>4. CASE b < daemon.cursor
        BY <2>2, <3>1, <4>4 DEF DepthInv, ScanTried
      <4> QED   BY <2>2, <3>1, <4>1, <4>2, <4>3, <4>4
    <3>2. TargetEnd' = TargetEnd
      BY <2>1, <2>3 DEF TargetEnd
    <3> QED   BY <2>1, <2>2, <2>3, <3>1, <3>2 DEF ScanTried, Filling
  <2> QED   BY <1>0, <1>3, <2>1, <2>3, <2>4, <2>5
<1> QED   BY <1>4, <1>5, <1>6

-----------------------------------------------------------------------------
(* The steps of the daemon.                                                *)

LEMMA EvaluatesDepth == ASSUME DepthInv, Evaluates  PROVE DepthInv'
<1>0. /\ now \in Blocks /\ now \in Int /\ Backfill = -1 /\ -1 \in Int
      /\ UNCHANGED <<now, tier2, far, reader, unsaved>>
  BY DepthTypes DEF Evaluates
<1>1. \A b : Tried(b) => Tried(b)'
  BY DEF Evaluates, Tried
<1>2. \A b : Behind(b)' <=> Behind(b)
  BY <1>0 DEF Behind
<1>3. NoHoleBehind'
  BY <1>0, <1>1, <1>2 DEF DepthInv, NoHoleBehind
<1> DEFINE fills == [Resting EXCEPT !.pc = "fill", !.at = now, !.day = Backfill,
                                    !.todo = {now}]
           reads == [Resting EXCEPT !.pc = "frontier", !.at = now]
<1>5. CASE daemon' = fills
  <2> DEFINE here == {now}
             none == -1
  <2>1. here \in SUBSET Blocks /\ here # {} /\ none \in Int /\ Backfill = none
    BY <1>0
  <2>2. fills = [Resting EXCEPT !.pc = "fill", !.at = now, !.day = none, !.todo = here]
    BY <2>1
  <2> HIDE DEF fills, here, none
  <2>3. /\ fills \in Work /\ fills.pc = "fill" /\ fills.at = now /\ ~fills.done
        /\ fills.day = Backfill /\ fills.todo = here
    <3>1. Resting \in Work /\ ~Resting.done
      BY RestingWorks
    <3> QED   BY <1>0, <2>1, <2>2, <3>1 DEF Work
  <2>4. OnAirFirst' /\ ScanTried' /\ DoneTried'
    BY <1>0, <1>5, <2>1, <2>3 DEF OnAirFirst, ScanTried, DoneTried, Scanning, Filling, here
  <2> QED   BY <1>0, <1>3, <1>5, <2>3, <2>4 DEF DepthInv, DepthTyped, InStep
<1>6. CASE daemon' = reads /\ (now \notin tier2 => DayOf(now) \notin tier1)
  <2>1. reads \in Work /\ reads.pc = "frontier" /\ reads.at = now /\ ~reads.done
    BY <1>0, RestingWorks
  <2> HIDE DEF reads
  <2>2. Tried(now)'
    BY <1>0, <1>6 DEF Tried, Evaluates
  <2>3. OnAirFirst' /\ ScanTried' /\ DoneTried'
    BY <1>0, <1>6, <2>1, <2>2 DEF OnAirFirst, ScanTried, DoneTried, Scanning, Filling
  <2> QED   BY <1>0, <1>3, <1>6, <2>1, <2>3 DEF DepthInv, DepthTyped, InStep
<1> QED   BY <1>5, <1>6 DEF Evaluates

\* The frontier is the end of a row or the one of the last evaluation.
LEMMA FrontierIs ==
  ASSUME DepthInv
  PROVE  /\ Frontier \in Nat /\ Larger(far, Frontier) \in Nat
         /\ \A b \in Blocks : b < Larger(far, Frontier) <=> Behind(b)
<1>1. far \in Nat /\ \A b \in Blocks : b \in Nat
  BY DepthTypes
<1>2. CASE tier2 = {}
  BY <1>1, <1>2 DEF Frontier, Larger, Behind
<1>3. CASE tier2 # {}
  <2>1. PICK top \in Nat : Blocks = 0..top
    BY BlocksAre
  <2> DEFINE m == Max(tier2)
  <2>2. m \in tier2 /\ \A c \in tier2 : c <= m
    BY <1>3, <2>1, MaxMin DEF DepthInv, DepthTyped
  <2>3. Frontier = m + 1 /\ \A c \in tier2 : c \in Nat
    BY <1>3, DepthTypes DEF Frontier
  <2> HIDE DEF m
  <2> QED   BY <1>1, <2>2, <2>3 DEF Larger, Behind
<1> QED   BY <1>2, <1>3

LEMMA ReadsFrontierDepth == ASSUME DepthInv, ReadsFrontier  PROVE DepthInv'
<1> DEFINE reached == Larger(far, Frontier)
           mark == Larger(reached, daemon.at)
           rests == [Resting EXCEPT !.at = daemon.at, !.done = TRUE]
           scans == [daemon EXCEPT !.pc = "scan", !.cursor = mark, !.day = DayOf(mark)]
<1>1. reached \in Nat /\ \A b \in Blocks : b < reached <=> Behind(b)
  BY FrontierIs
<1>2. /\ now \in Nat /\ daemon.at = now /\ daemon.at \in Int /\ daemon \in Work
      /\ now \in Blocks /\ daemon.pc = "frontier" /\ ~daemon.done
      /\ \A b \in Blocks : b \in Nat
  BY DepthTypes DEF ReadsFrontier, DepthInv, InStep
<1>3. UNCHANGED <<now, tier2, reader, excused, unsaved>> /\ far' = reached
  BY DEF ReadsFrontier
<1>4. \A b : Tried(b)' <=> Tried(b)
  BY <1>3 DEF Tried
<1> HIDE DEF reached
<1>5. \A b \in Blocks : Behind(b)' => Behind(b)
  BY <1>1, <1>3 DEF Behind
<1>6. NoHoleBehind'
  BY <1>3, <1>4, <1>5 DEF DepthInv, NoHoleBehind
<1>8. ASSUME NEW b \in Blocks, now <= b, b < reached  PROVE Tried(b)'
  <2>1. Behind(b)
    BY <1>1, <1>8
  <2>2. now = b \/ now < b
    BY <1>2, <1>8
  <2>3. Tried(now) /\ (now < b => Tried(b))
    BY <1>2, <2>1 DEF DepthInv, NoHoleBehind, OnAirFirst
  <2> QED   BY <1>4, <2>2, <2>3
<1>9. CASE daemon' = rests /\ reached - daemon.at >= MinDepth
  <2>1. rests \in Work /\ rests.pc = "idle" /\ rests.at = now /\ rests.done
    BY <1>2, RestingWorks
  <2> HIDE DEF rests
  <2>2. DoneTried'
    BY <1>1, <1>2, <1>3, <1>8, <1>9, <2>1, DepthTypes DEF DoneTried
  <2> QED   BY <1>1, <1>2, <1>3, <1>6, <1>9, <2>1, <2>2
            DEF DepthInv, DepthTyped, InStep, OnAirFirst, ScanTried, Scanning, Filling
<1>10. CASE daemon' = scans
  <2>1. mark \in Nat /\ (mark = now \/ mark = reached) /\ mark >= now
    BY <1>1, <1>2 DEF Larger
  <2> HIDE DEF mark
  <2> DEFINE d == DayOf(mark)
  <2>2. d \in Nat /\ \A b \in Blocks : DayOf(b) < d => b < mark
    BY <1>2, <2>1, DaysInOrder
  <2> HIDE DEF d
  <2>3. /\ scans \in Work /\ scans.pc = "scan" /\ scans.at = now /\ ~scans.done
        /\ scans.cursor = mark /\ scans.day = d
    <3>1. scans = [daemon EXCEPT !.pc = "scan", !.cursor = mark, !.day = d]
      BY DEF d
    <3>2. mark \in Int /\ d \in Int
      BY <2>1, <2>2
    <3> HIDE DEF scans
    <3> QED   BY <1>2, <3>1, <3>2 DEF Work
  <2> HIDE DEF scans
  <2>4. ScanTried'
    <3>1. ASSUME NEW b \in Blocks, now <= b, DayOf(b) < d \/ b < mark
          PROVE  Tried(b)'
      BY <1>1, <1>2, <1>8, <2>1, <2>2, <3>1
    <3> QED   BY <1>3, <1>10, <2>2, <2>3, <3>1 DEF ScanTried, Filling
  <2>5. OnAirFirst'
    BY <1>2, <1>3, <1>4, <1>10, <2>3 DEF DepthInv, OnAirFirst, Filling
  <2> QED   BY <1>1, <1>2, <1>3, <1>6, <1>10, <2>3, <2>4, <2>5
            DEF DepthInv, DepthTyped, InStep, DoneTried
<1> QED   BY <1>9, <1>10 DEF ReadsFrontier, reached

LEMMA ScansDayDepth == ASSUME DepthInv, ScansDay  PROVE DepthInv'
<1> DEFINE d == daemon.day
           found == {b + 1 : b \in Wanted(d) \ Missing(d)}
           fills == [daemon EXCEPT !.pc = "fill", !.todo = Missing(d)]
           onward == [daemon EXCEPT !.day = d + 1]
<1>1. /\ now \in Nat /\ far \in Nat /\ daemon.at = now /\ daemon \in Work /\ daemon.pc = "scan"
      /\ ~daemon.done /\ Scanning /\ ~Filling /\ d \in Nat /\ Backfill = -1
      /\ \A b \in Blocks : b \in Nat
  BY DepthTypes DEF ScansDay, DepthInv, InStep, ScanTried, Scanning, Filling
<1>2. UNCHANGED <<now, tier2, reader, unsaved>>
  BY DEF ScansDay
<1>3. \A b : Tried(b) => Tried(b)'
  BY <1>2 DEF ScansDay, Tried
<1>4. far' \in Nat /\ \A b \in Blocks : b < far' => Behind(b)
  <2>1. CASE d \in tier1
    <3>1. PICK top \in Nat : Blocks = 0..top
      BY BlocksAre
    <3>2. \A b \in Wanted(d) \ Missing(d) : b \in tier2 /\ b \in Blocks
      BY DEF Wanted, Missing, BlocksOf
    <3>3. \A e \in found : e \in Nat /\ e <= top + 1 /\ \E b \in tier2 : e = b + 1
      BY <1>1, <3>1, <3>2
    <3> DEFINE ends == {far} \union found
               most == top + 1 + far
    <3>4. ends \subseteq 0..most /\ ends # {} /\ most \in Nat
      BY <1>1, <3>1, <3>3
    <3>5. far' = Max(ends)
      BY <2>1 DEF ScansDay
    <3>6. far' \in ends
      <4> HIDE DEF ends, most
      <4> QED   BY <3>4, <3>5, MaxMin
    <3> QED   BY <1>1, <3>3, <3>6, DepthTypes DEF Behind
  <2>2. CASE d \notin tier1
    BY <1>1, <2>2 DEF ScansDay, Behind
  <2> QED   BY <2>1, <2>2
<1>5. NoHoleBehind'
  BY <1>2, <1>3, <1>4 DEF DepthInv, NoHoleBehind, Behind
<1>7. Tried(now)'
  <2>1. Tried(now)
    BY <1>1 DEF DepthInv, OnAirFirst
  <2> QED   BY <1>2, <2>1 DEF Tried, ScansDay
<1>8. \A b \in Blocks : /\ now <= b /\ b < TargetEnd
                        /\ DayOf(b) < d \/ b < daemon.cursor
                        => Tried(b)'
  BY <1>1, <1>3 DEF DepthInv, ScanTried
<1>9. CASE d \in tier1 /\ Missing(d) # {}
  <2> DEFINE holes == Missing(d)
  <2>1. holes \in SUBSET Blocks /\ holes \subseteq Wanted(d) /\ holes # {}
    BY <1>9 DEF Missing, Wanted, BlocksOf
  <2>2. daemon' = [daemon EXCEPT !.pc = "fill", !.todo = holes]
    BY <1>9 DEF ScansDay
  <2> HIDE DEF holes
  <2>3. /\ daemon' \in Work /\ daemon'.pc = "fill" /\ daemon'.todo = holes
        /\ daemon'.at = now /\ daemon'.cursor = daemon.cursor /\ daemon'.day = d
        /\ ~daemon'.done
    BY <1>1, <2>1, <2>2 DEF Work
  <2>4. TargetEnd' = TargetEnd /\ Wanted(d)' = Wanted(d)
    BY <1>1, <2>3 DEF TargetEnd, Wanted
  <2>5. \A b \in Wanted(d) \ holes : Tried(b)'
    BY <1>2 DEF holes, Missing, Tried
  <2>6. ScanTried' /\ OnAirFirst'
    BY <1>1, <1>2, <1>7, <1>8, <2>1, <2>3, <2>4, <2>5
       DEF ScanTried, OnAirFirst
  <2> QED   BY <1>1, <1>2, <1>4, <1>5, <2>3, <2>6
            DEF DepthInv, DepthTyped, InStep, DoneTried
<1>10. CASE daemon' = onward /\ (d \in tier1 => Missing(d) = {})
  <2>1. d + 1 \in Int
    BY <1>1
  <2> DEFINE e == d + 1
  <2>2. daemon' = [daemon EXCEPT !.day = e] /\ e \in Int
    BY <1>10, <2>1
  <2> HIDE DEF e
  <2>3. /\ daemon' \in Work /\ daemon'.pc = "scan"
        /\ daemon'.at = now /\ daemon'.cursor = daemon.cursor /\ daemon'.day = e
        /\ ~daemon'.done
    BY <1>1, <2>2 DEF Work
  <2>4. TargetEnd' = TargetEnd
    BY <1>1, <2>3 DEF TargetEnd
  <2>5. \A b \in Wanted(d) : Tried(b)'
    BY <1>2, <1>10 DEF ScansDay, Missing, Tried
  <2>6. ASSUME NEW b \in Blocks, now <= b, b < TargetEnd, DayOf(b) < e \/ b < daemon.cursor
        PROVE  Tried(b)'
    <3>1. b \in Nat /\ DayOf(b) \in Nat /\ daemon.cursor \in Int
      BY <1>1, DaysInOrder DEF Work
    <3>2. CASE DayOf(b) < d \/ b < daemon.cursor
      BY <1>8, <2>6, <3>2
    <3>3. CASE DayOf(b) = d /\ ~(b < daemon.cursor)
      <4>1. b \in Wanted(d)
        BY <2>6, <3>1, <3>3 DEF Wanted, BlocksOf
      <4> QED   BY <2>5, <4>1
    <3> QED   BY <1>1, <2>6, <3>1, <3>2, <3>3 DEF e
  <2>7. ScanTried' /\ OnAirFirst'
    <3>1. e \in Nat
      BY <1>1 DEF e
    <3> QED   BY <1>1, <1>2, <1>7, <2>3, <2>4, <2>6, <3>1
              DEF ScanTried, OnAirFirst, Filling
  <2> QED   BY <1>1, <1>2, <1>4, <1>5, <2>3, <2>7
            DEF DepthInv, DepthTyped, InStep, DoneTried
<1> QED   BY <1>9, <1>10 DEF ScansDay

LEMMA PrefillsDepth == ASSUME DepthInv, Prefills  PROVE DepthInv'
<1>1. /\ UNCHANGED <<now, tier2, far, reader, unsaved>> /\ Filling /\ daemon \in Work
      /\ \A b : Tried(b) => Tried(b)'
  BY DEF Prefills, Tried, Filling, DepthInv, DepthTyped
<1>2. NoHoleBehind'
  BY <1>1 DEF DepthInv, NoHoleBehind, Behind
<1>3. CASE \E i \in BOOLEAN : daemon' = [daemon EXCEPT !.pc = "commit", !.insert = i]
  <2>1. PICK i \in BOOLEAN : daemon' = [daemon EXCEPT !.pc = "commit", !.insert = i]
    BY <1>3
  <2>2. /\ daemon' \in Work /\ daemon'.pc = "commit" /\ daemon'.at = daemon.at
        /\ daemon'.cursor = daemon.cursor /\ daemon'.day = daemon.day
        /\ daemon'.todo = daemon.todo /\ daemon'.done = daemon.done
    BY <1>1, <2>1 DEF Work
  <2>3. Filling' /\ (Scanning' <=> Scanning) /\ TargetEnd' = TargetEnd
        /\ \A d : Wanted(d)' = Wanted(d)
    BY <1>1, <2>2 DEF Filling, Scanning, TargetEnd, Wanted
  <2>4. InStep' /\ DoneTried'
    BY <1>1, <2>2 DEF DepthInv, InStep, DoneTried, Filling
  <2>5. OnAirFirst'
    BY <1>1, <2>2, <2>3 DEF DepthInv, OnAirFirst
  <2>6. ScanTried'
    BY <1>1, <2>2, <2>3 DEF DepthInv, ScanTried
  <2> QED   BY <1>1, <1>2, <2>2, <2>4, <2>5, <2>6 DEF DepthInv, DepthTyped
<1>4. CASE daemon' = AfterBlock /\ excused' = excused \union {Block}
  <2> PICK first : first = Block
    OBVIOUS
  <2>1. Tried(first)'
    BY <1>4 DEF Tried
  <2> QED   BY <1>1, <1>2, <1>4, <2>1, AfterBlockDepth DEF DepthInv, DepthTyped
<1>5. (Block \notin tier2) \in BOOLEAN
  OBVIOUS
<1> QED   BY <1>3, <1>4, <1>5 DEF Prefills

\* The daemon writes no row beyond a block it has not tried.
LEMMA PrewritesDepth == ASSUME DepthInv, Prewrites  PROVE DepthInv'
<1> PICK first : first = Block
  OBVIOUS
<1>1. /\ UNCHANGED <<now, reader, excused, unsaved>> /\ tier2' = tier2 \union {first}
      /\ far' = Larger(far, first + 1) /\ daemon' = AfterBlock /\ Filling
  BY DEF Prewrites, Filling
<1>2. /\ now \in Nat /\ far \in Nat /\ daemon.at = now /\ daemon \in Work
      /\ \A b \in Blocks : b \in Nat
      /\ daemon.todo \subseteq Blocks
  BY <1>1, DepthTypes DEF Filling, DepthInv, InStep, Work
<1>3. first \in daemon.todo /\ first \in Blocks /\ first \in Nat
      /\ \A b \in daemon.todo : first <= b
  BY <1>1, <1>2, BlockIsFirst
<1>4. Tried(first)' /\ \A b : Tried(b) => Tried(b)'
  BY <1>1 DEF Tried
<1>5. ASSUME NEW b \in Blocks, now < b, b < first  PROVE Tried(b)
  <2>0. daemon.todo # {now}
    BY <1>2, <1>3, <1>5
  <2>1. Scanning /\ b \notin daemon.todo
    <3>1. Scanning
      BY <1>1, <2>0 DEF DepthInv, OnAirFirst, Scanning
    <3> QED   BY <1>2, <1>3, <1>5, <3>1
  <2>2. first \in Wanted(daemon.day)
    BY <1>1, <1>3, <2>1 DEF DepthInv, ScanTried
  <2>3. DayOf(first) = daemon.day /\ first < TargetEnd /\ TargetEnd \in Int
    BY <1>2, <2>2, DepthTypes DEF Wanted, BlocksOf, TargetEnd
  <2>4. DayOf(b) <= daemon.day /\ b < TargetEnd
    BY <1>2, <1>3, <1>5, <2>3, DaysInOrder
  <2> QED   BY <1>1, <1>2, <1>5, <2>1, <2>4, TriedBefore
<1>6. NoHoleBehind'
  <2> SUFFICES ASSUME NEW b \in Blocks, now < b, Behind(b)'  PROVE Tried(b)'
    BY <1>1 DEF NoHoleBehind
  <2>1. Behind(b) \/ b < first \/ b = first
    BY <1>1, <1>2, <1>3 DEF Behind, Larger
  <2> QED   BY <1>4, <1>5, <2>1 DEF DepthInv, NoHoleBehind
<1>7. far' \in Nat /\ tier2' \subseteq Blocks
  BY <1>1, <1>2, <1>3 DEF Larger, DepthInv, DepthTyped
<1>8. daemon' \in Work /\ InStep' /\ OnAirFirst' /\ ScanTried' /\ DoneTried'
  BY <1>1, <1>4, AfterBlockDepth
<1> QED   BY <1>1, <1>2, <1>6, <1>7, <1>8 DEF DepthInv, DepthTyped

LEMMA BreaksDepth == ASSUME DepthInv, Breaks  PROVE DepthInv'
<1>1. UNCHANGED <<now, tier2, far, excused, unsaved, reader>> /\ daemon' = Resting
  BY DEF Breaks
<1>2. daemon' \in Work /\ daemon'.pc = "idle" /\ ~daemon'.done
  BY <1>1, RestingWorks
<1>3. NoHoleBehind'
  BY <1>1 DEF DepthInv, NoHoleBehind, Behind, Tried
<1> QED   BY <1>1, <1>2, <1>3 DEF DepthInv, DepthTyped, InStep, OnAirFirst,
            ScanTried, DoneTried, Scanning, Filling

\* The purge takes no row of the block on air or of one after it.
LEMMA PurgesDepth == ASSUME DepthInv, Purges  PROVE DepthInv'
<1>1. /\ UNCHANGED <<now, far, excused, unsaved, reader>> /\ tier2' \subseteq tier2
      /\ daemon.pc = "scan" /\ daemon.day > ScanTo
      /\ daemon' = [Resting EXCEPT !.at = daemon.at, !.done = TRUE]
      /\ \A b \in tier2 : b \in tier2' \/ ~(b + 1 > daemon.at - Retain)
  BY DEF Purges
<1>2. /\ now \in Nat /\ far \in Nat /\ daemon.at = now /\ daemon \in Work /\ Scanning
      /\ daemon.day \in Nat /\ MinDepth \in Nat /\ Retain \in Nat
      /\ \A b \in Blocks : b \in Nat
  BY <1>1, DepthTypes DEF DepthInv, InStep, Scanning, ScanTried
<1>3. \A b \in Blocks : now <= b /\ Tried(b) => Tried(b)'
  BY <1>1, <1>2 DEF Tried
<1>4. NoHoleBehind'
  <2>1. \A b : Behind(b)' => Behind(b)
    BY <1>1 DEF Behind
  <2> QED   BY <1>1, <1>2, <1>3, <2>1 DEF DepthInv, NoHoleBehind
<1>5. /\ daemon' \in Work /\ daemon'.pc = "idle" /\ daemon'.at = now /\ daemon'.done
  <2>1. daemon.at \in Int
    BY <1>2
  <2> QED   BY <1>1, <1>2, <2>1, RestingWorks
<1>6. ASSUME NEW b \in Blocks, now <= b, b < now + MinDepth  PROVE Tried(b)'
  <2>1. b < TargetEnd /\ b <= TargetEnd - 1 /\ TargetEnd - 1 \in Nat
    BY <1>2, <1>6 DEF TargetEnd
  <2>2. DayOf(b) <= ScanTo /\ ScanTo \in Nat /\ DayOf(b) \in Nat
    BY <1>2, <2>1, DaysInOrder DEF ScanTo
  <2>3. Tried(b)
    BY <1>1, <1>2, <1>6, <2>1, <2>2 DEF DepthInv, ScanTried
  <2> QED   BY <1>3, <1>6, <2>3
<1>7. DoneTried'
  BY <1>1, <1>5, <1>6 DEF DoneTried
<1> QED   BY <1>1, <1>4, <1>5, <1>7 DEF DepthInv, DepthTyped, InStep, OnAirFirst,
            ScanTried, Scanning, Filling

LEMMA TickDepth == ASSUME DepthInv, Tick  PROVE DepthInv'
<1>1. /\ now + 1 \in Blocks /\ now' = now + 1 /\ UNCHANGED <<tier2, reader, daemon, far>>
      /\ daemon.done /\ daemon.at = now /\ excused' = {b \in excused : b > now}
      /\ unsaved' = {b \in unsaved : b > now}
  BY DEF Tick
<1>2. now \in Nat /\ daemon.pc = "idle" /\ \A b \in Blocks : b \in Nat
  BY <1>1, DepthTypes DEF DepthInv, DoneTried
<1>3. NoHoleBehind'
  BY <1>1, <1>2 DEF DepthInv, NoHoleBehind, Behind, Tried
<1> QED   BY <1>1, <1>2, <1>3 DEF DepthInv, DepthTyped, InStep, OnAirFirst,
            ScanTried, DoneTried, Scanning, Filling

LEMMA RestartDepth == ASSUME DepthInv, Restart  PROVE DepthInv'
<1>1. /\ UNCHANGED <<now, tier2, excused, unsaved>> /\ far' = 0 /\ daemon' = Resting
  BY DEF Restart
<1>2. daemon' \in Work /\ daemon'.pc = "idle" /\ ~daemon'.done
  BY <1>1, RestingWorks
<1>3. now \in Nat /\ far \in Nat /\ \A b \in Blocks : b \in Nat
  BY DepthTypes
<1>4. NoHoleBehind'
  BY <1>1, <1>3 DEF DepthInv, NoHoleBehind, Behind, Tried
<1> QED   BY <1>1, <1>2, <1>3, <1>4 DEF DepthInv, DepthTyped, InStep, OnAirFirst,
            ScanTried, DoneTried, Scanning, Filling

\* What has been tried stays so until the clock has passed it.
LEMMA TriedStays ==
  ASSUME DepthInv, [Next]_vars
  PROVE  /\ now' \in Int /\ now' >= now
         /\ \A b \in Blocks : now' <= b /\ Tried(b) => Tried(b)'
<1>0. now \in Nat /\ \A b \in Blocks : b \in Nat
  BY DepthTypes
<1>1. CASE Tick
  BY <1>0, <1>1 DEF Tick, Tried
<1>2. CASE Purges
  BY <1>0, <1>2, DepthTypes DEF Purges, Tried, DepthInv, InStep
<1>3. CASE now' = now /\ tier2 \subseteq tier2' /\ excused \subseteq excused' /\ unsaved \subseteq unsaved'
  BY <1>0, <1>3 DEF Tried
<1>4. \/ Tick \/ Purges
      \/ now' = now /\ tier2 \subseteq tier2' /\ excused \subseteq excused' /\ unsaved \subseteq unsaved'
  BY DEF Next, vars, TunesIn, Feeds, Asks, Reader, Compiles, Finds, LooksUp, FillsNow, Commits, Answers,
         Daemon, Evaluates, ReadsFrontier, ScansDay, Prefills, Prewrites, Breaks, Restart
<1> QED   BY <1>1, <1>2, <1>3, <1>4

LEMMA InitSession == Init => SessionTried
<1> SUFFICES ASSUME Init  PROVE SessionTried
  OBVIOUS
<1>1. \A b \in Blocks : b \in Nat
  BY BlocksAre
<1>2. nextBlock = [r \in Readers |-> -1] /\ \A r \in Readers : reader[r].pc = "idle"
  BY DEF Init, Idle, NoSession
<1> QED   BY <1>1, <1>2 DEF SessionTried, GotBy

\* A step of one thread: what it has got then, it had or has tried now.
LEMMA OneSession ==
  ASSUME DepthInv, SessionTried, [Next]_vars, now' = now, reader \in [Readers -> Calls],
         NEW r \in Readers, NEW call, NEW upTo \in Int, Call(r, call),
         nextBlock' = [nextBlock EXCEPT ![r] = upTo],
         call.pc # "idle" => call.at \in Blocks,
         \A b \in Blocks : /\ now <= b
                           /\ \/ b < upTo
                              \/ call.pc # "idle" /\ b < call.at
                              \/ call.pc = "commit" /\ ~call.insert /\ b = call.at
                           => Tried(b) \/ Tried(b)'
  PROVE  SessionTried'
<1>1. nextBlock' \in [Readers -> Int] /\ nextBlock'[r] = upTo /\ reader'[r] = call
  BY DEF SessionTried, Call
<1>2. \A x \in Readers : x # r => nextBlock'[x] = nextBlock[x] /\ reader'[x] = reader[x]
  BY DEF SessionTried, Call
<1>3. ASSUME NEW x \in Readers, NEW b \in Blocks, now <= b, GotBy(x, b)'  PROVE Tried(b)'
  <2>1. CASE x = r
    <3>1. Tried(b) \/ Tried(b)'
      BY <1>1, <1>3, <2>1 DEF GotBy
    <3> QED   BY <1>3, <3>1, TriedStays
  <2>2. CASE x # r
    <3>1. Tried(b)
      BY <1>2, <1>3, <2>2 DEF GotBy, SessionTried
    <3> QED   BY <1>3, <3>1, TriedStays
  <2> QED   BY <2>1, <2>2
<1>4. \A x \in Readers : reader'[x].pc # "idle" => reader'[x].at \in Blocks
  BY <1>1, <1>2 DEF SessionTried
<1> QED   BY <1>1, <1>3, <1>4 DEF SessionTried

LEMMA AsksSession ==
  ASSUME IInv, DepthInv, SessionTried, [Next]_vars, Asking
  PROVE  SessionTried'
<1>0. PICK r \in Readers : \E t : Asks(r, t) /\ (t = now \/ t = nextBlock[r])
  BY DEF Asking, TunesIn, Feeds
<1>1. PICK t : Asks(r, t) /\ (t = now \/ t = nextBlock[r])
  BY <1>0
<1> DEFINE compile == [Idle EXCEPT !.pc = "compile", !.at = t, !.day = NextDay]
           find == [Idle EXCEPT !.pc = "find", !.at = t]
<1>2. /\ compile.at = t /\ compile.pc = "compile" /\ find.at = t /\ find.pc = "find"
  BY DEF Idle
<1>3. t \in Blocks /\ (Call(r, compile) \/ Call(r, find)) /\ now' = now /\ nextBlock' = nextBlock
  BY <1>1 DEF Asks
<1> HIDE DEF compile, find
<1>4. PICK call : Call(r, call) /\ call.at = t /\ call.pc \in {"compile", "find"}
  BY <1>2, <1>3
<1>5. reader \in [Readers -> Calls] /\ nextBlock \in [Readers -> Int] /\ now \in Nat
      /\ \A b \in Blocks : b \in Nat
  BY DepthTypes DEF IInv, Typed, SessionTried
<1>6. nextBlock' = [nextBlock EXCEPT ![r] = nextBlock[r]] /\ nextBlock[r] \in Int
  BY <1>3, <1>5
<1>7. ASSUME NEW b \in Blocks, now <= b, b < nextBlock[r] \/ b < t
      PROVE  Tried(b)
  <2>1. b < nextBlock[r]
    BY <1>1, <1>5, <1>7
  <2> QED   BY <1>7, <2>1 DEF SessionTried, GotBy
<1>8. call.pc # "commit" /\ call.pc # "idle" /\ call.at \in Blocks
  BY <1>3, <1>4
<1> QED   BY <1>3, <1>4, <1>5, <1>6, <1>7, <1>8, OneSession

\* A thread that answers has tried its block: it found a row, wrote one, could
\* not, or another one wrote it first.
LEMMA ReaderSession ==
  ASSUME IInv, DepthInv, SessionTried, [Next]_vars, NEW r \in Readers, Reader(r)
  PROVE  SessionTried'
<1> DEFINE c == reader[r]
           moved(p) == [c EXCEPT !.pc = p]
           located == [c EXCEPT !.pc = "find", !.day = 0]
           decided(i) == [c EXCEPT !.pc = "commit", !.insert = i]
<1>0. reader \in [Readers -> Calls] /\ nextBlock \in [Readers -> Int] /\ now \in Nat
      /\ \A b \in Blocks : b \in Nat
  BY DepthTypes DEF IInv, Typed, SessionTried
<1>1. c \in Calls /\ c.pc # "idle" /\ now' = now
  BY <1>0 DEF Reader, Compiles, Finds, LooksUp, FillsNow, Commits
<1>2. c.at \in Blocks /\ c.at \in Nat
  BY <1>0, <1>1 DEF SessionTried
<1>3. ASSUME NEW b \in Blocks, now <= b, b < nextBlock[r] \/ b < c.at  PROVE Tried(b)
  BY <1>1, <1>3 DEF SessionTried, GotBy
<1>4. /\ located.at = c.at /\ located.pc = "find" /\ Idle.pc = "idle"
      /\ \A p : moved(p).at = c.at /\ moved(p).pc = p
      /\ \A i : decided(i).at = c.at /\ decided(i).pc = "commit" /\ decided(i).insert = i
  BY <1>1 DEF Calls, Idle
<1>5. nextBlock' = nextBlock => nextBlock' = [nextBlock EXCEPT ![r] = nextBlock[r]] /\ nextBlock[r] \in Int
  BY <1>0
<1>6. ASSUME NEW call, Call(r, call), nextBlock' = nextBlock,
             call.pc = "idle" \/ call.at = c.at,
             call.pc = "commit" /\ ~call.insert => Tried(c.at)
      PROVE  SessionTried'
  <2>1. call.pc # "idle" => call.at \in Blocks
    BY <1>2, <1>6
  <2>2. \A b \in Blocks : /\ now <= b
                          /\ \/ b < nextBlock[r]
                             \/ call.pc # "idle" /\ b < call.at
                             \/ call.pc = "commit" /\ ~call.insert /\ b = call.at
                          => Tried(b)
    BY <1>3, <1>6
  <2> QED   BY <1>0, <1>1, <1>5, <1>6, <2>1, <2>2, OneSession
<1> PICK at : at = c.at
  OBVIOUS
<1>7. ASSUME Answers(r), now <= at => Tried(at) \/ Tried(at)'  PROVE SessionTried'
  <2>1. Call(r, Idle) /\ nextBlock' = [nextBlock EXCEPT ![r] = at + 1] /\ at + 1 \in Int
    BY <1>2, <1>7 DEF Answers
  <2>2. ASSUME NEW b \in Blocks, now <= b, b < at + 1  PROVE Tried(b) \/ Tried(b)'
    <3>1. b < at \/ b = at
      BY <1>0, <1>2, <2>2
    <3>2. CASE b < at
      BY <1>3, <2>2, <3>2
    <3>3. CASE b = at
      BY <1>7, <2>2, <3>3
    <3> QED   BY <3>1, <3>2, <3>3
  <2> DEFINE upTo == at + 1
  <2> HIDE DEF upTo, c
  <2> QED   BY <1>0, <1>1, <1>4, <2>1, <2>2, OneSession DEF upTo
<1> HIDE DEF c, moved, located, decided
<1>8. CASE Compiles(r)
  BY <1>4, <1>6, <1>8 DEF Compiles, c, located
<1>9. CASE Finds(r)
  BY <1>4, <1>6, <1>9 DEF Finds, c, moved
<1>10. CASE LooksUp(r)
  <2>1. (Answers(r) /\ c.at \in tier2) \/ (Call(r, moved("fill")) /\ nextBlock' = nextBlock)
    BY <1>10 DEF LooksUp, c, moved
  <2> QED   BY <1>4, <1>6, <1>7, <2>1 DEF Tried
<1>11. CASE FillsNow(r)
  <2>1. nextBlock' = nextBlock /\ (Call(r, Idle) \/ Call(r, decided(c.at \notin tier2)))
    BY <1>11 DEF FillsNow, c, decided
  <2>2. CASE Call(r, Idle)
    BY <1>4, <1>6, <2>1, <2>2
  <2>3. CASE Call(r, decided(c.at \notin tier2))
    <3> DEFINE i == c.at \notin tier2
    <3>1. ~i => Tried(c.at)
      BY DEF Tried
    <3> HIDE DEF i
    <3> QED   BY <1>4, <1>6, <2>1, <2>3, <3>1 DEF i
  <2> QED   BY <2>1, <2>2, <2>3
<1>12. CASE Commits(r)
  <2>1. Answers(r) /\ c.pc = "commit" /\ c.insert \in BOOLEAN
    BY <1>1, <1>12 DEF Commits, c, Calls
  <2>2. CASE ~Clash(c.at, c.insert)
    <3>1. tier2' = tier2 \union {at} \/ unsaved' = unsaved \union {at}
      BY <1>12, <2>2 DEF Commits, c
    <3>2. Tried(at)'
      BY <3>1 DEF Tried
    <3> QED   BY <1>7, <2>1, <3>2
  <2>3. CASE Clash(c.at, c.insert) /\ c.insert
    BY <1>7, <2>1, <2>3 DEF Clash, Tried
  <2>4. CASE Clash(c.at, c.insert) /\ ~c.insert
    <3>1. now <= c.at => Tried(c.at)
      BY <1>2, <2>1, <2>4 DEF SessionTried, GotBy, c
    <3> QED   BY <1>7, <2>1, <3>1
  <2> QED   BY <2>1, <2>2, <2>3, <2>4
<1> QED   BY <1>8, <1>9, <1>10, <1>11, <1>12 DEF Reader

LEMMA StepSession == IInv /\ DepthInv /\ SessionTried /\ [Next]_vars => SessionTried'
<1> SUFFICES ASSUME IInv, DepthInv, SessionTried, [Next]_vars  PROVE SessionTried'
  OBVIOUS
<1>0. now \in Nat /\ \A b \in Blocks : b \in Nat
  BY DepthTypes
<1>1. CASE UNCHANGED <<reader, nextBlock>>
  <2>1. \A r \in Readers, b \in Blocks : GotBy(r, b)' => GotBy(r, b)
    BY <1>1 DEF GotBy
  <2>2. now' >= now /\ now' \in Int /\ \A b \in Blocks : now' <= b /\ Tried(b) => Tried(b)'
    BY <1>0, TriedStays
  <2>3. \A b \in Blocks : now' <= b => now <= b
    BY <1>0, <2>2
  <2> QED   BY <1>1, <2>1, <2>2, <2>3 DEF SessionTried
<1>2. CASE Restart
  <2>1. nextBlock' = [r \in Readers |-> -1] /\ \A r \in Readers : reader'[r].pc = "idle"
    BY <1>2 DEF Restart, Idle, NoSession
  <2> QED   BY <1>0, <2>1 DEF SessionTried, GotBy
<1>3. Daemon \/ Tick \/ UNCHANGED vars => UNCHANGED <<reader, nextBlock>>
  BY DEF Daemon, Evaluates, ReadsFrontier, ScansDay, Prefills, Prewrites, Breaks, Purges,
         Tick, vars
<1> QED   BY <1>1, <1>2, <1>3, AsksSession, ReaderSession DEF Next, Asking

LEMMA StepDepth == DepthInv /\ SessionTried /\ [Next]_vars => DepthInv'
<1> SUFFICES ASSUME DepthInv, SessionTried, [Next]_vars  PROVE DepthInv'
  OBVIOUS
<1>1. CASE Daemon
  BY <1>1, EvaluatesDepth, ReadsFrontierDepth, ScansDayDepth, PrefillsDepth,
     PrewritesDepth, BreaksDepth, PurgesDepth DEF Daemon
<1>2. CASE UNCHANGED vars
  BY <1>2 DEF vars, DepthInv, DepthTyped, InStep, NoHoleBehind, OnAirFirst, ScanTried,
              DoneTried, Scanning, Filling, Behind, Tried, TargetEnd, Wanted
<1> QED   BY <1>1, <1>2, ReadersDepth, TickDepth, RestartDepth DEF Next, Asking

\* An evaluation of the daemon that runs to its end leaves every block of the
\* next MinDepth with a row, save those that its scan or a session tried in
\* vain (DepthKept), however far ahead the sessions ask and write meanwhile,
\* whichever statements fail, and however often Core starts again.
THEOREM DepthStands == Spec => []DepthKept
<1>1. DepthInv => DepthKept
  <2> SUFFICES ASSUME DepthInv, daemon.done, daemon.at = now,
                      NEW b \in Blocks, b \in now..(now + MinDepth - 1)
               PROVE  b \in tier2 \union excused \union unsaved
    BY DEF DepthKept
  <2>1. now <= b /\ b < now + MinDepth
    BY DepthTypes
  <2> QED   BY <2>1 DEF DepthInv, DoneTried, Tried
<1>2. Init => IInv /\ DepthInv /\ SessionTried
  BY InitHolds, InitDepth, InitSession
<1>3. IInv /\ DepthInv /\ SessionTried /\ [Next]_vars => (IInv /\ DepthInv /\ SessionTried)'
  BY StepKeeps, StepDepth, StepSession
<1> QED   BY <1>1, <1>2, <1>3, PTL DEF Spec

-----------------------------------------------------------------------------
(***************************************************************************)
(* The types of the horizon: its far end is the end of a block or nothing; *)
(* what a reader asks for is a block, and what it compiles a day; memory   *)
(* holds blocks of compiled days only; and the daemon has blocks to do     *)
(* exactly while it fills.                                                 *)
(***************************************************************************)

Ends(t) == t = 0 \/ t - 1 \in Blocks

HorizonType ==
  /\ tier1 \subseteq Days /\ blocks \subseteq BlocksOf(compiled)
  /\ extending \in BOOLEAN
  /\ \A r \in Readers : reader[r].at \in Blocks /\ reader[r].day \in Days
  /\ ~Filling => daemon.todo = {}
  /\ \A r \in Readers : nextBlock[r] = NoSession \/ Ends(nextBlock[r])
  /\ Ends(far) /\ excused \subseteq Blocks /\ unsaved \subseteq Blocks
  /\ faults \in 0..MaxFaults

\* The first block and the first day there are.
LEMMA FirstAre == 0 \in Blocks /\ 0 \in Days
BY BlocksAre, PlaylogAssumption DEF Days

\* A start counts the days it failed to compile.
LEMMA FailedDays ==
  ASSUME NEW failed, failed \subseteq Days
  PROVE  Cardinality(failed) \in Nat
<1>1. IsFiniteSet(Days)
  BY FS_Interval, PlaylogAssumption DEF Days
<1> QED   BY <1>1, FS_Subset, FS_CardinalityType

LEMMA InitHorizonType == Init => HorizonType
<1> SUFFICES ASSUME Init  PROVE HorizonType
  OBVIOUS
<1>1. PICK failed \in SUBSET FirstDays(0) :
        /\ Cardinality(failed) <= MaxFaults /\ faults = Cardinality(failed)
        /\ tier1 = FirstDays(0) \ failed
  BY DEF Init
<1>2. faults \in 0..MaxFaults
  BY <1>1, FailedDays, PlaylogAssumption DEF FirstDays
<1>3. \A r \in Readers : reader[r].at \in Blocks /\ reader[r].day \in Days
  BY FirstAre DEF Init, Idle
<1>4. daemon.todo = {} /\ Ends(far)
  BY DEF Init, Resting, Ends
<1> QED   BY <1>1, <1>2, <1>3, <1>4 DEF Init, HorizonType, FirstDays

\* What a reader is at stays a block, and what it compiles a day.
LEMMA ReadersAt ==
  ASSUME IInv, DepthInv, HorizonType, [Next]_vars
  PROVE  \A r \in Readers : reader'[r].at \in Blocks /\ reader'[r].day \in Days
<1>0. reader \in [Readers -> Calls] /\ now \in Blocks
      /\ \A r \in Readers : reader[r].at \in Blocks /\ reader[r].day \in Days
  BY DEF IInv, Typed, HorizonType, DepthInv, DepthTyped
<1>1. ASSUME NEW r \in Readers, NEW c, Call(r, c), c.at \in Blocks, c.day \in Days
      PROVE  \A s \in Readers : reader'[s].at \in Blocks /\ reader'[s].day \in Days
  BY <1>0, <1>1 DEF Call
<1>2. Idle.at \in Blocks /\ Idle.day \in Days
  BY FirstAre DEF Idle
<1>3. CASE Asking
  <2>0. PICK r \in Readers : \E t : Asks(r, t)
    BY <1>3 DEF Asking, TunesIn, Feeds
  <2>1. PICK t : Asks(r, t)
    BY <2>0
  <2> DEFINE compile == [Idle EXCEPT !.pc = "compile", !.at = t, !.day = NextDay]
             find == [Idle EXCEPT !.pc = "find", !.at = t]
  <2>2. /\ compile.at = t /\ compile.day = NextDay
        /\ find.at = t /\ find.day = 0
    BY DEF Idle
  <2>3. t \in Blocks /\ ((Call(r, compile) /\ NextDay \in Days) \/ Call(r, find))
    BY <2>1 DEF Asks, ThinAt
  <2> HIDE DEF compile, find
  <2> QED   BY <1>1, <2>2, <2>3, FirstAre
<1>4. CASE \E r \in Readers : Reader(r)
  <2>1. PICK r \in Readers : Reader(r)
    BY <1>4
  <2> DEFINE c == reader[r]
             moved(p) == [c EXCEPT !.pc = p]
             located == [c EXCEPT !.pc = "find", !.day = 0]
             decided(i) == [c EXCEPT !.pc = "commit", !.insert = i]
  <2>2. c \in Calls /\ c.at \in Blocks /\ c.day \in Days
    BY <1>0
  <2>3. /\ located.at = c.at /\ located.day = 0
        /\ \A p : moved(p).at = c.at /\ moved(p).day = c.day
        /\ \A i : decided(i).at = c.at /\ decided(i).day = c.day
    BY <2>2 DEF Calls
  <2>4. \/ Call(r, located) \/ Call(r, Idle)
        \/ \E p : Call(r, moved(p))
        \/ \E i : Call(r, decided(i))
    BY <2>1 DEF Reader, Compiles, Finds, LooksUp, FillsNow, Commits, Answers
  <2> HIDE DEF moved, located, decided, c
  <2> QED   BY <1>1, <1>2, <2>2, <2>3, <2>4, FirstAre
<1>5. CASE reader' = reader
  BY <1>0, <1>5
<1>6. CASE Restart
  BY <1>2, <1>6 DEF Restart
<1>7. Daemon \/ Tick => reader' = reader
  BY DEF Daemon, Evaluates, ReadsFrontier, ScansDay, Prefills, Prewrites, Breaks, Purges, Tick
<1> QED   BY <1>3, <1>4, <1>5, <1>6, <1>7 DEF Next, vars, Asking

\* What the daemon turns to after a block, and whether there is more to do.
LEMMA AfterBlockTodo ==
  ASSUME daemon \in Work, daemon' = AfterBlock
  PROVE  ~Filling' => daemon'.todo = {}
<1> DEFINE next   == [daemon EXCEPT !.pc = "fill", !.todo = @ \ {Block}, !.insert = FALSE]
           ensure == [Resting EXCEPT !.pc = "frontier", !.at = daemon.at]
           onward == [daemon EXCEPT !.pc = "scan", !.todo = {}, !.day = @ + 1, !.insert = FALSE]
<1>1. next.pc = "fill" /\ ensure.todo = {} /\ onward.todo = {}
  BY DEF Work, Resting
<1>2. daemon' = next \/ daemon' = ensure \/ daemon' = onward
  BY DEF AfterBlock
<1> QED   BY <1>1, <1>2 DEF Filling

LEMMA TodoStep ==
  ASSUME DepthInv, HorizonType, [Next]_vars
  PROVE  ~Filling' => daemon'.todo = {}
<1>0. daemon \in Work /\ (~Filling => daemon.todo = {})
  BY DEF DepthInv, DepthTyped, HorizonType
<1>1. CASE daemon' = daemon
  BY <1>0, <1>1 DEF Filling
<1>2. CASE Evaluates
  <2>1. [Resting EXCEPT !.pc = "fill", !.at = now, !.day = Backfill, !.todo = {now}].pc = "fill"
        /\ [Resting EXCEPT !.pc = "frontier", !.at = now].todo = {}
    BY DEF Resting
  <2> QED   BY <1>2, <2>1 DEF Evaluates, Filling
<1>3. CASE ReadsFrontier
  <2>1. \A c, d : [daemon EXCEPT !.pc = "scan", !.cursor = c, !.day = d].todo = daemon.todo
    BY <1>0 DEF Work
  <2>2. [Resting EXCEPT !.at = daemon.at, !.done = TRUE].todo = {}
    BY DEF Resting
  <2>3. daemon.todo = {}
    BY <1>0, <1>3 DEF ReadsFrontier, Filling
  <2> QED   BY <1>3, <2>1, <2>2, <2>3 DEF ReadsFrontier
<1>4. CASE ScansDay
  <2>1. /\ \A s : [daemon EXCEPT !.pc = "fill", !.todo = s].pc = "fill"
        /\ \A d : [daemon EXCEPT !.day = d].todo = daemon.todo
    BY <1>0 DEF Work
  <2>2. daemon.todo = {}
    BY <1>0, <1>4 DEF ScansDay, Filling
  <2> QED   BY <1>4, <2>1, <2>2 DEF ScansDay, Filling
<1>5. CASE Prefills
  <2>1. \A i : [daemon EXCEPT !.pc = "commit", !.insert = i].pc = "commit"
    BY <1>0 DEF Work
  <2> QED   BY <1>0, <1>5, <2>1, AfterBlockTodo DEF Prefills, Filling
<1>6. CASE Prewrites
  BY <1>0, <1>6, AfterBlockTodo DEF Prewrites
<1>7. CASE Breaks \/ Restart
  BY <1>7 DEF Breaks, Restart, Resting
<1>8. CASE Purges
  BY <1>8 DEF Purges, Resting
<1>9. Asking \/ (\E r \in Readers : Reader(r))
        \/ Tick => daemon' = daemon
  BY DEF Asking, TunesIn, Feeds, Asks, Reader, Compiles, Finds, LooksUp, FillsNow, Commits, Answers, Tick
<1> QED
  BY <1>1, <1>2, <1>3, <1>4, <1>5, <1>6, <1>7, <1>8, <1>9 DEF Next, Daemon, vars, Asking

\* The far end is taken from rows and from the blocks that were found or written.
LEMMA FarStep ==
  ASSUME DepthInv, HorizonType, [Next]_vars
  PROVE  Ends(far')
<1>0. Ends(far) /\ far \in Nat /\ \A b \in Blocks : b \in Nat
  BY DepthTypes DEF HorizonType
<1>1. CASE far' = far
  BY <1>0, <1>1
<1>2. CASE ReadsFrontier
  <2>1. Ends(Frontier)
    <3>1. CASE tier2 = {}
      BY <3>1 DEF Frontier, Ends
    <3>2. CASE tier2 # {}
      <4>1. PICK top \in Nat : Blocks = 0..top
        BY BlocksAre
      <4> DEFINE m == Max(tier2)
      <4>2. m \in Blocks
        BY <3>2, <4>1, MaxMin DEF DepthInv, DepthTyped
      <4>3. Frontier = m + 1
        BY <3>2 DEF Frontier
      <4> HIDE DEF m
      <4>4. (m + 1) - 1 = m
        BY <1>0, <4>2
      <4> QED   BY <4>2, <4>3, <4>4 DEF Ends
    <3> QED   BY <3>1, <3>2
  <2> QED   BY <1>0, <1>2, <2>1 DEF ReadsFrontier, Larger
<1>3. CASE ScansDay
  <2> DEFINE d == daemon.day
             found == {b + 1 : b \in Wanted(d) \ Missing(d)}
             ends == {far} \union found
  <2>1. CASE d \in tier1
    <3>1. PICK top \in Nat : Blocks = 0..top
      BY BlocksAre
    <3>2. \A e \in found : \E b \in Blocks : e = b + 1
      BY DEF Wanted, BlocksOf
    <3> DEFINE most == top + 1 + far
    <3>3. ends \subseteq 0..most /\ ends # {} /\ most \in Nat
      BY <1>0, <3>1, <3>2
    <3>4. far' = Max(ends)
      BY <1>3, <2>1 DEF ScansDay
    <3>5. far' \in ends
      <4> HIDE DEF ends, most
      <4> QED   BY <3>3, <3>4, MaxMin
    <3>6. \A e \in ends : Ends(e)
      BY <1>0, <3>2 DEF Ends
    <3> HIDE DEF ends
    <3> QED   BY <3>5, <3>6
  <2>2. CASE d \notin tier1
    BY <1>0, <1>3, <2>2 DEF ScansDay
  <2> QED   BY <2>1, <2>2
<1>4. CASE Prewrites
  <2>1. Block \in Blocks
    BY <1>4, BlockIsFirst DEF Prewrites, Filling, DepthInv, DepthTyped, Work
  <2>2. (Block + 1) - 1 = Block
    BY <1>0, <2>1
  <2> QED   BY <1>0, <1>4, <2>1, <2>2 DEF Prewrites, Larger, Ends
<1>5. CASE Restart
  BY <1>5 DEF Restart, Ends
<1>6. Asking \/ (\E r \in Readers : Reader(r))
        \/ Evaluates \/ Prefills \/ Breaks \/ Purges \/ Tick => far' = far
  BY DEF Asking, TunesIn, Feeds, Asks, Reader, Compiles, Finds, LooksUp, FillsNow, Commits, Answers, Evaluates, Prefills, Breaks,
         Purges, Tick
<1> QED
  BY <1>1, <1>2, <1>3, <1>4, <1>5, <1>6 DEF Next, Daemon, vars, Asking

\* The blocks a scan gave up, and the faults there may be.
LEMMA CountsStep ==
  ASSUME DepthInv, HorizonType, [Next]_vars
  PROVE  excused' \subseteq Blocks /\ unsaved' \subseteq Blocks /\ faults' \in 0..MaxFaults
<1>1. excused' \subseteq Blocks
  <2>0. now \in Blocks /\ excused \subseteq Blocks /\ \A d : Wanted(d) \subseteq Blocks
    BY DEF DepthInv, DepthTyped, HorizonType, Wanted, BlocksOf
  <2>1. CASE Prefills
    <3>1. Block \in Blocks
      BY <2>1, BlockIsFirst DEF Prefills, Filling, DepthInv, DepthTyped, Work
    <3> QED   BY <2>0, <2>1, <3>1 DEF Prefills
  <2>2. Evaluates \/ ScansDay \/ Tick => excused' \subseteq Blocks
    BY <2>0 DEF Evaluates, ScansDay, Tick
  <2>3. Asking \/ (\E r \in Readers : Reader(r))
          \/ ReadsFrontier \/ Prewrites \/ Breaks \/ Purges \/ Restart => excused' = excused
    BY DEF Asking, TunesIn, Feeds, Asks, Reader, Compiles, Finds, LooksUp, FillsNow, Commits, Answers, ReadsFrontier, Prewrites,
           Breaks, Purges, Restart
  <2> QED   BY <2>0, <2>1, <2>2, <2>3 DEF Next, Daemon, vars, Asking
<1>2. faults' \in 0..MaxFaults
  <2>0. faults \in 0..MaxFaults /\ MaxFaults \in Nat
    BY PlaylogAssumption DEF HorizonType
  <2>1. CASE Restart
    <3>1. PICK failed \in SUBSET (FirstDays(now) \ tier1) :
            faults' = faults + Cardinality(failed) + 1 /\ faults' <= MaxFaults
      BY <2>1 DEF Restart
    <3>2. Cardinality(failed) \in Nat
      BY FailedDays DEF FirstDays
    <3> QED   BY <2>0, <3>1, <3>2
  <2>2. Faulty => faults' \in 0..MaxFaults
    BY <2>0 DEF Faulty
  <2>3. Asking \/ (\E r \in Readers : Reader(r))
          \/ Daemon \/ Tick => faults' = faults \/ Faulty
    BY DEF Asking, TunesIn, Feeds, Asks, Reader, Compiles, Finds, LooksUp, FillsNow, Commits, Answers, Daemon, Evaluates,
           ReadsFrontier, ScansDay, Prefills, Prewrites, Breaks, Purges, Tick
  <2> QED   BY <2>0, <2>1, <2>2, <2>3 DEF Next, vars, Asking
<1>3. unsaved' \subseteq Blocks
  <2>1. CASE \E r \in Readers : Commits(r)
    BY <2>1 DEF Commits, HorizonType
  <2>2. CASE Tick
    BY <2>2 DEF Tick, HorizonType
  <2>3. unsaved' = unsaved \/ Tick \/ \E r \in Readers : Commits(r)
    BY DEF Next, vars, TunesIn, Feeds, Asks, Reader, Compiles, Finds, LooksUp, FillsNow, Daemon,
           Evaluates, ReadsFrontier, ScansDay, Prefills, Prewrites, Breaks, Purges, Restart
  <2> QED   BY <2>1, <2>2, <2>3 DEF HorizonType
<1> QED   BY <1>1, <1>2, <1>3

\* Memory holds blocks of compiled days only, and Tier 1 days.
LEMMA MemoryStep ==
  ASSUME IInv, HorizonType, [Next]_vars
  PROVE  tier1' \subseteq Days /\ blocks' \subseteq BlocksOf(compiled') /\ extending' \in BOOLEAN
<1>0. tier1 \subseteq Days /\ blocks \subseteq BlocksOf(compiled) /\ extending \in BOOLEAN
  BY DEF HorizonType
<1>1. CASE UNCHANGED <<tier1, blocks, compiled>>
  <2>1. extending' \in BOOLEAN
    BY <1>0 DEF Next, vars, TunesIn, Feeds, Asks, Reader, Compiles, Finds, LooksUp, FillsNow, Commits, Answers, service,
                Daemon, Evaluates, ReadsFrontier, ScansDay, Prefills, Prewrites, Breaks, Purges,
                Tick, Restart
  <2> QED   BY <1>0, <1>1, <2>1
<1>2. CASE \E r \in Readers : Compiles(r)
  <2>1. PICK r \in Readers : Compiles(r)
    BY <1>2
  <2>2. reader[r].day \in Days
    BY DEF HorizonType
  <2> DEFINE d == reader[r].day
  <2>3. tier1' \subseteq Days
    BY <1>0, <2>1, <2>2 DEF Compiles, Kept
  <2>4. \/ UNCHANGED <<compiled, blocks>>
        \/ /\ compiled' = compiled \union {d}
           /\ blocks' = Recent(blocks \union BlocksOf({d}), reader[r].at)
    BY <2>1 DEF Compiles
  <2>5. BlocksOf(compiled) \union BlocksOf({d}) \subseteq BlocksOf(compiled \union {d})
    BY DEF BlocksOf
  <2>6. blocks' \subseteq BlocksOf(compiled')
    BY <1>0, <2>4, <2>5 DEF Recent
  <2> QED   BY <2>1, <2>3, <2>6 DEF Compiles
<1>3. CASE Restart
  <2>1. blocks' = BlocksOf(compiled') /\ extending' = FALSE
    BY <1>3 DEF Restart, BlocksOf
  <2>2. tier1' \subseteq Days
    BY <1>0, <1>3 DEF Restart, FirstDays
  <2> QED   BY <2>1, <2>2
<1>4. UNCHANGED <<tier1, blocks, compiled>> \/ (\E r \in Readers : Compiles(r)) \/ Restart
  BY DEF Next, vars, TunesIn, Feeds, Asks, Reader, Finds, LooksUp, FillsNow, Commits, Answers, service,
         Daemon, Evaluates, ReadsFrontier, ScansDay, Prefills, Prewrites, Breaks, Purges, Tick
<1> QED   BY <1>1, <1>2, <1>3, <1>4

\* A session's cursor is the end of a block that was asked for.
LEMMA CursorStep ==
  ASSUME SessionTried, HorizonType, [Next]_vars
  PROVE  \A r \in Readers : nextBlock'[r] = NoSession \/ Ends(nextBlock'[r])
<1>1. CASE \E r \in Readers : Answers(r)
  <2>1. PICK r \in Readers : Answers(r)
    BY <1>1
  <2>2. nextBlock \in [Readers -> Int] /\ reader[r].at \in Blocks /\ \A b \in Blocks : b \in Nat
    BY BlocksAre DEF SessionTried, HorizonType
  <2>3. Ends(reader[r].at + 1)
    BY <2>2 DEF Ends
  <2> QED   BY <2>1, <2>2, <2>3 DEF Answers, HorizonType
<1>2. CASE Restart
  BY <1>2 DEF Restart
<1>3. nextBlock' = nextBlock \/ Restart \/ \E r \in Readers : Answers(r)
  BY DEF Next, vars, TunesIn, Feeds, Asks, Reader, Compiles, Finds, LooksUp, FillsNow, Commits,
         Daemon, Evaluates, ReadsFrontier, ScansDay, Prefills, Prewrites, Breaks, Purges, Tick
<1> QED   BY <1>1, <1>2, <1>3 DEF HorizonType

LEMMA StepHorizonType ==
  IInv /\ DepthInv /\ SessionTried /\ HorizonType /\ [Next]_vars => HorizonType'
<1> SUFFICES ASSUME IInv, DepthInv, SessionTried, HorizonType, [Next]_vars  PROVE HorizonType'
  OBVIOUS
<1>1. Ends(far)'
  BY FarStep DEF Ends, Blocks
<1>2. (~Filling => daemon.todo = {})'
  BY TodoStep
<1>3. (blocks \subseteq BlocksOf(compiled))'
  BY MemoryStep DEF BlocksOf
<1>4. (\A r \in Readers : reader[r].at \in Blocks /\ reader[r].day \in Days)'
  BY ReadersAt
<1>5. (\A r \in Readers : nextBlock[r] = NoSession \/ Ends(nextBlock[r]))'
  BY CursorStep DEF Ends, Blocks, NoSession
<1> QED   BY <1>1, <1>2, <1>3, <1>4, <1>5, MemoryStep, CountsStep DEF HorizonType

\* DslScheduleService, PlaylogHorizonDaemon and the readers keep their types:
\* the far end, the rows and the calls are about blocks the horizon has, memory
\* holds blocks of compiled days only, and an evaluation that fills has a block
\* to fill.
THEOREM TypeCorrect == Spec => []TypeOK
<1>1. Init => IInv /\ DepthInv /\ SessionTried /\ HorizonType
  BY InitHolds, InitDepth, InitSession, InitHorizonType
<1>2. IInv /\ DepthInv /\ SessionTried /\ HorizonType /\ [Next]_vars
        => (IInv /\ DepthInv /\ SessionTried /\ HorizonType)'
  BY StepKeeps, StepDepth, StepSession, StepHorizonType
<1>3. ASSUME IInv, DepthInv, SessionTried, HorizonType  PROVE TypeOK
  <2>1. /\ now \in Blocks /\ tier2 \subseteq Blocks /\ daemon \in Work /\ far \in Nat
        /\ \A b \in Blocks : b \in Nat
    BY <1>3, DepthTypes DEF DepthInv, DepthTyped
  <2>2. far \in 0..(Max(Blocks) + 1)
    <3>1. PICK top \in Nat : Blocks = 0..top
      BY BlocksAre
    <3>2. Max(Blocks) \in Blocks /\ \A b \in Blocks : b <= Max(Blocks)
      BY <3>1, MaxMin
    <3> QED   BY <1>3, <2>1, <3>1, <3>2 DEF HorizonType, Ends
  <2>7. nextBlock \in [Readers -> NoSession..(Max(Blocks) + 1)]
    <3>1. PICK top \in Nat : Blocks = 0..top
      BY BlocksAre
    <3>2. Max(Blocks) \in Blocks /\ \A b \in Blocks : b <= Max(Blocks)
      BY <3>1, MaxMin
    <3>3. nextBlock \in [Readers -> Int] /\ NoSession = -1
      BY <1>3 DEF SessionTried, NoSession
    <3>4. ASSUME NEW r \in Readers  PROVE nextBlock[r] \in NoSession..(Max(Blocks) + 1)
      BY <1>3, <2>1, <3>1, <3>2, <3>3 DEF HorizonType, Ends
    <3> QED   BY <3>3, <3>4
  <2>3. daemon.pc \in {"fill", "commit"} <=> daemon.todo # {}
    BY <1>3 DEF HorizonType, Filling, DepthInv, ScanTried
  <2>4. reader \in [Readers -> [pc : {"idle", "compile", "find", "lookup", "fill", "commit"},
                                at : Blocks, day : Days, insert : BOOLEAN]]
    <3> DEFINE T == [pc : {"idle", "compile", "find", "lookup", "fill", "commit"},
                     at : Blocks, day : Days, insert : BOOLEAN]
    <3>1. reader \in [Readers -> Calls]
      BY <1>3 DEF IInv, Typed
    <3>2. ASSUME NEW r \in Readers  PROVE reader[r] \in T
      <4>1. reader[r] \in Calls /\ reader[r].at \in Blocks /\ reader[r].day \in Days
        BY <1>3, <3>1 DEF HorizonType
      <4> DEFINE call == reader[r]
      <4> HIDE DEF call
      <4>2. call \in Calls /\ call.at \in Blocks /\ call.day \in Days => call \in T
        BY DEF Calls
      <4> QED   BY <4>1, <4>2 DEF call
    <3>3. reader \in [Readers -> T]
      <4> HIDE DEF T
      <4> QED   BY <3>1, <3>2
    <3> QED   BY <3>3
  <2>5. daemon.pc \in {"idle", "frontier", "scan", "fill", "commit"}
    BY <2>1 DEF Work
  <2>6. compiled \subseteq Days
    BY <1>3 DEF IInv, Typed
  <2> QED   BY <1>3, <2>1, <2>2, <2>3, <2>4, <2>5, <2>6, <2>7 DEF TypeOK, HorizonType
<1> QED   BY <1>1, <1>2, <1>3, PTL DEF Spec

-----------------------------------------------------------------------------
(* Numbers, order and lists of lengths.                                    *)

\* Induction over the numbers, for a set that holds 0 and the successor of every member.
LEMMA NatInduct ==
  ASSUME NEW I, 0 \in I, \A n \in Nat : n \in I => n + 1 \in I
  PROVE  \A n \in Nat : n \in I
<1> SUFFICES ASSUME NEW x \in Nat, x \notin I PROVE FALSE
  OBVIOUS
<1> DEFINE T == {n \in 0..x : n \notin I}
<1>1. T \subseteq 0..x /\ T # {}
  OBVIOUS
<1>2. PICK m \in T : \A d \in T : m <= d
  <2> HIDE DEF T
  <2> QED   BY <1>1, Least
<1>3. m # 0 /\ m - 1 \in 0..x /\ m - 1 \in Nat
  OBVIOUS
<1>4. m - 1 \in I
  BY <1>2, <1>3
<1>5. m \in I
  <2>1. (m - 1) + 1 = m
    BY <1>3
  <2> QED   BY <1>3, <1>4, <2>1
<1> QED   BY <1>5

\* A strict total order of a finite set numbers its members, from 0 upward.
LEMMA Ranking ==
  ASSUME NEW S, IsFiniteSet(S), NEW R,
         \A x \in S : <<x, x>> \notin R,
         \A x, y \in S : x # y => <<x, y>> \in R \/ <<y, x>> \in R,
         \A x, y, z \in S : <<x, y>> \in R /\ <<y, z>> \in R => <<x, z>> \in R
  PROVE  LET Lower(x) == {y \in S : <<y, x>> \in R} IN
         /\ Cardinality(S) \in Nat
         /\ \A x \in S : Cardinality(Lower(x)) \in 0..(Cardinality(S) - 1)
         /\ \A x, y \in S : <<x, y>> \in R <=> Cardinality(Lower(x)) < Cardinality(Lower(y))
         /\ \A n \in 1..Cardinality(S) : \E x \in S : Cardinality(Lower(x)) = n - 1
<1> DEFINE Lower(x) == {y \in S : <<y, x>> \in R}
           r == [x \in S |-> Cardinality(Lower(x)) + 1]
           N == Cardinality(S)
<1>1. N \in Nat
  BY FS_CardinalityType
<1>2. ASSUME NEW x \in S PROVE IsFiniteSet(Lower(x)) /\ Cardinality(Lower(x)) \in 0..(N - 1)
  <2>1. Lower(x) \in SUBSET S /\ Lower(x) # S
    OBVIOUS
  <2> HIDE DEF Lower
  <2>2. IsFiniteSet(Lower(x)) /\ Cardinality(Lower(x)) <= N /\ Cardinality(Lower(x)) # N
    BY <2>1, FS_Subset
  <2>3. Cardinality(Lower(x)) \in Nat
    BY <2>2, FS_CardinalityType
  <2> QED   BY <1>1, <2>2, <2>3
<1>3. ASSUME NEW x \in S, NEW y \in S, <<x, y>> \in R
      PROVE  Cardinality(Lower(x)) < Cardinality(Lower(y))
  <2>1. Lower(x) \in SUBSET Lower(y) /\ Lower(x) # Lower(y)
    BY <1>3
  <2> HIDE DEF Lower
  <2> QED   BY <1>1, <1>2, <2>1, FS_Subset
<1>4. ASSUME NEW x \in S, NEW y \in S, Cardinality(Lower(x)) < Cardinality(Lower(y))
      PROVE  <<x, y>> \in R
  <2> HIDE DEF Lower
  <2>1. Cardinality(Lower(x)) \in Int /\ Cardinality(Lower(y)) \in Int
    BY <1>1, <1>2
  <2>2. x # y
    BY <1>4, <2>1
  <2>3. <<y, x>> \in R => Cardinality(Lower(y)) < Cardinality(Lower(x))
    BY <1>3
  <2>4. <<y, x>> \notin R
    BY <1>4, <2>1, <2>3
  <2> QED   BY <2>2, <2>4
<1>5. r \in Injection(S, 1..N)
  <2>1. r \in [S -> 1..N]
    <3>1. ASSUME NEW x \in S PROVE Cardinality(Lower(x)) + 1 \in 1..N
      <4>1. Cardinality(Lower(x)) \in 0..(N - 1)
        BY <1>2
      <4> HIDE DEF Lower, N
      <4> QED   BY <1>1, <4>1
    <3> QED   BY <3>1
  <2>2. \A x, y \in S : r[x] = r[y] => x = y
    <3> TAKE x, y \in S
    <3>1. r[x] = Cardinality(Lower(x)) + 1 /\ r[y] = Cardinality(Lower(y)) + 1
      OBVIOUS
    <3> HIDE DEF Lower, r
    <3>2. Cardinality(Lower(x)) \in Int /\ Cardinality(Lower(y)) \in Int
      BY <1>1, <1>2
    <3>3. x # y => r[x] < r[y] \/ r[y] < r[x]
      <4>1. <<x, y>> \in R => Cardinality(Lower(x)) < Cardinality(Lower(y))
        BY <1>3
      <4>2. <<y, x>> \in R => Cardinality(Lower(y)) < Cardinality(Lower(x))
        BY <1>3
      <4>3. x # y => <<x, y>> \in R \/ <<y, x>> \in R
        OBVIOUS
      <4>4. Cardinality(Lower(x)) < Cardinality(Lower(y)) => r[x] < r[y]
        BY <3>1, <3>2
      <4>5. Cardinality(Lower(y)) < Cardinality(Lower(x)) => r[y] < r[x]
        BY <3>1, <3>2
      <4> QED   BY <4>1, <4>2, <4>3, <4>4, <4>5
    <3> QED   BY <3>1, <3>2, <3>3
  <2> HIDE DEF r
  <2> QED   BY <2>1, <2>2 DEF Injection, IsInjective
<1>6. r \in Surjection(S, 1..N)
  <2>1. IsFiniteSet(1..N) /\ Cardinality(1..N) = N
    BY <1>1, FS_Interval
  <2> HIDE DEF r
  <2> QED   BY <1>5, <2>1, FS_Injection
<1>7. \A n \in 1..N : \E x \in S : Cardinality(Lower(x)) = n - 1
  <2> TAKE n \in 1..N
  <2>1. PICK x \in S : r[x] = n
    <3> HIDE DEF r
    <3> QED   BY <1>6 DEF Surjection
  <2>2. Cardinality(Lower(x)) + 1 = n
    BY <2>1
  <2> HIDE DEF Lower
  <2> QED   BY <1>1, <1>2, <2>2
<1> QED   BY <1>1, <1>2, <1>3, <1>4, <1>7

\* sorted() of a set of numbers lists each of them once, the smallest first.
LEMMA AscendingIs ==
  ASSUME NEW S, IsFiniteSet(S), S \subseteq Int
  PROVE  /\ Ascending(S) \in Seq(S)
         /\ Len(Ascending(S)) = Cardinality(S)
         /\ \A i, j \in 1..Len(Ascending(S)) : i < j => Ascending(S)[i] < Ascending(S)[j]
         /\ \A x \in S : \E i \in 1..Len(Ascending(S)) : Ascending(S)[i] = x
<1> DEFINE R == {p \in S \X S : p[1] < p[2]}
           Lower(x) == {y \in S : <<y, x>> \in R}
           Below(x) == {y \in S : y < x}
           N == Cardinality(S)
           A == Ascending(S)
<1>1. \A x, y \in S : <<x, y>> \in R <=> x < y
  OBVIOUS
<1>2. \A x \in S : Lower(x) = Below(x)
  BY <1>1
<1>3. /\ N \in Nat
      /\ \A x \in S : Cardinality(Lower(x)) \in 0..(N - 1)
      /\ \A x, y \in S : <<x, y>> \in R <=> Cardinality(Lower(x)) < Cardinality(Lower(y))
      /\ \A n \in 1..N : \E x \in S : Cardinality(Lower(x)) = n - 1
  <2>1. /\ \A x \in S : <<x, x>> \notin R
        /\ \A x, y \in S : x # y => <<x, y>> \in R \/ <<y, x>> \in R
        /\ \A x, y, z \in S : <<x, y>> \in R /\ <<y, z>> \in R => <<x, z>> \in R
    BY <1>1
  <2> HIDE DEF R
  <2> QED   BY <2>1, Ranking
<1> HIDE DEF R
<1>4. /\ \A x \in S : Cardinality(Below(x)) \in 0..(N - 1)
      /\ \A x, y \in S : x < y <=> Cardinality(Below(x)) < Cardinality(Below(y))
      /\ \A n \in 1..N : \E x \in S : Cardinality(Below(x)) = n - 1
  <2> HIDE DEF Lower, Below
  <2> QED   BY <1>1, <1>2, <1>3
<1>5. \A n \in 1..N : A[n] \in S /\ Cardinality(Below(A[n])) = n - 1
  <2> TAKE n \in 1..N
  <2>1. A[n] = CHOOSE x \in S : Cardinality(Below(x)) = n - 1
    BY <1>3 DEF Ascending
  <2> HIDE DEF A, Below
  <2> QED   BY <1>4, <2>1
<1>6. DOMAIN A = 1..N /\ A = [n \in 1..N |-> A[n]]
  <2> DEFINE g(n) == CHOOSE x \in S : Cardinality(Below(x)) = n - 1
  <2>1. A = [n \in 1..N |-> g(n)]
    BY DEF Ascending
  <2> HIDE DEF A, g
  <2> QED   BY <2>1
<1> HIDE DEF A
<1>7. A \in Seq(S) /\ Len(A) = N
  <2>1. A \in [1..N -> S] /\ N \in Nat
    BY <1>3, <1>5, <1>6
  <2> HIDE DEF N
  <2> QED   BY <2>1
<1>8. \A i, j \in 1..N : i < j => A[i] < A[j]
  <2> TAKE i, j \in 1..N
  <2> HIDE DEF Below, N
  <2>1. /\ A[i] \in S /\ Cardinality(Below(A[i])) = i - 1
        /\ A[j] \in S /\ Cardinality(Below(A[j])) = j - 1
    BY <1>5
  <2>2. A[i] < A[j] <=> Cardinality(Below(A[i])) < Cardinality(Below(A[j]))
    BY <1>4, <2>1
  <2> QED   BY <1>3, <2>1, <2>2
<1>9. \A x \in S : \E i \in 1..N : A[i] = x
  <2> TAKE x \in S
  <2> DEFINE i == Cardinality(Below(x)) + 1
  <2>1. i \in 1..N
    BY <1>3, <1>4
  <2>2. A[i] = x
    <3>1. A[i] \in S /\ Cardinality(Below(A[i])) = Cardinality(Below(x))
      <4> HIDE DEF Below
      <4> QED  BY <1>3, <1>4, <1>5, <2>1
    <3>2. ~(A[i] < x) /\ ~(x < A[i]) /\ A[i] \in Int /\ x \in Int
      <4> HIDE DEF Below, i, N
      <4>1. Cardinality(Below(x)) \in Int
        BY <1>3, <1>4
      <4>2. A[i] < x <=> Cardinality(Below(A[i])) < Cardinality(Below(x))
        BY <1>4, <3>1
      <4>3. x < A[i] <=> Cardinality(Below(x)) < Cardinality(Below(A[i]))
        BY <1>4, <3>1
      <4>4. A[i] \in Int /\ x \in Int
        BY <3>1
      <4> QED  BY <3>1, <4>1, <4>2, <4>3, <4>4
    <3> QED   BY <3>2
  <2> QED   BY <2>1, <2>2
<1> QED   BY <1>7, <1>8, <1>9 DEF A

\* The running totals of a list start at 0, and each adds its entry to the one before.
LEMMA TotalsAre ==
  ASSUME NEW s, s \in Seq(Int)
  PROVE  /\ Totals(s) \in [0..Len(s) -> Int]
         /\ Totals(s)[0] = 0
         /\ \A n \in 1..Len(s) : Totals(s)[n] = Totals(s)[n - 1] + s[n]
<1> DEFINE Body(t, m) == [n \in 0..m |-> IF n = 0 THEN 0 ELSE t[n - 1] + s[n]]
           I == {m \in Nat : m <= Len(s) => \E t \in [0..m -> Int] : t = Body(t, m)}
<1>1. Len(s) \in Nat /\ \A n \in 1..Len(s) : s[n] \in Int
  OBVIOUS
<1>2. 0 \in I
  <2> DEFINE t == [n \in 0..0 |-> 0]
  <2>1. t = Body(t, 0)
    OBVIOUS
  <2>2. t \in [0..0 -> Int]
    OBVIOUS
  <2> HIDE DEF t
  <2> QED   BY <2>1, <2>2
<1>3. ASSUME NEW m \in Nat, m \in I PROVE m + 1 \in I
  <2> SUFFICES ASSUME m + 1 <= Len(s)
               PROVE  \E t \in [0..(m + 1) -> Int] : t = Body(t, m + 1)
    OBVIOUS
  <2>1. m <= Len(s)
    BY <1>1
  <2>2. PICK t \in [0..m -> Int] : t = Body(t, m)
    BY <1>3, <2>1
  <2> DEFINE u == [n \in 0..(m + 1) |-> IF n = m + 1 THEN t[m] + s[m + 1] ELSE t[n]]
  <2>3. t[m] \in Int /\ s[m + 1] \in Int
    BY <1>1
  <2>4. u \in [0..(m + 1) -> Int]
    BY <2>3
  <2>5. ASSUME NEW n \in 0..(m + 1)
        PROVE  u[n] = IF n = 0 THEN 0 ELSE u[n - 1] + s[n]
    <3>1. CASE n = m + 1
      <4>1. u[n] = t[m] + s[m + 1] /\ u[n - 1] = t[m] /\ n # 0
        BY <3>1
      <4> QED   BY <3>1, <4>1
    <3>2. CASE n # m + 1
      <4>1. n \in 0..m
        BY <3>2
      <4>2. t[n] = IF n = 0 THEN 0 ELSE t[n - 1] + s[n]
        BY <2>2, <4>1
      <4>3. n # 0 => n - 1 \in 0..m /\ n - 1 # m + 1
        BY <4>1
      <4> QED   BY <3>2, <4>1, <4>2, <4>3
    <3> QED   BY <3>1, <3>2
  <2>6. u = Body(u, m + 1)
    <3> HIDE DEF u
    <3> QED   BY <2>4, <2>5
  <2> QED   BY <2>4, <2>6
<1>4. Len(s) \in I
  <2> HIDE DEF I
  <2> QED   BY <1>1, <1>2, <1>3, NatInduct
<1>5. PICK t \in [0..Len(s) -> Int] : t = Body(t, Len(s))
  BY <1>1, <1>4
<1>6. Totals(s) = CHOOSE u : u = [n \in 0..Len(s) |-> IF n = 0 THEN 0 ELSE u[n - 1] + s[n]]
  BY DEF Totals
<1>7. Totals(s) = [n \in 0..Len(s) |-> IF n = 0 THEN 0 ELSE Totals(s)[n - 1] + s[n]]
  BY <1>5, <1>6
<1> DEFINE T == Totals(s)
<1>8. T = Body(T, Len(s))
  BY <1>7
<1> HIDE DEF T
<1> DEFINE J == {m \in Nat : m <= Len(s) => T[m] \in Int}
<1>9. T[0] = 0
  BY <1>1, <1>8
<1>10. \A n \in 1..Len(s) : T[n] = T[n - 1] + s[n]
  <2> TAKE n \in 1..Len(s)
  <2>1. n \in 0..Len(s) /\ n # 0
    BY <1>1
  <2>2. T[n] = Body(T, Len(s))[n]
    BY <1>8
  <2> QED   BY <2>1, <2>2
<1>11. 0 \in J
  BY <1>9
<1>12. ASSUME NEW m \in Nat, m \in J PROVE m + 1 \in J
  <2> SUFFICES ASSUME m + 1 <= Len(s) PROVE T[m + 1] \in Int
    OBVIOUS
  <2>1. T[m] \in Int
    BY <1>1, <1>12
  <2>2. T[m + 1] = T[(m + 1) - 1] + s[m + 1] /\ (m + 1) - 1 = m
    BY <1>1, <1>10
  <2> QED   BY <1>1, <2>1, <2>2
<1>13. \A m \in 0..Len(s) : T[m] \in Int
  <2>1. \A m \in Nat : m \in J
    <3> HIDE DEF J
    <3> QED   BY <1>11, <1>12, NatInduct
  <2> QED   BY <1>1, <2>1
<1>14. T \in [0..Len(s) -> Int]
  BY <1>8, <1>13
<1> QED   BY <1>9, <1>10, <1>14 DEF T

-----------------------------------------------------------------------------
(* The compiler: assets, slots and definitions.                            *)

\* What the catalog knows, and a program block as the compiler places it: in a slot
\* that the length of its asset decides.
Assets == DOMAIN Duration
Placed == {b \in [asset : Assets, start : Nat, dur : Nat, due : Nat,
                  pool : DOMAIN PoolOf \union Assets, turn : Int] :
             b.dur = SlotDuration(b.asset)}

\* A slot is a whole number of grid steps, and at least one.
LEMMA Durations ==
  ASSUME NEW asset \in Assets
  PROVE  /\ Duration[asset] \in Nat
         /\ SlotsOf(asset) \in Nat \ {0}
         /\ SlotDuration(asset) \in Nat /\ SlotDuration(asset) > 0
         /\ SlotDuration(asset) % Grid = 0
<1>1. Duration[asset] \in Nat /\ Grid \in Nat \ {0}
  BY DurationAssumption, TimeAssumption DEF Assets
<1>2. SlotsOf(asset) \in Nat \ {0}
  <2>1. CASE Duration[asset] <= Grid
    BY <2>1 DEF SlotsOf
  <2>2. CASE ~(Duration[asset] <= Grid)
    <3> DEFINE n == (Duration[asset] + Grid - 1) \div Grid
    <3>1. n \in Nat /\ n # 0
      BY <1>1, <2>2
    <3>2. SlotsOf(asset) = n
      BY <2>2 DEF SlotsOf
    <3> QED   BY <3>1, <3>2
  <2> QED   BY <2>1, <2>2
<1> DEFINE n == SlotsOf(asset)
<1>3. n * Grid \in Nat /\ n * Grid > 0 /\ (n * Grid) % Grid = 0
  <2>0. n \in Nat \ {0}
    BY <1>2
  <2> HIDE DEF n
  <2>1. n * Grid \in Nat /\ n * Grid > 0
    BY <1>1, <2>0
  <2>2. (n * Grid) % Grid = 0
    BY <1>1, <2>0
  <2> QED   BY <2>1, <2>2
<1> QED   BY <1>1, <1>2, <1>3 DEF SlotDuration

\* The end of a block on the grid that lasts whole grid steps is on the grid.
LEMMA GridSum ==
  ASSUME NEW x \in Nat, NEW y \in Nat, x % Grid = 0, y % Grid = 0
  PROVE  (x + y) % Grid = 0
<1>1. Grid \in Nat \ {0}
  BY TimeAssumption
<1> DEFINE p == x \div Grid
           q == y \div Grid
<1>2. x = p * Grid /\ p \in Nat
  BY <1>1
<1>3. y = q * Grid /\ q \in Nat
  BY <1>1
<1> HIDE DEF p, q
<1>4. x + y = (p + q) * Grid /\ p + q \in Nat
  BY <1>1, <1>2, <1>3
<1>5. ((p + q) * Grid) % Grid = 0
  BY <1>1, <1>4
<1> QED   BY <1>4, <1>5

\* A DSL has finitely many schedule layers, each with finitely many valid definitions.
LEMMA Layers ==
  ASSUME NEW layers \in Dsls
  PROVE  /\ Len(layers) \in Nat /\ DOMAIN layers = 1..Len(layers)
         /\ IsFiniteSet(DOMAIN layers)
         /\ \A i \in DOMAIN layers :
              /\ DOMAIN layers[i].defs \subseteq Nat /\ IsFiniteSet(DOMAIN layers[i].defs)
              /\ \A from \in DOMAIN layers[i].defs : Valid(layers[i].defs[from])
<1>1. layers \in Seq(Range(layers))
  BY DslAssumption
<1>2. Len(layers) \in Nat /\ DOMAIN layers = 1..Len(layers)
  BY <1>1
<1>3. IsFiniteSet(DOMAIN layers)
  BY <1>2, FS_Interval
<1> QED   BY <1>2, <1>3, DslAssumption

\* The union of finitely many finite sets is finite.
LEMMA FiniteUnion ==
  ASSUME NEW S, IsFiniteSet(S), NEW f, f = [x \in S |-> f[x]],
         \A x \in S : IsFiniteSet(f[x])
  PROVE  IsFiniteSet(UNION {f[x] : x \in S})
<1> DEFINE T == {f[x] : x \in S}
<1>1. f \in Surjection(S, T)
  <2>1. f \in [S -> T]
    OBVIOUS
  <2> QED   BY <2>1 DEF Surjection
<1>2. IsFiniteSet(T)
  <2> HIDE DEF T
  <2> QED   BY <1>1, FS_Surjection
<1>3. \A t \in T : IsFiniteSet(t)
  OBVIOUS
<1> HIDE DEF T
<1> QED   BY <1>2, <1>3, FS_UNION DEF T

\* A definition that _resolve_schedule_for_date merges is one of a layer.
LEMMA MergedIs ==
  ASSUME dsl \in Dsls, NEW d
  PROVE  /\ DOMAIN Merged(d) \subseteq Nat /\ IsFiniteSet(DOMAIN Merged(d))
         /\ \A from \in DOMAIN Merged(d) :
              \E i \in DOMAIN dsl : /\ from \in DOMAIN dsl[i].defs
                                    /\ Merged(d)[from] = dsl[i].defs[from]
<1> DEFINE L == {i \in DOMAIN dsl : d \in dsl[i].days}
           D(t) == {i \in L : t \in DOMAIN dsl[i].defs}
           U == UNION {DOMAIN dsl[i].defs : i \in L}
           f == [i \in L |-> DOMAIN dsl[i].defs]
<1>1. Merged(d) = [t \in U |-> dsl[Max(D(t))].defs[t]]
  BY DEF Merged
<1>2. L \subseteq 1..Len(dsl) /\ Len(dsl) \in Nat /\ IsFiniteSet(L)
  <2>1. L \in SUBSET (DOMAIN dsl)
    OBVIOUS
  <2> HIDE DEF L
  <2>2. IsFiniteSet(DOMAIN dsl) /\ DOMAIN dsl = 1..Len(dsl) /\ Len(dsl) \in Nat
    BY Layers
  <2>3. IsFiniteSet(L)
    BY <2>1, <2>2, FS_Subset
  <2> QED   BY <2>1, <2>2, <2>3
<1>3. U \subseteq Nat
  BY Layers
<1>4. IsFiniteSet(U)
  <2>1. U = UNION {f[i] : i \in L}
    OBVIOUS
  <2>2. \A i \in L : IsFiniteSet(f[i])
    BY Layers
  <2>3. f = [i \in L |-> f[i]]
    OBVIOUS
  <2> HIDE DEF f, L, U
  <2> QED   BY <1>2, <2>1, <2>2, <2>3, FiniteUnion
<1>5. ASSUME NEW from \in U
      PROVE  \E i \in DOMAIN dsl : /\ from \in DOMAIN dsl[i].defs
                                   /\ Merged(d)[from] = dsl[i].defs[from]
  <2>1. D(from) # {} /\ D(from) \subseteq 0..Len(dsl)
    BY <1>2
  <2>2. Max(D(from)) \in D(from)
    <3> HIDE DEF D
    <3> QED   BY <1>2, <2>1, MaxMin
  <2>3. Merged(d)[from] = dsl[Max(D(from))].defs[from]
    BY <1>1
  <2> QED   BY <2>2, <2>3
<1> QED   BY <1>1, <1>3, <1>4, <1>5

\* What a definition counts for in the number of slots of a day.
LEMMA CountedIs ==
  ASSUME NEW from \in Nat, NEW def, Valid(def)
  PROVE  /\ Counted(from, def) \in Nat
         /\ def.kind = "slots" => Counted(from, def) = Len(def.entries)
         /\ def.kind = "block" => Counted(from, def) > 0
<1> DEFINE len == IF def.end <= from THEN def.end + DayLen - from ELSE def.end - from
<1>1. def.end \in Nat /\ def.kind \in Kinds /\ Len(def.entries) \in Nat
  BY DEF Valid
<1>2. Grid \in Nat \ {0} /\ DayLen \in Nat
  BY TimeAssumption
<1>3. LengthInSlots(from, def.end) \in Nat \ {0}
  <2>1. len \in Int
    BY <1>1, <1>2
  <2>2. LengthInSlots(from, def.end) = IF len < Grid THEN 1 ELSE len \div Grid
    BY DEF LengthInSlots
  <2> HIDE DEF len
  <2>3. ~(len < Grid) => len \div Grid \in Nat \ {0}
    BY <1>2, <2>1
  <2> QED   BY <2>2, <2>3
<1>4. CASE def.kind = "slots"
  BY <1>1, <1>4 DEF Counted
<1>5. CASE def.kind \in {"block", "marathon"}
  BY <1>3, <1>5 DEF Counted
<1>6. CASE def.kind = "movie"
  BY <1>6 DEF Counted
<1> QED   BY <1>1, <1>4, <1>5, <1>6 DEF Kinds

\* A day has slots if a definition that any layer holds has some.
LEMMA SlotsPerDayIs ==
  ASSUME dsl \in Dsls
  PROVE  /\ SlotsPerDay \in Nat
         /\ \A i \in DOMAIN dsl : \A from \in DOMAIN dsl[i].defs :
              Counted(from, dsl[i].defs[from]) > 0 => SlotsPerDay > 0
<1> DEFINE E(i, from) == {<<i, from, n>> : n \in 1..Counted(from, dsl[i].defs[from])}
           F(i) == UNION {E(i, from) : from \in DOMAIN dsl[i].defs}
<1>1. ASSUME NEW i \in DOMAIN dsl, NEW from \in DOMAIN dsl[i].defs
      PROVE  /\ IsFiniteSet(E(i, from))
             /\ Counted(from, dsl[i].defs[from]) > 0 => E(i, from) # {}
  <2> DEFINE c == Counted(from, dsl[i].defs[from])
             f == [n \in 1..c |-> <<i, from, n>>]
  <2>1. c \in Nat
    BY Layers, CountedIs
  <2>2. E(i, from) = {f[n] : n \in 1..c}
    OBVIOUS
  <2>3. f \in Surjection(1..c, E(i, from))
    BY DEF Surjection
  <2>4. IsFiniteSet(1..c)
    BY <2>1, FS_Interval
  <2>5. IsFiniteSet(E(i, from))
    <3> HIDE DEF f, c, E
    <3> QED   BY <2>3, <2>4, FS_Surjection
  <2>6. c > 0 => <<i, from, 1>> \in E(i, from)
    <3>1. c > 0 => 1 \in 1..c
      BY <2>1
    <3> QED   BY <3>1
  <2> QED   BY <2>5, <2>6
<1>2. \A i \in DOMAIN dsl : IsFiniteSet(F(i))
  <2> TAKE i \in DOMAIN dsl
  <2> DEFINE S == DOMAIN dsl[i].defs
             f == [from \in S |-> E(i, from)]
  <2>1. F(i) = UNION {f[from] : from \in S}
    OBVIOUS
  <2>2. IsFiniteSet(S) /\ f = [x \in S |-> f[x]]
    BY Layers
  <2>3. \A from \in S : IsFiniteSet(f[from])
    BY <1>1
  <2> HIDE DEF f, S, F
  <2> QED   BY <2>1, <2>2, <2>3, FiniteUnion
<1>3. DslSlots = UNION {F(i) : i \in DOMAIN dsl}
  BY DEF DslSlots
<1>4. IsFiniteSet(DslSlots)
  <2> DEFINE S == DOMAIN dsl
             f == [i \in S |-> F(i)]
  <2>1. DslSlots = UNION {f[i] : i \in S}
    BY <1>3
  <2>2. IsFiniteSet(S) /\ f = [x \in S |-> f[x]]
    BY Layers
  <2>3. \A i \in S : IsFiniteSet(f[i])
    BY <1>2
  <2> HIDE DEF f, S
  <2> QED   BY <2>1, <2>2, <2>3, FiniteUnion
<1>5. SlotsPerDay \in Nat /\ (SlotsPerDay = 0 <=> DslSlots = {})
  BY <1>4, FS_CardinalityType, FS_EmptySet DEF SlotsPerDay
<1>6. ASSUME NEW i \in DOMAIN dsl, NEW from \in DOMAIN dsl[i].defs,
             Counted(from, dsl[i].defs[from]) > 0
      PROVE  DslSlots # {}
  <2>1. PICK x : x \in E(i, from)
    BY <1>1, <1>6
  <2>2. x \in F(i)
    BY <2>1
  <2> HIDE DEF F
  <2> QED   BY <1>3, <2>2
<1> QED   BY <1>5, <1>6

-----------------------------------------------------------------------------
(* Sorting a day neither loses nor doubles a block.                        *)

\* What is published of a block but its start is what was placed.
Moved(b, c) == /\ b.asset = c.asset /\ b.dur = c.dur /\ b.due = c.due
               /\ b.pool = c.pool /\ b.turn = c.turn
\* t holds the blocks of s, in another order and at other times.
SameBlocks(s, t) ==
  \E f \in [DOMAIN s -> DOMAIN t] :
    /\ \A i, j \in DOMAIN s : f[i] = f[j] => i = j
    /\ \A k \in DOMAIN t : \E i \in DOMAIN s : f[i] = k
    /\ \A i \in DOMAIN s : Moved(s[i], t[f[i]])

\* The sort loses no block and keeps each as it is.
LEMMA SortPermutes ==
  ASSUME NEW s, s \in Seq(Placed)
  PROVE  /\ SortedByStart(s) \in Seq(Placed) /\ Len(SortedByStart(s)) = Len(s)
         /\ \E f \in [DOMAIN s -> DOMAIN s] :
              /\ \A i, j \in DOMAIN s : f[i] = f[j] => i = j
              /\ \A k \in DOMAIN s : \E i \in DOMAIN s : f[i] = k
              /\ \A i \in DOMAIN s : SortedByStart(s)[i] = s[f[i]]
<1> DEFINE D == DOMAIN s
           R == {p \in D \X D : Sooner(s, p[1], p[2])}
           Lower(j) == {i \in D : <<i, j>> \in R}
           r(j) == Cardinality(Lower(j))
           f == [n \in D |-> CHOOSE j \in D : Rank(s, j) = n]
           N == Len(s)
<1>1. N \in Nat /\ D = 1..N /\ IsFiniteSet(D) /\ Cardinality(D) = N
  <2>1. N \in Nat /\ D = 1..N
    OBVIOUS
  <2> HIDE DEF N, D
  <2>2. IsFiniteSet(1..N) /\ Cardinality(1..N) = N
    BY <2>1, FS_Interval
  <2> QED   BY <2>1, <2>2
<1>2. \A i \in D : s[i].start \in Int
  <2>1. \A i \in D : s[i] \in Placed
    OBVIOUS
  <2> QED   BY <2>1 DEF Placed
<1>3. \A i, j \in D : <<i, j>> \in R <=> Sooner(s, i, j)
  OBVIOUS
<1>4. /\ \A x \in D : <<x, x>> \notin R
      /\ \A x, y \in D : x # y => <<x, y>> \in R \/ <<y, x>> \in R
      /\ \A x, y, z \in D : <<x, y>> \in R /\ <<y, z>> \in R => <<x, z>> \in R
  <2> HIDE DEF R
  <2>1. \A x \in D : <<x, x>> \notin R
    BY <1>1, <1>2, <1>3 DEF Sooner
  <2>2. \A x, y \in D : x # y => <<x, y>> \in R \/ <<y, x>> \in R
    BY <1>1, <1>2, <1>3 DEF Sooner
  <2>3. \A x, y, z \in D : <<x, y>> \in R /\ <<y, z>> \in R => <<x, z>> \in R
    BY <1>1, <1>2, <1>3, SMTT(30) DEF Sooner
  <2> QED   BY <2>1, <2>2, <2>3
<1>5. /\ \A x \in D : r(x) \in 0..(N - 1)
      /\ \A x, y \in D : <<x, y>> \in R <=> r(x) < r(y)
      /\ \A n \in 1..N : \E x \in D : r(x) = n - 1
  <2> HIDE DEF R
  <2> QED   BY <1>1, <1>4, Ranking
<1>6. \A j \in D : Rank(s, j) = r(j) + 1
  BY <1>3 DEF Rank
<1> HIDE DEF R, r
<1>7. \A n \in D : f[n] \in D /\ r(f[n]) = n - 1
  <2> TAKE n \in D
  <2>1. \E j \in D : Rank(s, j) = n
    BY <1>1, <1>5, <1>6
  <2>2. f[n] \in D /\ Rank(s, f[n]) = n
    BY <2>1
  <2> HIDE DEF f
  <2>3. r(f[n]) + 1 = n /\ r(f[n]) \in Int /\ n \in Int
    BY <1>1, <1>5, <1>6, <2>2
  <2> QED   BY <2>2, <2>3
<1>8. \A i \in D : SortedByStart(s)[i] = s[f[i]]
  BY DEF SortedByStart
<1>9. DOMAIN SortedByStart(s) = D /\ SortedByStart(s) = [n \in D |-> SortedByStart(s)[n]]
  BY DEF SortedByStart
<1>10. f \in [D -> D]
  <2>1. f = [n \in D |-> f[n]]
    OBVIOUS
  <2> HIDE DEF f
  <2> QED   BY <1>7, <2>1
<1> HIDE DEF f
<1>11. SortedByStart(s) \in Seq(Placed) /\ Len(SortedByStart(s)) = N
  <2>1. SortedByStart(s) \in [1..N -> Placed]
    BY <1>1, <1>7, <1>8, <1>9
  <2> QED   BY <1>1, <2>1
<1>12. \A i, j \in D : f[i] = f[j] => i = j
  BY <1>1, <1>7
<1>13. \A k \in D : \E i \in D : f[i] = k
  <2> TAKE k \in D
  <2> DEFINE i == r(k) + 1
  <2>1. i \in D
    BY <1>1, <1>5, SMTT(30)
  <2>2. f[i] \in D /\ r(f[i]) = r(k) /\ r(k) \in Int
    <3>1. f[i] \in D /\ r(f[i]) = i - 1
      BY <1>7, <2>1
    <3>2. r(k) \in Int
      BY <1>1, <1>5
    <3> QED   BY <3>1, <3>2
  <2>3. ~(r(f[i]) < r(k)) /\ ~(r(k) < r(f[i]))
    BY <2>2
  <2>4. ~Sooner(s, f[i], k) /\ ~Sooner(s, k, f[i])
    BY <1>3, <1>5, <2>2, <2>3
  <2>5. f[i] = k
    <3> HIDE DEF i
    <3> QED  BY <1>1, <1>2, <2>2, <2>4 DEF Sooner
  <2> QED   BY <2>1, <2>5
<1> QED   BY <1>8, <1>10, <1>11, <1>12, <1>13

\* The sort by start time neither loses nor doubles a block.
LEMMA SortedSame ==
  ASSUME NEW s, s \in Seq(Placed)
  PROVE  SameBlocks(SortedByStart(s), s)
<1>1. Len(s) \in Nat /\ DOMAIN s = 1..Len(s)
  OBVIOUS
<1>2. DOMAIN SortedByStart(s) = DOMAIN s
  BY SortPermutes
<1>3. PICK f \in [DOMAIN s -> DOMAIN s] :
        /\ \A i, j \in DOMAIN s : f[i] = f[j] => i = j
        /\ \A k \in DOMAIN s : \E i \in DOMAIN s : f[i] = k
        /\ \A i \in DOMAIN s : SortedByStart(s)[i] = s[f[i]]
  BY SortPermutes
<1>4. \A i \in DOMAIN s : Moved(SortedByStart(s)[i], s[f[i]])
  BY <1>3 DEF Moved
<1> QED   BY <1>2, <1>3, <1>4 DEF SameBlocks

\* The sorted list holds the same blocks.
LEMMA SortedRange ==
  ASSUME NEW s, s \in Seq(Placed)
  PROVE  Range(SortedByStart(s)) = Range(s)
<1>2. DOMAIN SortedByStart(s) = DOMAIN s
  BY SortPermutes
<1> QED   BY <1>2, SortPermutes DEF Range

-----------------------------------------------------------------------------
(* The compiler is at a definition of the day.                             *)

\* A day is being compiled.
Working == pc \in Kinds \union {"next"}

\* The state of the compiler, and the definition that it is at.
CompilerTyped ==
  /\ dsl \in Dsls /\ day \in Nat /\ pc \in Kinds \union {"idle", "next", "compact"}
  /\ counters \in [DOMAIN PoolOf -> Nat]
  /\ made \in Seq(Placed) /\ todo \in Seq(Placed) /\ done \in Seq(Placed)
  /\ timeline \in Seq(Placed)
  /\ DOMAIN rows \subseteq 0..(day - 1)
  /\ \A d \in DOMAIN rows : rows[d] \in Seq(Placed)

\* The definition that is placed is one of the DSL's.
JobIs(kind, j) ==
  /\ j = [from |-> j.from, def |-> j.def, at |-> j.at, end |-> j.end, turn |-> j.turn]
  /\ j.at \in Nat /\ j.end \in Nat /\ j.turn \in Nat /\ j.def.kind = kind
  /\ \E i \in DOMAIN dsl : j.from \in DOMAIN dsl[i].defs /\ j.def = dsl[i].defs[j.from]
JobTyped ==
  /\ Working => starts \in Seq(DOMAIN Merged(day))
  /\ pc \in Kinds => JobIs(pc, job)

\* What a step of the compilation does to the blocks.
Keeps == /\ Working /\ Working'
         /\ UNCHANGED <<dsl, day, counters, made, todo, done, rows, timeline>>
\* A block that select_episode picked in order is the next one of its pool.
Sequential(b) ==
  /\ b.pool \in DOMAIN PoolOf /\ PoolOf[b.pool] # <<>> /\ SlotsPerDay > 0
  /\ b.turn = counters[b.pool] /\ b.asset = InTurn(b.pool)
  /\ counters' = [counters EXCEPT ![b.pool] = @ + 1]
\* What a step of the compiler does to the day it compiles: it places a block, or none.
Adds ==
  /\ Working /\ Working'
  /\ UNCHANGED <<dsl, day, todo, done, rows, timeline>>
  /\ \E b \in Placed : /\ made' = Append(made, b) /\ b.start = b.due /\ b.dur > 0
                       /\ \/ b.turn = -1 /\ counters' = counters
                          \/ Sequential(b)
Fails == pc # "idle" /\ FailDay
\* All that the compiler does, by what it does to the blocks.
Steps == BeginDay \/ Keeps \/ Adds \/ Fails \/ SortBlocks \/ CompactNext \/ PublishDay

\* The definition that is being compiled is valid, and one of the layers holds it.
LEMMA JobDef ==
  ASSUME CompilerTyped, JobTyped, pc \in Kinds
  PROVE  /\ JobIs(pc, job) /\ Valid(job.def) /\ job.from \in Nat
         /\ Counted(job.from, job.def) > 0 => SlotsPerDay > 0
<1>1. JobIs(pc, job) /\ dsl \in Dsls
  BY DEF JobTyped, CompilerTyped
<1>2. PICK i \in DOMAIN dsl : job.from \in DOMAIN dsl[i].defs
             /\ job.def = dsl[i].defs[job.from]
  BY <1>1 DEF JobIs
<1> QED   BY <1>1, <1>2, Layers, SlotsPerDayIs

\* A block that a definition places.
LEMMA PlacedIs ==
  ASSUME CompilerTyped, JobTyped, pc \in Kinds, NEW asset \in Assets,
         NEW pool \in DOMAIN PoolOf \union Assets, NEW turn \in Int
  PROVE  LET b == ProgramBlock(asset, job.at, pool, turn) IN
         /\ b \in Placed /\ b.start = b.due /\ b.dur > 0
         /\ b.asset = asset /\ b.pool = pool /\ b.turn = turn
         /\ job.at + SlotDuration(asset) \in Nat
<1>1. job.at \in Nat
  BY JobDef DEF JobIs
<1>2. SlotDuration(asset) \in Nat /\ SlotDuration(asset) > 0
  BY Durations
<1> QED   BY <1>1, <1>2 DEF ProgramBlock, Placed

\* The state stays well formed when a day begins,
LEMMA BeginTyped ==
  ASSUME CompilerTyped, JobTyped, BeginDay
  PROVE  CompilerTyped' /\ JobTyped'
<1>1. /\ pc = "idle" /\ starts' = Ascending(DOMAIN Merged(day)) /\ pc' = "next"
      /\ counters' = [p \in DOMAIN PoolOf |-> day * SlotsPerDay]
      /\ made' = <<>> /\ todo' = <<>> /\ done' = <<>>
      /\ dsl' = dsl /\ day' = day /\ rows' = rows /\ timeline' = timeline
  BY DEF BeginDay
<1>2. day * SlotsPerDay \in Nat
  BY SlotsPerDayIs DEF CompilerTyped
<1>3. Ascending(DOMAIN Merged(day)) \in Seq(DOMAIN Merged(day))
  BY MergedIs, AscendingIs DEF CompilerTyped
<1>4. Merged(day)' = Merged(day)
  BY <1>1 DEF Merged
<1>5. CompilerTyped'
  BY <1>1, <1>2 DEF CompilerTyped
<1>6. JobTyped'
  BY <1>1, <1>3, <1>4 DEF JobTyped, Working, Kinds
<1> QED   BY <1>5, <1>6

\* when its compilation fails,
LEMMA FailTyped ==
  ASSUME CompilerTyped, FailDay
  PROVE  CompilerTyped' /\ JobTyped'
<1>1. DOMAIN rows \subseteq 0..((day + 1) - 1) /\ day + 1 \in Nat
  BY DEF CompilerTyped
<1> QED   BY <1>1 DEF FailDay, CompilerTyped, JobTyped, Working, Kinds

\* and when a definition of it is opened.
LEMMA OpenTyped ==
  ASSUME CompilerTyped, JobTyped, OpenDef
  PROVE  CompilerTyped' /\ JobTyped' /\ Keeps
<1> DEFINE from == Head(starts)
           def == Merged(day)[from]
<1>1. /\ pc = "next" /\ starts # <<>> /\ starts' = Tail(starts) /\ pc' = def.kind
      /\ job' = [from |-> from, def |-> def, at |-> At(day, from),
                 end |-> EndAt(day, from, def.end), turn |-> 0]
      /\ UNCHANGED <<dsl, day, counters, used, made, todo, done, rows, timeline>>
  BY DEF OpenDef
<1>2. starts \in Seq(DOMAIN Merged(day)) /\ dsl \in Dsls /\ day \in Nat
  BY <1>1 DEF JobTyped, Working, CompilerTyped
<1>3. from \in DOMAIN Merged(day) /\ starts' \in Seq(DOMAIN Merged(day))
  BY <1>1, <1>2
<1> HIDE DEF from
<1>4. PICK i \in DOMAIN dsl : from \in DOMAIN dsl[i].defs /\ def = dsl[i].defs[from]
  BY <1>2, <1>3, MergedIs
<1>5. from \in Nat /\ Valid(def)
  BY <1>2, <1>4, Layers
<1> HIDE DEF def
<1>6. def.kind \in Kinds /\ def.end \in Nat
  BY <1>5 DEF Valid
<1>7. At(day, from) \in Nat /\ At(day, def.end) \in Nat
  <2>1. DayLen \in Nat /\ DayStart \in Nat /\ day * DayLen \in Nat
    BY <1>2, TimeAssumption
  <2> QED   BY <1>5, <1>6, <2>1 DEF At
<1>8. EndAt(day, from, def.end) \in Nat
  BY <1>7, TimeAssumption DEF EndAt
<1>9. JobIs(pc, job)'
  <2>1. /\ job'.from = from /\ job'.def = def /\ job'.at \in Nat /\ job'.end \in Nat
        /\ job'.turn = 0
        /\ job' = [from |-> job'.from, def |-> job'.def, at |-> job'.at,
                   end |-> job'.end, turn |-> job'.turn]
    BY <1>1, <1>7, <1>8
  <2>2. /\ i \in DOMAIN dsl' /\ job'.from \in DOMAIN dsl'[i].defs
        /\ job'.def = dsl'[i].defs[job'.from]
    BY <1>1, <1>4, <2>1
  <2>3. job'.def.kind = pc'
    BY <1>1, <2>1
  <2> QED   BY <2>1, <2>2, <2>3 DEF JobIs
<1>10. Merged(day)' = Merged(day)
  BY <1>1 DEF Merged
<1>11. JobTyped'
  BY <1>1, <1>3, <1>9, <1>10 DEF JobTyped
<1>12. CompilerTyped'
  BY <1>1, <1>6 DEF CompilerTyped
<1>13. Keeps
  BY <1>1, <1>6 DEF Keeps, Working
<1> QED   BY <1>11, <1>12, <1>13

\* A definition that goes on, or is done.
LEMMA WorkTyped ==
  ASSUME CompilerTyped, JobTyped, pc \in Kinds,
         UNCHANGED <<dsl, day, starts, todo, done, rows, timeline>>,
         \/ CloseDef
         \/ pc' = pc /\ job' = [job EXCEPT !.at = job'.at, !.turn = job'.turn]
            /\ job'.at \in Nat /\ job'.turn \in Nat,
         counters' \in [DOMAIN PoolOf -> Nat], made' \in Seq(Placed)
  PROVE  CompilerTyped' /\ JobTyped' /\ Working /\ Working'
<1>1. pc' \in Kinds \union {"next"}
  BY DEF CloseDef
<1>2. CompilerTyped'
  BY <1>1 DEF CompilerTyped
<1>3. Merged(day)' = Merged(day)
  BY DEF Merged
<1>4. starts' \in Seq(DOMAIN Merged(day))'
  BY <1>3 DEF JobTyped, Working
<1>5. pc' \in Kinds => JobIs(pc, job)'
  <2>1. CASE CloseDef
    BY <2>1 DEF CloseDef, Kinds
  <2>2. CASE pc' = pc /\ job' = [job EXCEPT !.at = job'.at, !.turn = job'.turn]
             /\ job'.at \in Nat /\ job'.turn \in Nat
    <3>1. JobIs(pc, job)
      BY JobDef
    <3>2. /\ job'.from = job.from /\ job'.def = job.def /\ job'.end = job.end
          /\ job' = [from |-> job'.from, def |-> job'.def, at |-> job'.at,
                     end |-> job'.end, turn |-> job'.turn]
      BY <2>2, <3>1 DEF JobIs
    <3> QED   BY <2>2, <3>1, <3>2 DEF JobIs
  <2> QED   BY <2>1, <2>2
<1> QED   BY <1>1, <1>2, <1>4, <1>5 DEF JobTyped, Working

-----------------------------------------------------------------------------
(* Every definition places what it is for.                                 *)

\* A pool that select_episode picks from.
LEMMA Selects ==
  ASSUME CompilerTyped, NEW pool \in DOMAIN PoolOf, NEW mode, NEW asset,
         SelectEpisode(pool, mode, asset)
  PROVE  /\ asset \in Assets /\ PoolOf[pool] # <<>>
         /\ counters' \in [DOMAIN PoolOf -> Nat]
         /\ IF mode = "sequential"
            THEN asset = InTurn(pool) /\ counters' = [counters EXCEPT ![pool] = @ + 1]
            ELSE counters' = counters
<1>1. PoolOf[pool] \in Seq(Assets)
  BY PoolAssumption DEF Assets
<1>2. asset \in Range(PoolOf[pool])
  BY DEF SelectEpisode
<1>3. asset \in Assets /\ PoolOf[pool] # <<>>
  BY <1>1, <1>2 DEF Range
<1>4. counters \in [DOMAIN PoolOf -> Nat]
  BY DEF CompilerTyped
<1>5. IF mode = "sequential"
      THEN asset = InTurn(pool) /\ counters' = [counters EXCEPT ![pool] = @ + 1]
      ELSE counters' = counters
  BY DEF SelectEpisode
<1> QED   BY <1>3, <1>4, <1>5

\* The turn a block is placed with.
LEMMA TurnIs ==
  ASSUME CompilerTyped, NEW pool, NEW mode, mode = "sequential" => pool \in DOMAIN PoolOf
  PROVE  /\ Turn(pool, mode) \in Int
         /\ mode = "sequential" => Turn(pool, mode) = counters[pool]
         /\ mode # "sequential" => Turn(pool, mode) = -1
BY DEF Turn, CompilerTyped

\* _compile_program_block places one block at its slot.
LEMMA SlotStep ==
  ASSUME CompilerTyped, JobTyped, PlaceSlot
  PROVE  CompilerTyped' /\ JobTyped' /\ Adds
<1> DEFINE entry == job.def.entries[job.turn + 1]
<1>1. /\ pc = "slots" /\ job.turn < Len(job.def.entries)
      /\ UNCHANGED <<dsl, day, pc, starts, used, todo, done, rows, timeline>>
  BY DEF PlaceSlot
<1>2. PICK asset \in DOMAIN Duration :
       /\ SelectEntry(entry, asset)
       /\ made' = Append(made, ProgramBlock(asset, job.at, entry.pool,
                                            Turn(entry.pool, entry.mode)))
       /\ job' = [job EXCEPT !.at = @ + SlotDuration(asset),
                             !.turn = @ + SlotsOf(asset)]
  BY DEF PlaceSlot
<1>3. pc \in Kinds /\ asset \in Assets
  BY <1>1 DEF Kinds, Assets
<1>4. JobIs(pc, job) /\ Valid(job.def) /\ job.from \in Nat
      /\ (Counted(job.from, job.def) > 0 => SlotsPerDay > 0)
  BY <1>3, JobDef
<1>5. job.def.entries \in Seq([pool : DOMAIN PoolOf \union DOMAIN Duration, mode : STRING])
      /\ \A n \in DOMAIN job.def.entries :
           job.def.entries[n].mode # "fixed" => job.def.entries[n].pool \in DOMAIN PoolOf
  BY <1>4 DEF Valid
<1>6. job.turn \in Nat /\ job.turn + 1 \in DOMAIN job.def.entries
  BY <1>1, <1>4, <1>5 DEF JobIs
<1>7. /\ entry.pool \in DOMAIN PoolOf \union Assets
      /\ entry.mode # "fixed" => entry.pool \in DOMAIN PoolOf
  <2>1. entry \in [pool : DOMAIN PoolOf \union Assets, mode : STRING]
    <3> DEFINE E == [pool : DOMAIN PoolOf \union Assets, mode : STRING]
               es == job.def.entries
               k == job.turn + 1
    <3>1. es \in Seq(E) /\ k \in DOMAIN es /\ entry = es[k]
      BY <1>5, <1>6 DEF Assets
    <3> HIDE DEF E, es, k, entry
    <3>2. entry \in E
      BY <3>1
    <3> QED   BY <3>2 DEF E
  <2>2. entry.mode # "fixed" => entry.pool \in DOMAIN PoolOf
    BY <1>5, <1>6
  <2> HIDE DEF entry
  <2> QED   BY <2>1, <2>2
<1>8. SlotsPerDay > 0
  <2>1. Len(job.def.entries) > 0
    BY <1>1, <1>5, <1>6
  <2>2. job.def.kind = "slots"
    BY <1>1, <1>4 DEF JobIs
  <2>3. Counted(job.from, job.def) > 0
    BY <1>4, <2>1, <2>2, CountedIs
  <2> QED   BY <1>4, <2>3
<1> HIDE DEF entry
<1>9. IF entry.mode = "fixed" THEN asset = entry.pool /\ counters' = counters
                              ELSE SelectEpisode(entry.pool, entry.mode, asset)
  BY <1>2 DEF SelectEntry
<1>10. entry.mode = "sequential" => entry.mode # "fixed"
  OBVIOUS
<1> DEFINE b == ProgramBlock(asset, job.at, entry.pool, Turn(entry.pool, entry.mode))
<1>11. /\ Turn(entry.pool, entry.mode) \in Int
       /\ entry.mode = "sequential" => Turn(entry.pool, entry.mode) = counters[entry.pool]
       /\ entry.mode # "sequential" => Turn(entry.pool, entry.mode) = -1
  BY <1>7, <1>10, TurnIs
<1>12. /\ b \in Placed /\ b.start = b.due /\ b.dur > 0
       /\ b.asset = asset /\ b.pool = entry.pool
       /\ b.turn = Turn(entry.pool, entry.mode) /\ job.at + SlotDuration(asset) \in Nat
  BY <1>3, <1>7, <1>11, PlacedIs
<1>13. made' = Append(made, b)
  BY <1>2
<1> HIDE DEF b
<1>14. /\ counters' \in [DOMAIN PoolOf -> Nat]
       /\ (b.turn = -1 /\ counters' = counters) \/ Sequential(b)
  <2>1. CASE entry.mode = "fixed"
    BY <1>9, <1>10, <1>11, <1>12, <2>1 DEF CompilerTyped
  <2>2. CASE entry.mode # "fixed"
    <3>1. SelectEpisode(entry.pool, entry.mode, asset) /\ entry.pool \in DOMAIN PoolOf
      BY <1>7, <1>9, <2>2
    <3>2. /\ PoolOf[entry.pool] # <<>> /\ counters' \in [DOMAIN PoolOf -> Nat]
          /\ IF entry.mode = "sequential"
             THEN asset = InTurn(entry.pool)
                  /\ counters' = [counters EXCEPT ![entry.pool] = @ + 1]
             ELSE counters' = counters
      BY <3>1, Selects
    <3>3. CASE entry.mode = "sequential"
      BY <1>8, <1>11, <1>12, <3>1, <3>2, <3>3 DEF Sequential
    <3>4. CASE entry.mode # "sequential"
      BY <1>11, <1>12, <3>2, <3>4
    <3> QED   BY <3>3, <3>4
  <2> QED   BY <2>1, <2>2
<1>15. made' \in Seq(Placed)
  BY <1>12, <1>13 DEF CompilerTyped
<1>16. /\ job' = [job EXCEPT !.at = job'.at, !.turn = job'.turn]
       /\ job'.at \in Nat /\ job'.turn \in Nat
  <2>1. SlotsOf(asset) \in Nat
    BY <1>3, Durations
  <2>2. job = [from |-> job.from, def |-> job.def, at |-> job.at, end |-> job.end,
               turn |-> job.turn]
    BY <1>4 DEF JobIs
  <2>3. job'.at = job.at + SlotDuration(asset) /\ job'.turn = job.turn + SlotsOf(asset)
    BY <1>2, <2>2
  <2> QED   BY <1>2, <1>6, <1>12, <2>1, <2>2, <2>3
<1>17. CompilerTyped' /\ JobTyped' /\ Working /\ Working'
  BY <1>1, <1>3, <1>14, <1>15, <1>16, WorkTyped
<1>18. Adds
  BY <1>1, <1>12, <1>13, <1>14, <1>17 DEF Adds
<1> QED   BY <1>17, <1>18

\* _compile_episode_block places one block after the last.
LEMMA EpisodeStep ==
  ASSUME CompilerTyped, JobTyped, PlaceEpisode
  PROVE  CompilerTyped' /\ JobTyped' /\ Adds
<1> DEFINE pools == job.def.pools
           rotates == Len(pools) > 1 /\ job.def.mode \in {"sequential", "shuffle"}
           mode == IF job.def.mode \in {"sequential", "shuffle"} THEN "sequential"
                                                                 ELSE job.def.mode
<1>1. /\ pc = "block" /\ job.at < job.end
      /\ UNCHANGED <<dsl, day, pc, starts, used, todo, done, rows, timeline>>
  BY DEF PlaceEpisode
<1>2. PICK asset \in DOMAIN Duration, n \in DOMAIN pools :
       /\ SelectEpisode(pools[n], mode, asset)
       /\ made' = Append(made, ProgramBlock(asset, job.at, pools[n], Turn(pools[n], mode)))
       /\ job' = [job EXCEPT !.at = @ + SlotDuration(asset),
                             !.turn = IF rotates THEN @ + 1 ELSE @]
  BY DEF PlaceEpisode
<1>3. pc \in Kinds /\ asset \in Assets
  BY <1>1 DEF Kinds, Assets
<1>4. JobIs(pc, job) /\ Valid(job.def) /\ job.from \in Nat
      /\ (Counted(job.from, job.def) > 0 => SlotsPerDay > 0)
  BY <1>3, JobDef
<1>5. pools[n] \in DOMAIN PoolOf
  BY <1>4 DEF Valid
<1>8. SlotsPerDay > 0
  <2>2. job.def.kind = "block"
    BY <1>1, <1>4 DEF JobIs
  <2>3. Counted(job.from, job.def) > 0
    BY <1>4, <2>2, CountedIs
  <2> QED   BY <1>4, <2>3
<1> DEFINE pool == pools[n]
<1>9. pool \in DOMAIN PoolOf /\ SelectEpisode(pool, mode, asset)
  BY <1>2, <1>5
<1> DEFINE b == ProgramBlock(asset, job.at, pool, Turn(pool, mode))
<1>13. made' = Append(made, b)
  BY <1>2
<1> HIDE DEF pool, mode
<1>11. /\ Turn(pool, mode) \in Int
       /\ mode = "sequential" => Turn(pool, mode) = counters[pool]
       /\ mode # "sequential" => Turn(pool, mode) = -1
  BY <1>9, TurnIs
<1>12. /\ b \in Placed /\ b.start = b.due /\ b.dur > 0
       /\ b.asset = asset /\ b.pool = pool
       /\ b.turn = Turn(pool, mode) /\ job.at + SlotDuration(asset) \in Nat
  BY <1>3, <1>9, <1>11, PlacedIs
<1> HIDE DEF b
<1>14. /\ counters' \in [DOMAIN PoolOf -> Nat]
       /\ (b.turn = -1 /\ counters' = counters) \/ Sequential(b)
  <2>1. /\ PoolOf[pool] # <<>> /\ counters' \in [DOMAIN PoolOf -> Nat]
        /\ IF mode = "sequential"
           THEN asset = InTurn(pool) /\ counters' = [counters EXCEPT ![pool] = @ + 1]
           ELSE counters' = counters
    BY <1>9, Selects
  <2>2. CASE mode = "sequential"
    BY <1>8, <1>9, <1>11, <1>12, <2>1, <2>2 DEF Sequential
  <2>3. CASE mode # "sequential"
    BY <1>11, <1>12, <2>1, <2>3
  <2> QED   BY <2>2, <2>3
<1>15. made' \in Seq(Placed)
  BY <1>12, <1>13 DEF CompilerTyped
<1>16. /\ job' = [job EXCEPT !.at = job'.at, !.turn = job'.turn]
       /\ job'.at \in Nat /\ job'.turn \in Nat
  <2>2. job = [from |-> job.from, def |-> job.def, at |-> job.at, end |-> job.end,
               turn |-> job.turn] /\ job.turn \in Nat
    BY <1>4 DEF JobIs
  <2>3. job'.at = job.at + SlotDuration(asset) /\ job'.turn \in {job.turn, job.turn + 1}
    BY <1>2, <2>2
  <2> QED   BY <1>2, <1>12, <2>2, <2>3
<1>17. CompilerTyped' /\ JobTyped' /\ Working /\ Working'
  BY <1>1, <1>3, <1>14, <1>15, <1>16, WorkTyped
<1>18. Adds
  BY <1>1, <1>12, <1>13, <1>14, <1>17 DEF Adds
<1> QED   BY <1>17, <1>18

\* The candidates of a movie block are assets.
LEMMA EligibleIs ==
  ASSUME CompilerTyped, JobTyped, pc \in {"movie", "marathon"}, NEW m \in Eligible
  PROVE  m \in Assets /\ Head(job.def.pools) \in DOMAIN PoolOf
<1>1. JobIs(pc, job) /\ Valid(job.def)
  BY JobDef DEF Kinds
<1>2. job.def.pools \in Seq(DOMAIN PoolOf) /\ job.def.pools # <<>>
  BY <1>1 DEF Valid, JobIs
<1>3. PICK p \in Range(job.def.pools) : m \in Range(PoolOf[p])
  BY DEF Eligible, Movies
<1>4. p \in DOMAIN PoolOf
  BY <1>2, <1>3 DEF Range
<1>5. PoolOf[p] \in Seq(Assets)
  BY <1>4, PoolAssumption DEF Assets
<1>6. m \in Assets
  BY <1>3, <1>5 DEF Range
<1> QED   BY <1>2, <1>6

\* _compile_movie_block places one block after the last.
LEMMA MovieStep ==
  ASSUME CompilerTyped, JobTyped, PlaceMovie
  PROVE  CompilerTyped' /\ JobTyped' /\ Adds
<1>1. /\ pc = "movie" /\ CloseDef
      /\ UNCHANGED <<dsl, day, starts, counters, used, todo, done, rows, timeline>>
  BY DEF PlaceMovie
<1>2. PICK m \in Eligible :
        made' = Append(made, ProgramBlock(m, job.at, Head(job.def.pools), -1))
  BY DEF PlaceMovie
<1>3. m \in Assets /\ Head(job.def.pools) \in DOMAIN PoolOf
  BY <1>1, EligibleIs
<1> DEFINE pool == Head(job.def.pools)
           b == ProgramBlock(m, job.at, pool, -1)
<1>4. pc \in Kinds /\ pool \in DOMAIN PoolOf \union Assets
  BY <1>1, <1>3 DEF Kinds
<1>6. made' = Append(made, b)
  BY <1>2
<1> HIDE DEF pool
<1>5. b \in Placed /\ b.start = b.due /\ b.dur > 0 /\ b.turn = -1
  BY <1>3, <1>4, PlacedIs
<1> HIDE DEF b
<1>7. made' \in Seq(Placed) /\ counters' \in [DOMAIN PoolOf -> Nat]
  BY <1>1, <1>5, <1>6 DEF CompilerTyped
<1>8. CompilerTyped' /\ JobTyped' /\ Working /\ Working'
  BY <1>1, <1>4, <1>7, WorkTyped
<1> QED   BY <1>1, <1>5, <1>6, <1>8 DEF Adds

\* _compile_movie_marathon places a movie, or it has reached its end.
LEMMA MarathonStep ==
  ASSUME CompilerTyped, JobTyped, PlaceMarathon
  PROVE  CompilerTyped' /\ JobTyped' /\ (Adds \/ Keeps)
<1>1. /\ pc = "marathon"
      /\ UNCHANGED <<dsl, day, starts, counters, todo, done, rows, timeline>>
  BY DEF PlaceMarathon
<1>2. PICK m \in Eligible :
        IF Overruns(job.at + SlotDuration(m))
        THEN CloseDef /\ UNCHANGED made
        ELSE Place(m, Head(job.def.pools), -1) /\ UNCHANGED pc
  BY DEF PlaceMarathon
<1>3. m \in Assets /\ Head(job.def.pools) \in DOMAIN PoolOf
  BY <1>1, EligibleIs
<1>4. pc \in Kinds /\ counters' \in [DOMAIN PoolOf -> Nat] /\ made \in Seq(Placed)
  BY <1>1 DEF Kinds, CompilerTyped
<1>5. CASE CloseDef /\ UNCHANGED made
  <2>1. CompilerTyped' /\ JobTyped' /\ Working /\ Working'
    BY <1>1, <1>4, <1>5, WorkTyped
  <2> QED   BY <1>1, <1>5, <2>1 DEF Keeps
<1>6. CASE Place(m, Head(job.def.pools), -1) /\ UNCHANGED pc
  <2> DEFINE pool == Head(job.def.pools)
             b == ProgramBlock(m, job.at, pool, -1)
  <2>1. made' = Append(made, b) /\ job' = [job EXCEPT !.at = @ + SlotDuration(m)]
    BY <1>6 DEF Place
  <2>2. pool \in DOMAIN PoolOf \union Assets
    BY <1>3
  <2> HIDE DEF pool
  <2>3. /\ b \in Placed /\ b.start = b.due /\ b.dur > 0 /\ b.turn = -1
        /\ job.at + SlotDuration(m) \in Nat
    BY <1>3, <1>4, <2>2, PlacedIs
  <2> HIDE DEF b
  <2>4. made' \in Seq(Placed)
    BY <1>4, <2>1, <2>3
  <2>5. /\ job' = [job EXCEPT !.at = job'.at, !.turn = job'.turn]
        /\ job'.at \in Nat /\ job'.turn \in Nat
    <3>1. job = [from |-> job.from, def |-> job.def, at |-> job.at, end |-> job.end,
                 turn |-> job.turn] /\ job.turn \in Nat
      BY <1>4, JobDef DEF JobIs
    <3>2. job'.at = job.at + SlotDuration(m) /\ job'.turn = job.turn
      BY <2>1, <3>1
    <3> QED   BY <2>1, <2>3, <3>1, <3>2
  <2>6. CompilerTyped' /\ JobTyped' /\ Working /\ Working'
    BY <1>1, <1>4, <1>6, <2>4, <2>5, WorkTyped
  <2>7. Adds
    BY <1>1, <2>1, <2>3, <2>6 DEF Adds
  <2> QED   BY <2>6, <2>7
<1> QED   BY <1>2, <1>5, <1>6

\* The steps that place nothing.
LEMMA CloseStep ==
  ASSUME CompilerTyped, JobTyped,
         SlotsEnd \/ EpisodesEnd \/ ResetMarathon \/ MarathonEnds
  PROVE  CompilerTyped' /\ JobTyped' /\ Keeps
<1>1. /\ pc \in Kinds
      /\ UNCHANGED <<dsl, day, starts, counters, made, todo, done, rows, timeline>>
      /\ CloseDef \/ UNCHANGED <<pc, job>>
  BY DEF SlotsEnd, EpisodesEnd, ResetMarathon, MarathonEnds, Kinds
<1>2. made' \in Seq(Placed) /\ counters' \in [DOMAIN PoolOf -> Nat]
  BY <1>1 DEF CompilerTyped
<1>3. CompilerTyped' /\ JobTyped' /\ Working /\ Working'
  <2>1. CASE CloseDef
    BY <1>1, <1>2, <2>1, WorkTyped
  <2>2. CASE UNCHANGED <<pc, job>>
    <3>1. job = [from |-> job.from, def |-> job.def, at |-> job.at, end |-> job.end,
                 turn |-> job.turn] /\ job.turn \in Nat /\ job.at \in Nat
      BY <1>1, JobDef DEF JobIs
    <3>2. job' = [job EXCEPT !.at = job'.at, !.turn = job'.turn]
      BY <2>2, <3>1
    <3> QED   BY <1>1, <1>2, <2>2, <3>1, <3>2, WorkTyped
  <2> QED   BY <1>1, <2>1, <2>2
<1> QED   BY <1>1, <1>3 DEF Keeps

\* The blocks of a day are sorted, compacted and published as they are.
LEMMA EndTyped ==
  ASSUME CompilerTyped, JobTyped, SortBlocks \/ CompactNext \/ PublishDay
  PROVE  CompilerTyped' /\ JobTyped'
<1>1. CASE SortBlocks
  <2>1. SortedByStart(made) \in Seq(Placed)
    BY SortPermutes DEF CompilerTyped
  <2> QED   BY <1>1, <2>1 DEF SortBlocks, CompilerTyped, JobTyped, Working, Kinds
<1>2. CASE CompactNext
  <2>1. Head(todo) \in Placed /\ Tail(todo) \in Seq(Placed) /\ done \in Seq(Placed)
    BY <1>2 DEF CompactNext, CompilerTyped
  <2>2. Pushed(Head(todo)) \in Placed
    <3>1. CASE done # <<>> /\ End(Last(done)) > Head(todo).start
      <4>1. Last(done) \in Placed
        BY <2>1, <3>1 DEF Last
      <4>2. End(Last(done)) \in Nat
        BY <4>1 DEF End, Placed
      <4> QED   BY <2>1, <3>1, <4>2 DEF Pushed, Placed
    <3>2. CASE ~(done # <<>> /\ End(Last(done)) > Head(todo).start)
      BY <2>1, <3>2 DEF Pushed
    <3> QED   BY <3>1, <3>2
  <2>3. done' \in Seq(Placed) /\ todo' \in Seq(Placed)
    BY <1>2, <2>1, <2>2 DEF CompactNext
  <2>4. UNCHANGED <<dsl, day, pc, starts, job, counters, used, made, rows, timeline>>
        /\ pc = "compact"
    BY <1>2 DEF CompactNext
  <2>5. CompilerTyped'
    BY <2>3, <2>4 DEF CompilerTyped
  <2> QED   BY <2>4, <2>5 DEF JobTyped, Working, Kinds
<1>3. CASE PublishDay
  <2>1. /\ rows' = [d \in DOMAIN rows \union {day} |-> IF d = day THEN done ELSE rows[d]]
        /\ timeline' = SortedByStart(timeline \o done)
        /\ pc' = "idle" /\ day' = day + 1
        /\ UNCHANGED <<dsl, starts, job, counters, used, made, todo, done>>
    BY <1>3 DEF PublishDay
  <2>2. timeline' \in Seq(Placed)
    <3>1. timeline \o done \in Seq(Placed)
      BY DEF CompilerTyped
    <3> QED   BY <2>1, <3>1, SortPermutes
  <2>3. DOMAIN rows' \subseteq 0..(day' - 1) /\ day' \in Nat
    BY <2>1 DEF CompilerTyped
  <2>4. \A d \in DOMAIN rows' : rows'[d] \in Seq(Placed)
    BY <2>1 DEF CompilerTyped
  <2>5. CompilerTyped'
    BY <2>1, <2>2, <2>3, <2>4 DEF CompilerTyped
  <2> QED   BY <2>1, <2>5 DEF JobTyped, Working, Kinds
<1> QED   BY <1>1, <1>2, <1>3

\* Every step of a compilation, by what it does to the blocks.
LEMMA StepIs ==
  ASSUME CompilerTyped, JobTyped, Compile
  PROVE  CompilerTyped' /\ JobTyped' /\ Steps
<1>1. CASE BeginDay
  BY <1>1, BeginTyped DEF Steps
<1>2. CASE OpenDef
  BY <1>2, OpenTyped DEF Steps
<1>3. CASE SortBlocks \/ CompactNext \/ PublishDay
  BY <1>3, EndTyped DEF Steps
<1>4. CASE OffGrid \/ NoEpisode \/ NoMovie
  <2>1. FailDay /\ pc # "idle"
    BY <1>4 DEF OffGrid, NoEpisode, NoMovie
  <2> QED   BY <2>1, FailTyped DEF Steps, Fails
<1>5. CASE PlaceSlot
  BY <1>5, SlotStep DEF Steps
<1>6. CASE PlaceEpisode
  BY <1>6, EpisodeStep DEF Steps
<1>7. CASE PlaceMovie
  BY <1>7, MovieStep DEF Steps
<1>8. CASE PlaceMarathon
  BY <1>8, MarathonStep DEF Steps
<1>9. CASE SlotsEnd \/ EpisodesEnd \/ ResetMarathon \/ MarathonEnds
  BY <1>9, CloseStep DEF Steps
<1> QED   BY <1>1, <1>2, <1>3, <1>4, <1>5, <1>6, <1>7, <1>8, <1>9 DEF Compile

-----------------------------------------------------------------------------
(* The days are in order and on the grid.                                  *)

\* A row as DayWellFormed asks for it.
InTime(b) == OnGrid(b) /\ b.start = b.due
\* The blocks follow each other, and one that is late follows right after the one that
\* delays it.
Ordered(row) == \A i, j \in DOMAIN row : i < j => End(row[i]) <= row[j].start
Late(row) ==
  \A i \in DOMAIN row :
    /\ OnGrid(row[i])
    /\ row[i].start # row[i].due =>
         row[i].start > row[i].due /\ i > 1 /\ End(row[i - 1]) = row[i].start
\* The days and the day in the making: what is placed is where it is due, and what is
\* sorted, compacted and published is in order.
DayInv ==
  /\ \A d \in DOMAIN rows : Ordered(rows[d]) /\ Late(rows[d])
  /\ Working => done = <<>> /\ \A i \in DOMAIN made : made[i].start = made[i].due
  /\ pc = "compact" => /\ Ordered(done) /\ Late(done) /\ SameBlocks(done \o todo, made)
                       /\ \A i \in DOMAIN todo : InTime(todo[i])
  /\ pc = "idle" /\ day - 1 \in DOMAIN rows => SameBlocks(rows[day - 1], made)

\* As many blocks of every kind.
LEMMA SameCount ==
  ASSUME NEW s \in Seq(Placed), NEW t \in Seq(Placed), SameBlocks(s, t), NEW b
  PROVE  Cardinality({i \in DOMAIN s : Same(s[i]) = Same(b)})
           = Cardinality({i \in DOMAIN t : Same(t[i]) = Same(b)})
<1>1. Len(s) \in Nat /\ DOMAIN s = 1..Len(s)
  OBVIOUS
<1>2. PICK f \in [DOMAIN s -> DOMAIN t] :
        /\ \A i, j \in DOMAIN s : f[i] = f[j] => i = j
        /\ \A k \in DOMAIN t : \E i \in DOMAIN s : f[i] = k
        /\ \A i \in DOMAIN s : Moved(s[i], t[f[i]])
  BY DEF SameBlocks
<1> DEFINE D == DOMAIN s
           E == DOMAIN t
           S == {i \in D : Same(s[i]) = Same(b)}
           T == {i \in E : Same(t[i]) = Same(b)}
           g == [i \in S |-> f[i]]
<1>3. IsFiniteSet(D)
  BY <1>1, FS_Interval
<1>4. IsFiniteSet(S)
  <2> HIDE DEF D
  <2> QED   BY <1>3, FS_Subset
<1>5. \A i \in D : Same(s[i]) = Same(t[f[i]])
  BY <1>2 DEF Moved, Same
<1>6. \A i \in S : f[i] \in T
  BY <1>2, <1>5
<1>7. \A k \in T : \E i \in S : f[i] = k
  BY <1>2, <1>5
<1>8. \A i, j \in S : f[i] = f[j] => i = j
  BY <1>2
<1> HIDE DEF S, T
<1>9. g \in Bijection(S, T)
  BY <1>6, <1>7, <1>8 DEF Bijection, Injection, Surjection, IsInjective
<1>10. Cardinality(T) = Cardinality(S)
  <2> HIDE DEF g
  <2> QED   BY <1>4, <1>9, FS_Bijection DEF ExistsBijection
<1> QED   BY <1>10 DEF S, T

\* Moving blocks in time leaves them the same blocks.
LEMMA SameMoved ==
  ASSUME NEW s, NEW r, NEW t, SameBlocks(s, t), DOMAIN r = DOMAIN s,
         \A i \in DOMAIN s : Moved(r[i], s[i])
  PROVE  SameBlocks(r, t)
<1>1. PICK f \in [DOMAIN s -> DOMAIN t] :
        /\ \A i, j \in DOMAIN s : f[i] = f[j] => i = j
        /\ \A k \in DOMAIN t : \E i \in DOMAIN s : f[i] = k
        /\ \A i \in DOMAIN s : Moved(s[i], t[f[i]])
  BY DEF SameBlocks
<1>2. \A i \in DOMAIN s : Moved(r[i], t[f[i]])
  BY <1>1 DEF Moved
<1> QED   BY <1>1, <1>2 DEF SameBlocks

\* What the compaction does with the next block.
LEMMA PushedIs ==
  ASSUME done \in Seq(Placed), Ordered(done), Late(done), NEW b \in Placed, InTime(b)
  PROVE  /\ Ordered(Append(done, Pushed(b))) /\ Late(Append(done, Pushed(b)))
         /\ Moved(Pushed(b), b) /\ Pushed(b) \in Placed
<1> DEFINE n == Len(done)
           c == Pushed(b)
           r == Append(done, c)
<1>1. n \in Nat /\ DOMAIN done = 1..n /\ (done # <<>> <=> n > 0)
      /\ (n > 0 => done[n] \in Placed /\ Last(done) = done[n])
  BY DEF Last
<1>2. \A i \in 1..n : done[i] \in Placed
  OBVIOUS
<1>3. /\ b.start \in Nat /\ b.dur \in Nat /\ b.due = b.start
      /\ b.start % Grid = 0 /\ b.dur % Grid = 0
  BY DEF InTime, OnGrid, Placed
<1>4. n > 0 => /\ done[n].start \in Nat /\ done[n].dur \in Nat
               /\ End(done[n]) = done[n].start + done[n].dur
               /\ End(done[n]) \in Nat /\ End(done[n]) % Grid = 0
  <2>1. n > 0 => /\ done[n].start \in Nat /\ done[n].dur \in Nat
                 /\ done[n].start % Grid = 0 /\ done[n].dur % Grid = 0
    BY <1>1 DEF Late, OnGrid, Placed
  <2>2. n > 0 => (done[n].start + done[n].dur) % Grid = 0
    BY <2>1, GridSum
  <2>3. End(done[n]) = done[n].start + done[n].dur
    BY DEF End
  <2> QED   BY <2>1, <2>2, <2>3
<1>5. /\ c \in Placed /\ Moved(c, b) /\ c.start % Grid = 0 /\ c.dur % Grid = 0
      /\ n > 0 => End(done[n]) <= c.start
      /\ c.start # c.due => c.start > c.due /\ n > 0 /\ End(done[n]) = c.start
  <2>1. CASE n > 0 /\ End(done[n]) > b.start
    <3>1. c = [b EXCEPT !.start = End(done[n])]
      BY <1>1, <2>1 DEF Pushed
    <3>2. /\ c \in Placed /\ Moved(c, b) /\ c.start = End(done[n]) /\ c.dur = b.dur
          /\ c.due = b.due
      BY <1>4, <2>1, <3>1 DEF Placed, Moved
    <3> HIDE DEF c
    <3> QED   BY <1>3, <1>4, <2>1, <3>2
  <2>2. CASE ~(n > 0 /\ End(done[n]) > b.start)
    <3>1. c = b
      BY <1>1, <2>2 DEF Pushed
    <3> HIDE DEF c
    <3> QED   BY <1>3, <1>4, <2>2, <3>1 DEF Moved
  <2> QED   BY <2>1, <2>2
<1> HIDE DEF c
<1>6. /\ DOMAIN r = 1..(n + 1) /\ r[n + 1] = c
      /\ \A i \in 1..n : r[i] = done[i]
  BY <1>1, <1>5
<1> HIDE DEF r, n
<1>7. Ordered(r)
  <2> SUFFICES ASSUME NEW i \in 1..(n + 1), NEW j \in 1..(n + 1), i < j
               PROVE  End(r[i]) <= r[j].start
    BY <1>6 DEF Ordered
  <2>1. i \in 1..n
    BY <1>1
  <2>2. CASE j \in 1..n
    BY <1>1, <1>6, <2>1, <2>2 DEF Ordered
  <2>3. CASE j = n + 1
    <3>1. CASE i = n
      BY <1>5, <1>6, <2>1, <2>3, <3>1
    <3>2. CASE i # n
      <4>1. i < n /\ n \in 1..n
        BY <1>1, <2>1, <3>2
      <4>2. End(done[i]) <= done[n].start
        BY <1>1, <2>1, <4>1 DEF Ordered
      <4>3. End(done[i]) \in Int /\ c.start \in Int
        BY <1>2, <1>5, <2>1 DEF Placed, End
      <4>4. done[n].start \in Nat /\ done[n].start <= End(done[n])
              /\ End(done[n]) <= c.start
            /\ End(done[n]) \in Nat
        BY <1>4, <1>5, <4>1, <1>1
      <4>5. End(done[i]) <= c.start
        BY <4>2, <4>3, <4>4
      <4> QED   BY <1>6, <2>1, <2>3, <4>5
    <3> QED   BY <3>1, <3>2
  <2> QED   BY <1>1, <2>2, <2>3
<1>8. Late(r)
  <2> SUFFICES ASSUME NEW i \in 1..(n + 1)
               PROVE  /\ OnGrid(r[i])
                      /\ r[i].start # r[i].due =>
                           r[i].start > r[i].due /\ i > 1 /\ End(r[i - 1]) = r[i].start
    BY <1>6 DEF Late
  <2>1. CASE i \in 1..n
    <3>1. i > 1 => i - 1 \in 1..n
      BY <1>1, <2>1
    <3>2. r[i] = done[i] /\ (i > 1 => r[i - 1] = done[i - 1])
      BY <1>6, <2>1, <3>1
    <3>3. /\ OnGrid(done[i])
          /\ done[i].start # done[i].due =>
               done[i].start > done[i].due /\ i > 1 /\ End(done[i - 1]) = done[i].start
      BY <1>1, <2>1 DEF Late
    <3> QED   BY <3>2, <3>3
  <2>2. CASE i = n + 1
    <3>1. r[i] = c /\ (n > 0 => r[i - 1] = done[n])
      BY <1>1, <1>6, <2>2
    <3>2. OnGrid(c)
      BY <1>5 DEF OnGrid
    <3> QED   BY <1>1, <1>5, <2>2, <3>1, <3>2
  <2> QED   BY <1>1, <2>1, <2>2
<1> QED   BY <1>5, <1>7, <1>8 DEF r, c


\* The blocks of a day stay what they are until the day is published.
LEMMA DayStep ==
  ASSUME CompilerTyped, JobTyped, DayInv, Steps, CompilerTyped'
  PROVE  DayInv'
<1>0. /\ made \in Seq(Placed) /\ todo \in Seq(Placed) /\ done \in Seq(Placed)
      /\ day \in Nat /\ DOMAIN rows \subseteq 0..(day - 1)
  BY DEF CompilerTyped
<1>1. CASE BeginDay
  <2>1. made' = <<>> /\ done' = <<>> /\ rows' = rows /\ pc' = "next"
    BY <1>1 DEF BeginDay
  <2> QED   BY <2>1 DEF DayInv
<1>2. CASE Keeps
  <2>1. Working /\ Working' /\ UNCHANGED <<made, done, rows, day>>
    BY <1>2 DEF Keeps
  <2> QED   BY <2>1 DEF DayInv, Working, Kinds
<1>3. CASE Adds
  <2>1. PICK b \in Placed : made' = Append(made, b) /\ b.start = b.due
    BY <1>3 DEF Adds
  <2>2. Working /\ Working' /\ rows' = rows /\ done' = done
    BY <1>3 DEF Adds
  <2>3. \A i \in DOMAIN made' : made'[i].start = made'[i].due
    <3> SUFFICES ASSUME NEW i \in DOMAIN made'
                 PROVE  made'[i].start = made'[i].due
      OBVIOUS
    <3>1. CASE i \in DOMAIN made
      BY <1>0, <2>1, <2>2, <3>1 DEF DayInv
    <3>2. CASE i \notin DOMAIN made
      <4>1. made'[i] = b
        BY <1>0, <2>1, <3>2
      <4> QED   BY <2>1, <4>1
    <3> QED   BY <3>1, <3>2
  <2> QED   BY <2>2, <2>3 DEF DayInv, Working, Kinds
<1>4. CASE Fails
  <2>1. pc' = "idle" /\ day' = day + 1 /\ rows' = rows
    BY <1>4 DEF Fails, FailDay
  <2>2. day' - 1 \notin DOMAIN rows'
    BY <1>0, <2>1
  <2> QED   BY <2>1, <2>2 DEF DayInv, Working, Kinds
<1>5. CASE SortBlocks
  <2>1. /\ pc = "next" /\ pc' = "compact" /\ todo' = SortedByStart(made)
        /\ rows' = rows /\ made' = made /\ done' = done
        /\ \A i \in DOMAIN made : OnGrid(made[i])
    BY <1>5 DEF SortBlocks
  <2>2. \A i \in DOMAIN made : InTime(made[i])
    BY <2>1 DEF DayInv, InTime, Working
  <2>3. \A i \in DOMAIN todo' : InTime(todo'[i])
    <3>1. DOMAIN todo' = DOMAIN made
      BY <1>0, <2>1, SortPermutes
    <3>2. \A i \in DOMAIN made : \E j \in DOMAIN made : todo'[i] = made[j]
      BY <1>0, <2>1, SortPermutes
    <3> QED   BY <2>2, <3>1, <3>2
  <2>4. done = <<>>
    BY <2>1 DEF DayInv, Working
  <2>5. SameBlocks(done' \o todo', made')
    <3>1. done' \o todo' = SortedByStart(made)
      BY <1>0, <2>1, <2>4, SortPermutes
    <3> QED   BY <1>0, <2>1, <3>1, SortedSame
  <2>6. Ordered(done') /\ Late(done')
    BY <2>1, <2>4 DEF Ordered, Late
  <2> QED   BY <2>1, <2>3, <2>5, <2>6 DEF DayInv, Working, Kinds
<1>6. CASE CompactNext
  <2> DEFINE b == Head(todo)
             c == Pushed(b)
  <2>1. /\ pc = "compact" /\ todo # <<>> /\ done' = Append(done, c) /\ todo' = Tail(todo)
        /\ pc' = pc /\ rows' = rows /\ made' = made
    BY <1>6 DEF CompactNext
  <2>2. b \in Placed /\ InTime(b) /\ Ordered(done) /\ Late(done)
    BY <1>0, <2>1 DEF DayInv
  <2>3. /\ Ordered(Append(done, c)) /\ Late(Append(done, c))
        /\ Moved(c, b) /\ c \in Placed
    BY <1>0, <2>2, PushedIs
  <2>4. \A i \in DOMAIN todo' : InTime(todo'[i])
    <3>1. \A i \in DOMAIN todo' : i + 1 \in DOMAIN todo /\ todo'[i] = todo[i + 1]
      BY <1>0, <2>1
    <3> QED   BY <2>1, <3>1 DEF DayInv
  <2>5. SameBlocks(done' \o todo', made')
    <3> DEFINE s == done \o todo
               r == done' \o todo'
    <3> HIDE DEF c
    <3>1. DOMAIN r = DOMAIN s
      BY <1>0, <2>1, <2>3
    <3>2. \A i \in DOMAIN s : i # Len(done) + 1 => r[i] = s[i]
      BY <1>0, <2>1, <2>3
    <3>3. r[Len(done) + 1] = c /\ s[Len(done) + 1] = b
      BY <1>0, <2>1, <2>3
    <3>4. \A i \in DOMAIN s : Moved(r[i], s[i])
      BY <2>3, <3>2, <3>3 DEF Moved
    <3>5. SameBlocks(s, made)
      BY <2>1 DEF DayInv
    <3> HIDE DEF r, s
    <3>6. SameBlocks(r, made)
      BY <3>1, <3>4, <3>5, SameMoved
    <3> QED   BY <2>1, <3>6 DEF r
  <2> QED   BY <2>1, <2>3, <2>4, <2>5 DEF DayInv, Working, Kinds
<1>7. CASE PublishDay
  <2>1. /\ rows' = [d \in DOMAIN rows \union {day} |-> IF d = day THEN done ELSE rows[d]]
        /\ pc' = "idle" /\ day' = day + 1 /\ made' = made
        /\ pc = "compact" /\ todo = <<>>
    BY <1>7 DEF PublishDay
  <2>2. \A d \in DOMAIN rows' : rows'[d] = done \/ (d \in DOMAIN rows /\ rows'[d] = rows[d])
    BY <2>1
  <2>3. Ordered(done) /\ Late(done) /\ SameBlocks(done \o todo, made)
    BY <2>1 DEF DayInv
  <2>4. rows'[day' - 1] = done
    BY <1>0, <2>1
  <2>5. done \o todo = done
    BY <1>0, <2>1
  <2>6. SameBlocks(rows'[day' - 1], made')
    BY <2>1, <2>3, <2>4, <2>5
  <2>7. \A d \in DOMAIN rows' : Ordered(rows'[d]) /\ Late(rows'[d])
    BY <2>2, <2>3 DEF DayInv
  <2> QED   BY <2>1, <2>6, <2>7 DEF DayInv, Working, Kinds
<1> QED   BY <1>1, <1>2, <1>3, <1>4, <1>5, <1>6, <1>7 DEF Steps

-----------------------------------------------------------------------------
(* The turns of the pools, and the theorems about the compiler.            *)

\* What is played in order on a day starts with its first turn.
Turns(n, d, s) ==
  \A i \in DOMAIN s : s[i].turn >= 0 =>
    /\ s[i].pool \in DOMAIN PoolOf /\ PoolOf[s[i].pool] # <<>> /\ n > 0
    /\ s[i].turn >= d * n
    /\ s[i].asset = PoolOf[s[i].pool][(s[i].turn % Len(PoolOf[s[i].pool])) + 1]
    /\ \E j \in DOMAIN s : s[j].pool = s[i].pool /\ s[j].turn = d * n
\* Every day, and the day in the making, counts its turns from the number of the day.
TurnInv ==
  /\ \A d \in DOMAIN rows : Turns(SlotsPerDay, d, rows[d])
  /\ pc # "idle" => Turns(SlotsPerDay, day, made)
  /\ Working => \A p \in DOMAIN PoolOf :
       /\ counters[p] >= day * SlotsPerDay
       /\ counters[p] > day * SlotsPerDay =>
            \E j \in DOMAIN made : made[j].pool = p /\ made[j].turn = day * SlotsPerDay

\* The turns of a day do not depend on the order of its blocks.
LEMMA SameTurns ==
  ASSUME NEW n, NEW d, NEW s, NEW t, SameBlocks(s, t), Turns(n, d, t)
  PROVE  Turns(n, d, s)
<1>1. PICK f \in [DOMAIN s -> DOMAIN t] :
        /\ \A k \in DOMAIN t : \E i \in DOMAIN s : f[i] = k
        /\ \A i \in DOMAIN s : Moved(s[i], t[f[i]])
  BY DEF SameBlocks
<1> SUFFICES ASSUME NEW i \in DOMAIN s, s[i].turn >= 0
             PROVE
               /\ s[i].pool \in DOMAIN PoolOf /\ PoolOf[s[i].pool] # <<>> /\ n > 0
               /\ s[i].turn >= d * n
               /\ s[i].asset = PoolOf[s[i].pool][(s[i].turn % Len(PoolOf[s[i].pool])) + 1]
               /\ \E j \in DOMAIN s : s[j].pool = s[i].pool /\ s[j].turn = d * n
  BY DEF Turns
<1>2. /\ f[i] \in DOMAIN t /\ s[i].turn = t[f[i]].turn /\ s[i].pool = t[f[i]].pool
      /\ s[i].asset = t[f[i]].asset
  BY <1>1 DEF Moved
<1>3. /\ t[f[i]].pool \in DOMAIN PoolOf /\ PoolOf[t[f[i]].pool] # <<>> /\ n > 0
      /\ t[f[i]].turn >= d * n
      /\ t[f[i]].asset = PoolOf[t[f[i]].pool][(t[f[i]].turn % Len(PoolOf[t[f[i]].pool])) + 1]
      /\ \E j \in DOMAIN t : t[j].pool = t[f[i]].pool /\ t[j].turn = d * n
  BY <1>2 DEF Turns
<1>4. PICK j \in DOMAIN t : t[j].pool = t[f[i]].pool /\ t[j].turn = d * n
  BY <1>3
<1>5. PICK k \in DOMAIN s : f[k] = j
  BY <1>1
<1>6. s[k].pool = s[i].pool /\ s[k].turn = d * n
  BY <1>1, <1>2, <1>4, <1>5 DEF Moved
<1> QED   BY <1>2, <1>3, <1>6

\* A block played in order, or not, joins the ones of its day.
LEMMA TurnAdded ==
  ASSUME CompilerTyped, TurnInv, Adds
  PROVE  /\ Turns(SlotsPerDay, day, made')
         /\ \A p \in DOMAIN PoolOf :
              /\ counters'[p] >= day * SlotsPerDay
              /\ counters'[p] > day * SlotsPerDay =>
                   \E j \in DOMAIN made' : /\ made'[j].pool = p
                                           /\ made'[j].turn = day * SlotsPerDay
<1> DEFINE first == day * SlotsPerDay
           n == Len(made)
<1>1. PICK b \in Placed : /\ made' = Append(made, b)
                          /\ (b.turn = -1 /\ counters' = counters) \/ Sequential(b)
  BY DEF Adds
<1>2. /\ made \in Seq(Placed) /\ counters \in [DOMAIN PoolOf -> Nat] /\ first \in Nat
      /\ b.turn \in Int
  BY SlotsPerDayIs DEF CompilerTyped, Placed
<1>3. /\ DOMAIN made = 1..n /\ DOMAIN made' = 1..(n + 1) /\ n \in Nat
      /\ made'[n + 1] = b /\ \A i \in 1..n : made'[i] = made[i]
  BY <1>1, <1>2
<1>4. Working /\ pc # "idle"
  BY DEF Adds, Working, Kinds
<1>5. /\ Turns(SlotsPerDay, day, made)
      /\ \A p \in DOMAIN PoolOf :
           /\ counters[p] >= first
           /\ counters[p] > first =>
                \E j \in DOMAIN made : made[j].pool = p /\ made[j].turn = first
  BY <1>4 DEF TurnInv
<1> HIDE DEF n, first
<1>6. \A i \in 1..n : made[i].turn >= 0 =>
        /\ made[i].pool \in DOMAIN PoolOf /\ PoolOf[made[i].pool] # <<>> /\ SlotsPerDay > 0
        /\ made[i].turn >= first
        /\ made[i].asset = PoolOf[made[i].pool][(made[i].turn % Len(PoolOf[made[i].pool])) + 1]
        /\ \E j \in 1..n : made[j].pool = made[i].pool /\ made[j].turn = first
  BY <1>3, <1>5 DEF Turns, first
<1>7. \A i \in 1..n : made'[i].turn >= 0 =>
        /\ made'[i].pool \in DOMAIN PoolOf /\ PoolOf[made'[i].pool] # <<>>
             /\ SlotsPerDay > 0
        /\ made'[i].turn >= first
        /\ made'[i].asset
             = PoolOf[made'[i].pool][(made'[i].turn % Len(PoolOf[made'[i].pool])) + 1]
        /\ \E j \in DOMAIN made' : made'[j].pool = made'[i].pool /\ made'[j].turn = first
  BY <1>3, <1>6
<1>8. CASE b.turn = -1 /\ counters' = counters
  <2>1. Turns(SlotsPerDay, day, made')
    BY <1>3, <1>7, <1>8 DEF Turns, first
  <2>2. \A p \in DOMAIN PoolOf :
          /\ counters'[p] >= first
          /\ counters'[p] > first =>
               \E j \in DOMAIN made' : made'[j].pool = p /\ made'[j].turn = first
    BY <1>3, <1>5, <1>8
  <2> QED   BY <2>1, <2>2 DEF first
<1>9. CASE Sequential(b)
  <2>1. /\ b.pool \in DOMAIN PoolOf /\ PoolOf[b.pool] # <<>> /\ SlotsPerDay > 0
        /\ b.turn = counters[b.pool] /\ b.asset = InTurn(b.pool)
        /\ counters' = [counters EXCEPT ![b.pool] = @ + 1]
    BY <1>9 DEF Sequential
  <2>2. b.asset = PoolOf[b.pool][(b.turn % Len(PoolOf[b.pool])) + 1] /\ b.turn >= first
    BY <1>5, <2>1 DEF InTurn
  <2>3. \E j \in DOMAIN made' : made'[j].pool = b.pool /\ made'[j].turn = first
    <3>1. CASE counters[b.pool] > first
      BY <1>3, <1>5, <2>1, <3>1
    <3>2. CASE ~(counters[b.pool] > first)
      <4>1. b.turn = first
        BY <1>2, <2>1, <2>2, <3>2
      <4> QED   BY <1>3, <4>1
    <3> QED   BY <3>1, <3>2
  <2>4. Turns(SlotsPerDay, day, made')
    <3> SUFFICES ASSUME NEW i \in DOMAIN made', made'[i].turn >= 0
                 PROVE
          /\ made'[i].pool \in DOMAIN PoolOf /\ PoolOf[made'[i].pool] # <<>>
               /\ SlotsPerDay > 0
          /\ made'[i].turn >= first
          /\ made'[i].asset
               = PoolOf[made'[i].pool][(made'[i].turn % Len(PoolOf[made'[i].pool])) + 1]
          /\ \E j \in DOMAIN made' : made'[j].pool = made'[i].pool /\ made'[j].turn = first
      BY DEF Turns, first
    <3>1. CASE i \in 1..n
      BY <1>7, <3>1
    <3>2. CASE i = n + 1
      BY <1>3, <2>1, <2>2, <2>3, <3>2
    <3> QED   BY <1>3, <3>1, <3>2
  <2>5. ASSUME NEW p \in DOMAIN PoolOf
        PROVE  /\ counters'[p] >= first
               /\ counters'[p] > first =>
                    \E j \in DOMAIN made' : made'[j].pool = p /\ made'[j].turn = first
    <3>1. CASE p = b.pool
      <4>1. counters'[p] = counters[p] + 1
        BY <1>2, <2>1, <3>1
      <4>2. counters[p] >= first /\ counters[p] \in Nat
        BY <1>2, <1>5
      <4> QED   BY <1>2, <2>3, <3>1, <4>1, <4>2
    <3>2. CASE p # b.pool
      <4>1. counters'[p] = counters[p]
        BY <1>2, <2>1, <3>2
      <4> QED   BY <1>3, <1>5, <4>1
    <3> QED   BY <3>1, <3>2
  <2> QED   BY <2>4, <2>5 DEF first
<1> QED   BY <1>1, <1>8, <1>9

\* Every step of the compiler keeps the turns in their places.
LEMMA TurnStep ==
  ASSUME CompilerTyped, DayInv, TurnInv, Steps
  PROVE  TurnInv'
<1>1. dsl' = dsl
  BY DEF Steps, BeginDay, Keeps, Adds, Fails, FailDay, SortBlocks, CompactNext, PublishDay
<1>2. SlotsPerDay' = SlotsPerDay
  BY <1>1 DEF SlotsPerDay, DslSlots, Counted, LengthInSlots
<1> DEFINE S == SlotsPerDay
<1>3. CASE BeginDay
  <2>1. /\ made' = <<>> /\ rows' = rows /\ pc' = "next" /\ day' = day
        /\ counters' = [p \in DOMAIN PoolOf |-> day * S]
    BY <1>3 DEF BeginDay
  <2>2. day * S \in Nat
    BY SlotsPerDayIs DEF CompilerTyped
  <2> HIDE DEF S
  <2>3. Turns(S, day, made')
    BY <2>1 DEF Turns
  <2>4. \A p \in DOMAIN PoolOf : counters'[p] >= day * S /\ ~(counters'[p] > day * S)
    BY <2>1, <2>2
  <2>5. \A d \in DOMAIN rows' : Turns(S, d, rows'[d])
    BY <2>1 DEF TurnInv, S
  <2> QED   BY <1>2, <2>1, <2>3, <2>4, <2>5 DEF TurnInv, S
<1>4. CASE Keeps
  <2>1. Working /\ Working' /\ UNCHANGED <<day, counters, made, rows>>
    BY <1>4 DEF Keeps
  <2>2. pc # "idle"
    BY <2>1 DEF Working, Kinds
  <2> QED   BY <1>2, <2>1, <2>2 DEF TurnInv
<1>5. CASE Adds
  <2>1. Working /\ Working' /\ UNCHANGED <<day, rows>>
    BY <1>5 DEF Adds
  <2>2. /\ Turns(S, day, made')
        /\ \A p \in DOMAIN PoolOf :
             /\ counters'[p] >= day * S
             /\ counters'[p] > day * S =>
                  \E j \in DOMAIN made' : made'[j].pool = p /\ made'[j].turn = day * S
    BY <1>5, TurnAdded
  <2>3. \A d \in DOMAIN rows' : Turns(S, d, rows'[d])
    BY <2>1 DEF TurnInv
  <2> QED   BY <1>2, <2>1, <2>2, <2>3 DEF TurnInv
<1>6. CASE Fails
  <2>1. pc' = "idle" /\ rows' = rows
    BY <1>6 DEF Fails, FailDay
  <2> QED   BY <1>2, <2>1 DEF TurnInv, Working, Kinds
<1>7. CASE SortBlocks
  <2>1. pc = "next" /\ pc' = "compact" /\ UNCHANGED <<day, made, rows>>
    BY <1>7 DEF SortBlocks
  <2> QED   BY <1>2, <2>1 DEF TurnInv, Working, Kinds
<1>8. CASE CompactNext
  <2>1. pc = "compact" /\ pc' = "compact" /\ UNCHANGED <<day, made, rows>>
    BY <1>8 DEF CompactNext
  <2> QED   BY <1>2, <2>1 DEF TurnInv, Working, Kinds
<1>9. CASE PublishDay
  <2>1. /\ rows' = [d \in DOMAIN rows \union {day} |-> IF d = day THEN done ELSE rows[d]]
        /\ pc' = "idle" /\ pc = "compact" /\ todo = <<>>
    BY <1>9 DEF PublishDay
  <2>2. SameBlocks(done, made)
    <3>1. done \o todo = done
      BY <2>1 DEF CompilerTyped
    <3> QED   BY <2>1, <3>1 DEF DayInv
  <2>3. Turns(S, day, done)
    <3>1. Turns(S, day, made)
      BY <2>1 DEF TurnInv
    <3> HIDE DEF S
    <3> QED   BY <2>2, <3>1, SameTurns
  <2>4. \A d \in DOMAIN rows' : Turns(S, d, rows'[d])
    <3>1. \A d \in DOMAIN rows : Turns(S, d, rows[d])
      BY DEF TurnInv
    <3> HIDE DEF S
    <3> QED   BY <2>1, <2>3, <3>1
  <2> QED   BY <1>2, <2>1, <2>4 DEF TurnInv, Working, Kinds
<1> QED   BY <1>3, <1>4, <1>5, <1>6, <1>7, <1>8, <1>9 DEF Steps

\* Two days that begin with the same place of a pool.
LEMMA SamePlace ==
  ASSUME NEW x \in Nat, NEW s \in Nat, NEW n \in Nat \ {0}, x % n = (x + s) % n
  PROVE  s % n = 0
<1> DEFINE p == x \div n
           q == (x + s) \div n
           r == x % n
<1>1. x = n * p + r /\ p \in Nat /\ r \in 0..(n - 1)
  OBVIOUS
<1>2. x + s = n * q + r /\ q \in Nat
  OBVIOUS
<1> HIDE DEF p, q, r
<1>3. s = n * (q - p) /\ q - p \in Int
  BY <1>1, <1>2
<1>4. (n * (q - p)) % n = 0
  <2> DEFINE k == q - p
  <2>1. k \in Int
    BY <1>1, <1>2
  <2> HIDE DEF k
  <2>2. (n * k) % n = 0
    BY <2>1
  <2> QED   BY <2>2 DEF k
<1> QED   BY <1>3, <1>4

\* The first turn of a day.
LEMMA FirstOfIs ==
  ASSUME CompilerTyped, TurnInv, NEW d \in DOMAIN rows, NEW p \in DOMAIN PoolOf,
         TurnsOf(d, p) # {}
  PROVE  /\ PoolOf[p] # <<>> /\ SlotsPerDay > 0
         /\ FirstOf(d, p) = PoolOf[p][((d * SlotsPerDay) % Len(PoolOf[p])) + 1]
<1> DEFINE s == rows[d]
           T == TurnsOf(d, p)
           first == d * SlotsPerDay
           Low(i) == \A j \in T : s[i].turn <= s[j].turn
           i == CHOOSE i \in T : Low(i)
<1>1. \A k \in T : k \in DOMAIN s /\ s[k].pool = p /\ s[k].turn >= 0
  BY DEF TurnsOf
<1>2. s \in Seq(Placed) /\ d \in Nat /\ SlotsPerDay \in Nat
  BY SlotsPerDayIs DEF CompilerTyped
<1>3. first \in Nat
  BY <1>2
<1>4. \A k \in DOMAIN s : s[k].turn \in Int
  <2>1. \A k \in DOMAIN s : s[k] \in Placed
    <3> HIDE DEF s
    <3> QED   BY <1>2
  <2> QED   BY <2>1 DEF Placed
<1>5. \A k \in T :
        /\ PoolOf[p] # <<>> /\ SlotsPerDay > 0 /\ s[k].turn >= first
        /\ s[k].asset = PoolOf[p][(s[k].turn % Len(PoolOf[p])) + 1]
        /\ \E j \in DOMAIN s : s[j].pool = p /\ s[j].turn = first
  BY <1>1 DEF TurnInv, Turns
<1>6. PICK j \in DOMAIN s : s[j].pool = p /\ s[j].turn = first
  BY <1>5
<1>7. j \in T
  BY <1>3, <1>6 DEF TurnsOf
<1> HIDE DEF first
<1>8. Low(j)
  BY <1>3, <1>5, <1>6
<1>9. i \in T /\ Low(i)
  <2> HIDE DEF T
  <2> QED   BY <1>7, <1>8
<1>10. s[i].turn = first
  <2>1. s[i].turn <= first /\ s[i].turn >= first /\ s[i].turn \in Int
    BY <1>1, <1>4, <1>5, <1>6, <1>7, <1>9
  <2> QED   BY <1>3, <2>1
<1>11. FirstOf(d, p) = s[i].asset
  BY DEF FirstOf
<1> HIDE DEF T, i
<1> QED   BY <1>5, <1>9, <1>10, <1>11 DEF first

\* A day whose first turn is its number times its slots advances from the day before.
LEMMA TurnsAdvance ==
  ASSUME CompilerTyped, TurnInv
  PROVE  DaysAdvance
<1> SUFFICES ASSUME NEW d \in DOMAIN rows, NEW p \in DOMAIN PoolOf,
                    d + 1 \in DOMAIN rows, TurnsOf(d, p) # {}, TurnsOf(d + 1, p) # {},
                    FirstOf(d, p) = FirstOf(d + 1, p)
             PROVE  SlotsPerDay > 0 /\ SlotsPerDay % Len(PoolOf[p]) = 0
  BY DEF DaysAdvance
<1> DEFINE n == Len(PoolOf[p])
           S == SlotsPerDay
           x == d * S
<1>1. /\ PoolOf[p] # <<>> /\ S > 0
      /\ FirstOf(d, p) = PoolOf[p][(x % n) + 1]
  BY FirstOfIs
<1>2. FirstOf(d + 1, p) = PoolOf[p][(((d + 1) * S) % n) + 1]
  BY FirstOfIs
<1>3. S \in Nat /\ d \in Nat
  BY SlotsPerDayIs DEF CompilerTyped
<1>4. (d + 1) * S = x + S /\ x \in Nat
  BY <1>3
<1>5. PoolOf[p] \in Seq(Assets) /\ IsInjective(PoolOf[p])
  BY PoolAssumption DEF Assets
<1>6. n \in Nat \ {0} /\ DOMAIN PoolOf[p] = 1..n
  BY <1>1, <1>5
<1>7. PoolOf[p][(x % n) + 1] = PoolOf[p][((x + S) % n) + 1]
  BY <1>1, <1>2, <1>4
<1>12. S > 0
  BY <1>1
<1> HIDE DEF S, x, n
<1>8. (x % n) + 1 \in 1..n /\ ((x + S) % n) + 1 \in 1..n
      /\ x % n \in Int /\ (x + S) % n \in Int
  BY <1>3, <1>4, <1>6
<1>9. (x % n) + 1 = ((x + S) % n) + 1
  BY <1>5, <1>6, <1>7, <1>8 DEF IsInjective
<1>10. x % n = (x + S) % n
  BY <1>8, <1>9
<1>11. S % n = 0
  BY <1>3, <1>4, <1>6, <1>10, SamePlace
<1> QED   BY <1>11, <1>12 DEF S, n

\* The days that are published are well formed.
LEMMA RowsWellFormed ==
  ASSUME CompilerTyped, DayInv
  PROVE  DayWellFormed
<1> SUFFICES ASSUME NEW d \in DOMAIN rows
             PROVE  LET row == rows[d] IN
               /\ \A i, j \in DOMAIN row : i < j => End(row[i]) <= row[j].start
               /\ \A i \in DOMAIN row :
                    /\ OnGrid(row[i])
                    /\ row[i].start # row[i].due =>
                         row[i].start > row[i].due /\ i > 1
                         /\ End(row[i - 1]) = row[i].start
               /\ pc = "idle" /\ d = day - 1 =>
                    \A b \in Range(made) :
                      Cardinality({i \in DOMAIN row : Same(row[i]) = Same(b)})
                        = Cardinality({i \in DOMAIN made : Same(made[i]) = Same(b)})
  BY DEF DayWellFormed
<1>1. Ordered(rows[d]) /\ Late(rows[d])
  BY DEF DayInv
<1>2. ASSUME pc = "idle", d = day - 1, NEW b \in Range(made)
      PROVE  Cardinality({i \in DOMAIN rows[d] : Same(rows[d][i]) = Same(b)})
               = Cardinality({i \in DOMAIN made : Same(made[i]) = Same(b)})
  <2>1. SameBlocks(rows[d], made) /\ rows[d] \in Seq(Placed) /\ made \in Seq(Placed)
    BY <1>2 DEF DayInv, CompilerTyped
  <2> QED   BY <2>1, SameCount, SMTT(30)
<1>3. \A i, j \in DOMAIN rows[d] : i < j => End(rows[d][i]) <= rows[d][j].start
  BY <1>1 DEF Ordered
<1>4. \A i \in DOMAIN rows[d] :
        /\ OnGrid(rows[d][i])
        /\ rows[d][i].start # rows[d][i].due =>
             rows[d][i].start > rows[d][i].due /\ i > 1
             /\ End(rows[d][i - 1]) = rows[d][i].start
  BY <1>1 DEF Late
<1> QED   BY <1>2, <1>3, <1>4

\* The inductive invariant of the compiler.
CompilerInv == CompilerTyped /\ JobTyped /\ DayInv /\ TurnInv

\* It holds at the start,
LEMMA CompilerStarts ==
  ASSUME CompilerInit
  PROVE  CompilerInv
<1>1. CompilerTyped
  BY DEF CompilerInit, CompilerTyped
<1>2. JobTyped
  BY DEF CompilerInit, JobTyped, Working, Kinds
<1>3. DayInv
  BY DEF CompilerInit, DayInv, Working, Kinds
<1>4. TurnInv
  BY DEF CompilerInit, TurnInv, Working, Kinds
<1> QED   BY <1>1, <1>2, <1>3, <1>4 DEF CompilerInv

\* is kept by every step of the compiler,
LEMMA CompilerKeeps ==
  ASSUME CompilerInv, Compile
  PROVE  CompilerInv'
<1>1. CompilerTyped' /\ JobTyped' /\ Steps
  BY StepIs DEF CompilerInv
<1> QED   BY <1>1, DayStep, TurnStep DEF CompilerInv

\* and holds while the compiler does nothing,
LEMMA CompilerRests ==
  ASSUME CompilerInv, UNCHANGED compilerVars
  PROVE  CompilerInv'
<1>1. UNCHANGED <<dsl, day, pc, starts, job, counters, used, made, todo, done, rows, timeline>>
  BY DEF compilerVars
<1>2. CompilerTyped'
  BY <1>1 DEF CompilerInv, CompilerTyped
<1>3. JobTyped'
  BY <1>1 DEF CompilerInv, JobTyped, JobIs, Working, Merged
<1>4. DayInv'
  BY <1>1 DEF CompilerInv, DayInv, Working
<1>5. SlotsPerDay' = SlotsPerDay
  BY <1>1 DEF SlotsPerDay, DslSlots, Counted, LengthInSlots
<1>6. TurnInv'
  BY <1>1, <1>5 DEF CompilerInv, TurnInv, Working
<1> QED   BY <1>2, <1>3, <1>4, <1>6 DEF CompilerInv

\* as it does while the producer is at work.
LEMMA FeedRests ==
  ASSUME Feed
  PROVE  UNCHANGED compilerVars
BY DEF Feed, TuneIn, KeepSegment, PickSpot, FillBreak, Fallback, TooLong, SeedFirst,
       SeedSecond, FeedNext, LookUp, TuneOut

\* Whatever the DSL and the pools: compile_schedule keeps the day it is compiling in
\* the state that its next step needs, and the days it has published as it left them.
THEOREM CompilerInvariant == ProgramSpec => []CompilerInv
<1>1. FeedInit => CompilerInv
  BY CompilerStarts DEF FeedInit
<1>2. CompilerInv /\ [ProgramNext]_programVars => CompilerInv'
  <2> SUFFICES ASSUME CompilerInv, [ProgramNext]_programVars
               PROVE  CompilerInv'
    OBVIOUS
  <2>1. CASE Compile
    BY <2>1, CompilerKeeps
  <2>2. CASE Feed
    BY <2>2, FeedRests, CompilerRests
  <2>3. CASE UNCHANGED programVars
    BY <2>3, CompilerRests DEF programVars
  <2> QED   BY <2>1, <2>2, <2>3 DEF ProgramNext
<1> QED   BY <1>1, <1>2, PTL DEF ProgramSpec

\* Whatever the DSL, the grid and the lengths of the assets: every day that
\* compile_schedule publishes is in order, without overlaps, and on the grid; a block
\* is at the time its definition asks for, or right after the block that delays it.
THEOREM RowsAreWellFormed == ProgramSpec => []DayWellFormed
<1>1. CompilerInv => DayWellFormed
  BY RowsWellFormed DEF CompilerInv
<1> QED   BY <1>1, CompilerInvariant, PTL

\* Whatever days failed before: the counters that _compile_day starts a day with are the
\* number of the day times the slots counted in the DSL, so that a pool played in order
\* does not begin two days in a row with the same episode, unless the slots counted are
\* a multiple of the pool.
THEOREM EveryDayAdvances == ProgramSpec => []DaysAdvance
<1>1. CompilerInv => DaysAdvance
  BY TurnsAdvance DEF CompilerInv
<1> QED   BY <1>1, CompilerInvariant, PTL

-----------------------------------------------------------------------------
(* Running totals.                                                         *)

\* Running totals of a list that begins with s.
LEMMA TotalsPrefix ==
  ASSUME NEW s, s \in Seq(Int), NEW t, t \in Seq(Int), Len(s) <= Len(t),
         \A i \in 1..Len(s) : t[i] = s[i]
  PROVE  \A i \in 0..Len(s) : Totals(t)[i] = Totals(s)[i]
<1> DEFINE I == {i \in Nat : i <= Len(s) => Totals(t)[i] = Totals(s)[i]}
<1>1. Len(s) \in Nat /\ Len(t) \in Nat
  OBVIOUS
<1>2. 0 \in I
  BY TotalsAre
<1>3. ASSUME NEW n \in Nat, n \in I
      PROVE  n + 1 \in I
  <2> SUFFICES ASSUME n + 1 <= Len(s)
               PROVE  Totals(t)[n + 1] = Totals(s)[n + 1]
    OBVIOUS
  <2>1. n + 1 \in 1..Len(s) /\ n + 1 \in 1..Len(t) /\ (n + 1) - 1 = n
    BY <1>1
  <2>2. Totals(s)[n + 1] = Totals(s)[n] + s[n + 1]
    BY <2>1, TotalsAre
  <2>3. Totals(t)[n + 1] = Totals(t)[n] + t[n + 1]
    BY <2>1, TotalsAre
  <2>4. Totals(t)[n] = Totals(s)[n]
    BY <1>1, <1>3
  <2> QED   BY <2>1, <2>2, <2>3, <2>4
<1> HIDE DEF I
<1>4. \A n \in Nat : n \in I
  BY <1>2, <1>3, NatInduct
<1> QED   BY <1>1, <1>4 DEF I

\* The totals of two lists one after the other.
LEMMA TotalsSplit ==
  \A s, t, r \in Seq(Int) :
    (/\ Len(r) = Len(s) + Len(t) /\ \A i \in 1..Len(s) : r[i] = s[i]
     /\ \A i \in 1..Len(t) : r[Len(s) + i] = t[i])
    => (/\ \A i \in 0..Len(s) : Totals(r)[i] = Totals(s)[i]
        /\ \A i \in 0..Len(t) : Totals(r)[Len(s) + i] = Totals(s)[Len(s)] + Totals(t)[i])
<1> SUFFICES ASSUME NEW s \in Seq(Int), NEW t \in Seq(Int), NEW r \in Seq(Int),
                    Len(r) = Len(s) + Len(t), \A i \in 1..Len(s) : r[i] = s[i],
                    \A i \in 1..Len(t) : r[Len(s) + i] = t[i]
             PROVE  /\ \A i \in 0..Len(s) : Totals(r)[i] = Totals(s)[i]
                    /\ \A i \in 0..Len(t) :
                         Totals(r)[Len(s) + i] = Totals(s)[Len(s)] + Totals(t)[i]
  OBVIOUS
<1> DEFINE m == Len(s)
           I == {i \in Nat : i <= Len(t) => Totals(r)[m + i] = Totals(s)[m] + Totals(t)[i]}
<1>1. /\ m \in Nat /\ Len(t) \in Nat /\ r \in Seq(Int) /\ Len(r) = m + Len(t)
      /\ \A i \in 1..m : r[i] = s[i]
      /\ \A i \in 1..Len(t) : r[m + i] = t[i]
  OBVIOUS
<1>2. \A i \in 0..m : Totals(r)[i] = Totals(s)[i]
  <2>1. Len(s) <= Len(r) /\ \A i \in 1..Len(s) : r[i] = s[i]
    BY <1>1
  <2> QED   BY <1>1, <2>1, TotalsPrefix
<1>3. Totals(s)[m] \in Int
  <2>1. m \in 0..Len(s) /\ Totals(s) \in [0..Len(s) -> Int]
    BY <1>1, TotalsAre
  <2> QED   BY <2>1
<1>4. 0 \in I
  <2>1. Totals(t)[0] = 0 /\ Totals(r)[m] = Totals(s)[m]
    BY <1>1, <1>2, TotalsAre
  <2> QED   BY <1>1, <1>3, <2>1
<1>5. ASSUME NEW n \in Nat, n \in I
      PROVE  n + 1 \in I
  <2> SUFFICES ASSUME n + 1 <= Len(t)
               PROVE  Totals(r)[m + (n + 1)] = Totals(s)[m] + Totals(t)[n + 1]
    OBVIOUS
  <2>1. n + 1 \in 1..Len(t) /\ m + (n + 1) \in 1..Len(r) /\ (m + (n + 1)) - 1 = m + n
        /\ (n + 1) - 1 = n /\ n \in 0..Len(t)
    BY <1>1
  <2>2. Totals(r)[m + (n + 1)] = Totals(r)[m + n] + r[m + (n + 1)]
    BY <1>1, <2>1, TotalsAre
  <2>3. Totals(t)[n + 1] = Totals(t)[n] + t[n + 1]
    BY <2>1, TotalsAre
  <2>4. Totals(r)[m + n] = Totals(s)[m] + Totals(t)[n]
    BY <1>1, <1>5
  <2>5. r[m + (n + 1)] = t[n + 1]
    BY <1>1, <2>1
  <2>6. t[n + 1] \in Int
    BY <2>1
  <2>7. Totals(t)[n] \in Int
    BY <2>1, TotalsAre
  <2>8. Totals(r)[m + (n + 1)] = (Totals(s)[m] + Totals(t)[n]) + t[n + 1]
    BY <2>2, <2>4, <2>5
  <2> HIDE DEF m
  <2> DEFINE a == Totals(s)[m]
             b == Totals(t)[n]
             c == t[n + 1]
             up == Totals(r)[m + (n + 1)]
             end == Totals(t)[n + 1]
  <2>9. a \in Int /\ b \in Int /\ c \in Int /\ up = (a + b) + c /\ end = b + c
    BY <1>3, <2>3, <2>6, <2>7, <2>8
  <2>10. up = a + end
    <3> HIDE DEF a, b, c, up, end
    <3> QED   BY <2>9
  <2> QED   BY <2>10
<1> HIDE DEF I
<1>6. \A n \in Nat : n \in I
  BY <1>4, <1>5, NatInduct
<1>7. \A i \in 0..Len(t) : Totals(r)[m + i] = Totals(s)[m] + Totals(t)[i]
  BY <1>1, <1>6 DEF I
<1> QED   BY <1>2, <1>7

\* The totals of a list with one more entry.
LEMMA TotalsAppend ==
  ASSUME NEW s, s \in Seq(Int), NEW x \in Int
  PROVE  /\ \A i \in 0..Len(s) : Totals(Append(s, x))[i] = Totals(s)[i]
         /\ Totals(Append(s, x))[Len(s) + 1] = Totals(s)[Len(s)] + x
<1> DEFINE t == Append(s, x)
           n == Len(s)
<1>1. /\ t \in Seq(Int) /\ Len(t) = n + 1 /\ n \in Nat /\ t[n + 1] = x
      /\ \A i \in 1..n : t[i] = s[i]
  OBVIOUS
<1> HIDE DEF t
<1>2. \A i \in 0..n : Totals(t)[i] = Totals(s)[i]
  <2>1. Len(s) <= Len(t) /\ \A i \in 1..Len(s) : t[i] = s[i]
    BY <1>1
  <2> QED   BY <1>1, <2>1, TotalsPrefix
<1>3. n + 1 \in 1..Len(t) /\ (n + 1) - 1 = n /\ n \in 0..n
  BY <1>1
<1>4. Totals(t)[n + 1] = Totals(t)[n] + t[n + 1]
  BY <1>1, <1>3, TotalsAre
<1> QED   BY <1>1, <1>2, <1>3, <1>4 DEF t

\* The totals of lengths never shrink.
LEMMA TotalsGrow ==
  ASSUME NEW s, s \in Seq(Nat)
  PROVE  /\ \A i \in 0..Len(s) : Totals(s)[i] \in Nat
         /\ \A i, j \in 0..Len(s) : i <= j => Totals(s)[i] <= Totals(s)[j]
<1> DEFINE n == Len(s)
           T == Totals(s)
           Grown(j) == \A i \in 0..n : i <= j => T[i] \in Nat /\ T[i] <= T[j]
           I == {j \in Nat : j <= n => Grown(j)}
<1>1. n \in Nat /\ s \in Seq(Int) /\ \A i \in 1..n : s[i] \in Nat
  OBVIOUS
<1>2. T[0] = 0 /\ \A i \in 1..n : T[i] = T[i - 1] + s[i]
  BY <1>1, TotalsAre
<1> HIDE DEF T
<1>3. 0 \in I
  BY <1>1, <1>2
<1>4. ASSUME NEW j \in Nat, j \in I
      PROVE  j + 1 \in I
  <2> SUFFICES ASSUME j + 1 <= n, NEW i \in 0..n, i <= j + 1
               PROVE  T[i] \in Nat /\ T[i] <= T[j + 1]
    OBVIOUS
  <2>1. j + 1 \in 1..n /\ (j + 1) - 1 = j /\ j \in 0..n /\ j <= j
    BY <1>1
  <2>2. T[j + 1] = T[j] + s[j + 1] /\ s[j + 1] \in Nat
    BY <1>1, <1>2, <2>1
  <2>3. Grown(j)
    BY <1>1, <1>4
  <2>4. T[j] \in Nat
    BY <2>1, <2>3
  <2>5. T[j + 1] \in Nat /\ T[j] <= T[j + 1]
    BY <2>2, <2>4
  <2>6. CASE i = j + 1
    BY <2>5, <2>6
  <2>7. CASE i <= j
    <3>1. T[i] \in Nat /\ T[i] <= T[j]
      BY <2>3, <2>7
    <3> QED   BY <2>4, <2>5, <3>1
  <2> QED   BY <2>6, <2>7
<1> HIDE DEF I
<1>5. \A j \in Nat : j \in I
  BY <1>3, <1>4, NatInduct
<1>6. \A j \in 0..n : Grown(j)
  BY <1>1, <1>5 DEF I
<1>7. \A j \in 0..n : T[j] \in Nat
  BY <1>1, <1>6
<1> QED   BY <1>1, <1>6, <1>7 DEF T

-----------------------------------------------------------------------------
(* The producer and the schedule it reads.                                 *)

\* What the producer has in memory is what the rows hold.
Gathered == Range(timeline) = UNION {Range(rows[d]) : d \in DOMAIN rows}
\* The producer: what a session is at, and the block that it is at.
FeedInv ==
  /\ Gathered /\ joinedAt \in Nat /\ cursor \in Nat
  /\ session \in {"off", "filling", "on", "gap", "failed"}
  /\ session # "off" => Compiled
  /\ session # "on" => plan = NoPlan
  /\ session = "on" => seeding \in {"b", "next"}
  /\ session = "filling" =>
       /\ seeding \in {"a", "b", "next"} /\ block \in Range(timeline)
       /\ Covers(block, IF seeding = "a" THEN joinedAt ELSE cursor)
  /\ session \in {"filling", "on"} /\ seeding # "a" =>
       \E c \in Range(timeline) : End(c) = cursor

\* Publishing a day adds its blocks to what the producer can read.
LEMMA GatheredStep ==
  ASSUME CompilerTyped, Gathered, Steps \/ UNCHANGED <<rows, timeline>>
  PROVE  Gathered'
<1>1. CASE UNCHANGED <<rows, timeline>>
  BY <1>1 DEF Gathered
<1>2. CASE PublishDay
  <2>1. /\ rows' = [d \in DOMAIN rows \union {day} |-> IF d = day THEN done ELSE rows[d]]
        /\ timeline' = SortedByStart(timeline \o done)
    BY <1>2 DEF PublishDay
  <2>2. /\ timeline \in Seq(Placed) /\ done \in Seq(Placed) /\ day \in Nat
        /\ DOMAIN rows \subseteq 0..(day - 1)
    BY DEF CompilerTyped
  <2>3. timeline \o done \in Seq(Placed) /\ day \notin DOMAIN rows
    BY <2>2
  <2>4. Range(timeline') = Range(timeline \o done)
    <3> DEFINE r == timeline \o done
    <3>1. r \in Seq(Placed) /\ timeline' = SortedByStart(r)
      BY <2>1, <2>3
    <3> HIDE DEF r
    <3>2. Range(SortedByStart(r)) = Range(r)
      BY <3>1, SortedRange
    <3> QED   BY <3>1, <3>2 DEF r
  <2>5. Range(timeline \o done) = Range(timeline) \union Range(done)
    <3>1. \A b \in Range(timeline \o done) : b \in Range(timeline) \union Range(done)
      <4> SUFFICES ASSUME NEW i \in DOMAIN (timeline \o done)
                   PROVE  (timeline \o done)[i] \in Range(timeline) \union Range(done)
        BY DEF Range
      <4>1. CASE i <= Len(timeline)
        BY <2>2, <4>1 DEF Range
      <4>2. CASE i > Len(timeline)
        <5>1. i - Len(timeline) \in DOMAIN done
              /\ (timeline \o done)[i] = done[i - Len(timeline)]
          BY <2>2, <4>2
        <5> QED   BY <5>1 DEF Range
      <4> QED   BY <2>2, <4>1, <4>2
    <3>2. \A i \in DOMAIN timeline : timeline[i] = (timeline \o done)[i]
                                     /\ i \in DOMAIN (timeline \o done)
      BY <2>2
    <3>3. \A i \in DOMAIN done : done[i] = (timeline \o done)[Len(timeline) + i]
                                 /\ Len(timeline) + i \in DOMAIN (timeline \o done)
      BY <2>2
    <3>4. \A b \in Range(timeline) : b \in Range(timeline \o done)
      BY <3>2 DEF Range
    <3>5. \A b \in Range(done) : b \in Range(timeline \o done)
      BY <3>3 DEF Range
    <3> QED   BY <3>1, <3>4, <3>5
  <2>6. UNION {Range(rows'[d]) : d \in DOMAIN rows'}
          = (UNION {Range(rows[d]) : d \in DOMAIN rows}) \union Range(done)
    <3>1. \A d \in DOMAIN rows : d \in DOMAIN rows' /\ rows'[d] = rows[d]
      BY <2>1, <2>3
    <3>2. day \in DOMAIN rows' /\ rows'[day] = done
      BY <2>1
    <3>3. \A d \in DOMAIN rows' : d = day \/ d \in DOMAIN rows
      BY <2>1
    <3> QED   BY <3>1, <3>2, <3>3
  <2> QED   BY <2>4, <2>5, <2>6 DEF Gathered
<1>3. Steps /\ ~PublishDay => UNCHANGED <<rows, timeline>>
  BY DEF Steps, BeginDay, Keeps, Adds, Fails, FailDay, SortBlocks, CompactNext
<1> QED   BY <1>1, <1>2, <1>3

\* Once all is compiled, nothing more is.
LEMMA CompiledRests ==
  ASSUME CompilerTyped, Compiled
  PROVE  ~Compile
<1>1. pc = "idle" /\ day > FinalDay /\ day \in Nat
  BY DEF Compiled, CompilerTyped
<1>2. ~BeginDay
  BY <1>1, TimeAssumption DEF BeginDay
<1> QED
  BY <1>1, <1>2 DEF Compile, OpenDef, SortBlocks, OffGrid, CompactNext, PublishDay,
     PlaceSlot, SlotsEnd, PlaceEpisode, EpisodesEnd, NoEpisode, PlaceMovie, NoMovie,
     PlaceMarathon, ResetMarathon, MarathonEnds

\* The block of a time that is scheduled covers that time.
LEMMA BlocksAt ==
  ASSUME CompilerTyped, NEW t, Scheduled(t)
  PROVE  BlockAt(t) \in Range(timeline) /\ Covers(BlockAt(t), t)
<1> DEFINE T == {i \in DOMAIN timeline : Covers(timeline[i], t)}
<1>1. Len(timeline) \in Nat /\ T \subseteq 0..Len(timeline) /\ T # {}
  BY DEF CompilerTyped, Scheduled
<1>2. Min(T) \in T
  <2> HIDE DEF T
  <2> QED   BY <1>1, MaxMin
<1>3. BlockAt(t) = timeline[Min(T)]
  BY DEF BlockAt
<1> HIDE DEF BlockAt
<1>4. Min(T) \in DOMAIN timeline /\ Covers(timeline[Min(T)], t)
  BY <1>2
<1> HIDE DEF T
<1> QED   BY <1>3, <1>4 DEF Range

\* A block in memory.
LEMMA InMemory ==
  ASSUME CompilerTyped, NEW b \in Range(timeline)
  PROVE  /\ b \in Placed /\ b.start \in Nat /\ b.dur \in Nat /\ b.dur > 0
         /\ End(b) \in Nat /\ b.asset \in Assets /\ b # NoBlock
         /\ b.dur = SlotDuration(b.asset)
<1>1. b \in Placed
  BY DEF CompilerTyped, Range
<1>2. b.asset \in Assets /\ b.start \in Nat /\ b.dur = SlotDuration(b.asset)
        /\ b.dur \in Nat
  BY <1>1 DEF Placed
<1>3. b.dur > 0
  BY <1>2, Durations
<1>4. b # NoBlock
  BY <1>2, SegmentAssumption DEF NoBlock, Assets
<1> QED   BY <1>1, <1>2, <1>3, <1>4 DEF End

\* The producer starts without a session,
LEMMA FeedStarts ==
  ASSUME FeedInit
  PROVE  FeedInv
<1>1. timeline = <<>> /\ rows = [d \in {} |-> <<>>] /\ session = "off" /\ plan = NoPlan
      /\ joinedAt = 0 /\ cursor = 0
  BY DEF FeedInit, CompilerInit
<1>2. Gathered
  BY <1>1 DEF Gathered, Range
<1> QED   BY <1>1, <1>2 DEF FeedInv

\* and every step keeps the block that it is at in the schedule.
LEMMA FeedStep ==
  ASSUME CompilerTyped, JobTyped, FeedInv, [ProgramNext]_programVars
  PROVE  FeedInv'
<1>1. CASE Compile /\ UNCHANGED feedVars
  <2>1. session = "off"
    BY <1>1, CompiledRests DEF FeedInv
  <2>2. Steps
    BY <1>1, StepIs
  <2>3. Gathered'
    BY <2>2, GatheredStep DEF FeedInv
  <2>4. UNCHANGED <<session, seeding, joinedAt, block, cursor, plan>>
    BY <1>1 DEF feedVars
  <2> QED   BY <2>1, <2>3, <2>4 DEF FeedInv, NoPlan, NoBlock
<1>2. CASE Feed
  <2>1. UNCHANGED <<rows, timeline, pc, day>>
    BY <1>2, FeedRests DEF compilerVars
  <2>2. Gathered'
    BY <2>1, GatheredStep DEF FeedInv
  <2>3. Compiled' = Compiled
    BY <2>1 DEF Compiled
  <2>4. CASE TuneIn
    <3>1. Compiled /\ session' = "filling" /\ seeding' = "a" /\ UNCHANGED <<cursor, plan>>
          /\ session = "off"
      BY <2>4 DEF TuneIn, Fetch
    <3>2. PICK t \in 0..((FinalDay + 3) * DayLen) :
            Scheduled(t) /\ joinedAt' = t /\ block' = BlockAt(t)
      BY <2>4 DEF TuneIn, Fetch
    <3>3. BlockAt(t) \in Range(timeline) /\ Covers(BlockAt(t), t)
      BY <3>2, BlocksAt
    <3>4. t \in Nat
      BY <3>2
    <3>5. Covers(block, joinedAt)'
      BY <3>2, <3>3 DEF Covers, End
    <3> QED   BY <2>1, <2>2, <2>3, <3>1, <3>2, <3>3, <3>4, <3>5 DEF FeedInv
  <2>5. CASE KeepSegment \/ PickSpot \/ FillBreak \/ Fallback
    <3>1. UNCHANGED <<session, seeding, joinedAt, block, cursor, plan>>
      BY <2>5 DEF KeepSegment, PickSpot, FillBreak, Fallback
    <3> QED   BY <2>1, <2>2, <2>3, <3>1 DEF FeedInv, Covers, End
  <2>6. CASE TooLong
    <3>1. session = "filling" /\ session' \in {"gap", "failed"}
          /\ UNCHANGED <<seeding, joinedAt, block, cursor, plan>>
      BY <2>6 DEF TooLong, InBreak, Stopped
    <3> QED   BY <2>1, <2>2, <2>3, <3>1 DEF FeedInv
  <2>7. CASE SeedFirst \/ FeedNext \/ (SeedSecond /\ ~Apart)
    <3>1. /\ session = "filling" /\ session' = "on" /\ seeding' \in {"b", "next"}
          /\ cursor' = End(block) /\ joinedAt' = joinedAt
      BY <2>7 DEF SeedFirst, FeedNext, SeedSecond, Filled, Generate
    <3>2. block \in Range(timeline) /\ Compiled
      BY <3>1 DEF FeedInv
    <3>3. End(block) \in Nat
      BY <3>2, InMemory
    <3>4. \E c \in Range(timeline)' : (End(c) = cursor)'
      BY <2>1, <3>1, <3>2 DEF End
    <3> QED   BY <2>1, <2>2, <2>3, <3>1, <3>2, <3>3, <3>4 DEF FeedInv
  <2>8. CASE SeedSecond /\ Apart
    <3>1. session = "filling" /\ session' = "failed"
          /\ UNCHANGED <<seeding, joinedAt, block, cursor, plan>>
      BY <2>8 DEF SeedSecond, Filled
    <3> QED   BY <2>1, <2>2, <2>3, <3>1 DEF FeedInv
  <2>9. CASE LookUp
    <3>1. session = "on" /\ UNCHANGED <<seeding, joinedAt, cursor>> /\ plan' = NoPlan
      BY <2>9 DEF LookUp
    <3>2. NoPlan' = NoPlan
      BY DEF NoPlan, NoBlock
    <3>3. CASE Scheduled(cursor)
      <4>1. session' = "filling" /\ block' = BlockAt(cursor)
        BY <2>9, <3>3 DEF LookUp, Fetch
      <4>2. BlockAt(cursor) \in Range(timeline) /\ Covers(BlockAt(cursor), cursor)
        BY <3>3, BlocksAt
      <4>3. Covers(block, cursor)'
        BY <3>1, <4>1, <4>2 DEF Covers, End
      <4> QED   BY <2>1, <2>2, <2>3, <3>1, <3>2, <4>1, <4>2, <4>3 DEF FeedInv
    <3>4. CASE ~Scheduled(cursor)
      <4>1. session' \in {"gap", "failed"}
        BY <2>9, <3>4 DEF LookUp, Stopped
      <4> QED   BY <2>1, <2>2, <2>3, <3>1, <3>2, <4>1 DEF FeedInv
    <3> QED   BY <3>3, <3>4
  <2>10. CASE TuneOut
    <3>1. session' = "off" /\ joinedAt' = 0 /\ cursor' = 0 /\ plan' = NoPlan
      BY <2>10 DEF TuneOut
    <3> QED   BY <2>2, <3>1 DEF FeedInv, NoPlan, NoBlock
  <2> QED   BY <1>2, <2>4, <2>5, <2>6, <2>7, <2>8, <2>9, <2>10 DEF Feed
<1>3. CASE UNCHANGED programVars
  <2>1. UNCHANGED <<rows, timeline, pc, day, session, seeding, joinedAt, block, cursor, plan>>
    BY <1>3 DEF programVars, compilerVars, feedVars
  <2>2. Gathered'
    BY <2>1, GatheredStep DEF FeedInv
  <2> QED   BY <2>1, <2>2 DEF FeedInv, Compiled, NoPlan, NoBlock, Covers, End
<1> QED   BY <1>1, <1>2, <1>3 DEF ProgramNext

\* Tuning in.
LEMMA StartsStep ==
  ASSUME CompilerTyped, FeedInv, TuneInStarts, [ProgramNext]_programVars
  PROVE  TuneInStarts'
<1> SUFFICES ASSUME session' = "failed"
             PROVE  \/ (rest # <<>> /\ Head(rest).dur > Duration[Filler])'
                    \/ (\A d \in DOMAIN rows : \A i \in 1..(Len(rows[d]) - 1) :
                         End(rows[d][i]) = cursor /\ rows[d][i + 1].start = cursor
                           => Straddled(cursor))'
  BY DEF TuneInStarts
<1>1. CASE session = "failed"
  <2>1. Compiled
    BY <1>1 DEF FeedInv
  <2>2. UNCHANGED <<rows, session, rest, cursor>>
    BY <1>1, <2>1, CompiledRests DEF ProgramNext, Feed, TuneIn, KeepSegment, PickSpot,
       FillBreak, Fallback, TooLong, SeedFirst, SeedSecond, FeedNext, LookUp, TuneOut,
       InBreak, Filled, programVars, compilerVars, feedVars
  <2> QED   BY <1>1, <2>2 DEF TuneInStarts, Straddled, End
<1>2. CASE session # "failed"
  <2>1. Feed
    BY <1>2 DEF ProgramNext, programVars, feedVars
  <2>2. TooLong \/ SeedSecond \/ LookUp
    BY <2>1 DEF Feed, TuneIn, Fetch, KeepSegment, PickSpot, FillBreak, Fallback, SeedFirst,
       FeedNext, TuneOut, InBreak, Filled
  <2>3. rows' = rows
    BY <2>1, FeedRests DEF compilerVars
  <2>4. CASE TooLong
    BY <2>4 DEF TooLong, InBreak
  <2>5. CASE SeedSecond
    <3>1. /\ session = "filling" /\ seeding = "b" /\ block.start # cursor
               /\ cursor' = cursor
      BY <2>5 DEF SeedSecond, Filled, Apart
    <3>2. block \in Range(timeline) /\ Covers(block, cursor) /\ cursor \in Nat
      BY <3>1 DEF FeedInv
    <3>3. block.start < cursor /\ cursor < End(block)
      BY <3>1, <3>2, InMemory DEF Covers
    <3>4. \E d \in DOMAIN rows : block \in Range(rows[d])
      BY <3>2 DEF FeedInv, Gathered
    <3>5. Straddled(cursor)
      BY <3>3, <3>4 DEF Straddled
    <3>6. Straddled(cursor)'
      BY <2>3, <3>1, <3>5 DEF Straddled, End
    <3> QED   BY <3>6
  <2>6. CASE LookUp
    <3>1. ~Scheduled(cursor) /\ cursor' = cursor
      BY <2>6 DEF LookUp, Fetch
    <3>2. ASSUME NEW d \in DOMAIN rows, NEW i \in 1..(Len(rows[d]) - 1)
          PROVE  rows[d][i + 1].start # cursor
      <4>1. rows[d] \in Seq(Placed) /\ i + 1 \in DOMAIN rows[d]
        BY DEF CompilerTyped
      <4>2. rows[d][i + 1] \in Range(rows[d])
        BY <4>1 DEF Range
      <4>3. rows[d][i + 1] \in Range(timeline)
        BY <4>2 DEF FeedInv, Gathered
      <4> DEFINE b == rows[d][i + 1]
      <4> HIDE DEF b
      <4>4. b \in Range(timeline)
        BY <4>3 DEF b
      <4>5. ~Covers(b, cursor)
        BY <3>1, <4>4 DEF Scheduled, Range
      <4>6. b.start # cursor
        BY <4>4, <4>5, InMemory DEF Covers, End
      <4> QED   BY <4>6 DEF b
    <3> QED   BY <2>3, <3>1, <3>2
  <2> QED   BY <2>2, <2>4, <2>5, <2>6
<1> QED   BY <1>1, <1>2

-----------------------------------------------------------------------------
(* Segments, and the block that is joined in the middle.                   *)

\* A segment plays a part of an asset, is an empty break, or is black.
Segment ==
  {s \in [kind : {"content", "filler", "pad"}, asset : Assets \union {NoAsset},
          off : Nat, dur : Nat, fadeIn : BOOLEAN, fadeOut : BOOLEAN] :
     \/ IsBreak(s)
     \/ s.kind = "pad"
     \/ s.asset \in Assets /\ s.off + s.dur <= Duration[s.asset]}
\* What goes to AIR: everything but empty breaks.
Aired == {s \in Segment : ~IsBreak(s)}

\* The lengths of the segments of a list.
LEMMA DursAre ==
  ASSUME NEW s, s \in Seq(Segment)
  PROVE  /\ DursOf(s) \in Seq(Nat) /\ DursOf(s) \in Seq(Int)
         /\ Len(DursOf(s)) = Len(s) /\ Len(s) \in Nat
         /\ \A i \in DOMAIN s : s[i].dur \in Nat /\ DursOf(s)[i] = s[i].dur
<1> DEFINE n == Len(s)
<1>1. n \in Nat /\ DOMAIN s = 1..n
  OBVIOUS
<1>2. \A i \in 1..n : s[i] \in Segment
  OBVIOUS
<1>3. \A i \in 1..n : s[i].dur \in Nat
  BY <1>2 DEF Segment
<1>4. DursOf(s) = [i \in 1..n |-> s[i].dur]
  BY <1>1 DEF DursOf
<1> HIDE DEF n
<1>5. DursOf(s) \in [1..n -> Nat]
  BY <1>3, <1>4
<1>6. DursOf(s) \in Seq(Nat) /\ Len(DursOf(s)) = n
  BY <1>1, <1>5
<1> HIDE DEF DursOf
<1>7. DursOf(s) \in Seq(Int)
  BY <1>6
<1> QED   BY <1>1, <1>3, <1>4, <1>6, <1>7 DEF n

\* Where the segments of a list begin, and how they add up.
LEMMA BeforeIs ==
  ASSUME NEW s, s \in Seq(Segment)
  PROVE  LET T == Totals(DursOf(s)) IN
         /\ T[0] = 0 /\ Total(s) = T[Len(s)]
         /\ \A i \in 0..Len(s) : T[i] \in Nat
         /\ \A i \in 1..Len(s) : /\ Before(s, i) = T[i - 1]
                                 /\ T[i] = T[i - 1] + s[i].dur
         /\ \A i, j \in 0..Len(s) : i <= j => T[i] <= T[j]
<1>1. /\ DursOf(s) \in Seq(Nat) /\ DursOf(s) \in Seq(Int) /\ Len(DursOf(s)) = Len(s)
      /\ \A i \in 1..Len(s) : DursOf(s)[i] = s[i].dur
  BY DursAre
<1>2. /\ Totals(DursOf(s))[0] = 0
      /\ \A n \in 1..Len(s) : Totals(DursOf(s))[n] = Totals(DursOf(s))[n - 1] + DursOf(s)[n]
  BY <1>1, TotalsAre
<1>3. /\ \A i \in 0..Len(s) : Totals(DursOf(s))[i] \in Nat
      /\ \A i, j \in 0..Len(s) : i <= j => Totals(DursOf(s))[i] <= Totals(DursOf(s))[j]
  BY <1>1, TotalsGrow
<1> QED   BY <1>1, <1>2, <1>3 DEF Total, Before

\* The segment that is on at x.
LEMMA Airs ==
  ASSUME NEW s, s \in Seq(Segment), NEW i \in DOMAIN s, NEW x \in Nat,
         Before(s, i) <= x, x < Before(s, i) + s[i].dur
  PROVE  PlaysAt(s, x) = IF s[i].kind = "pad" THEN Black
                         ELSE <<s[i].asset, s[i].off + x - Before(s, i)>>
<1> DEFINE On(j) == Before(s, j) <= x /\ x < Before(s, j) + s[j].dur
           T == Totals(DursOf(s))
           j == CHOOSE j \in DOMAIN s : On(j)
<1>1. DOMAIN s = 1..Len(s) /\ Len(s) \in Nat
  OBVIOUS
<1>2. /\ \A n \in 0..Len(s) : T[n] \in Nat
      /\ \A n \in 1..Len(s) : Before(s, n) = T[n - 1] /\ T[n] = T[n - 1] + s[n].dur
      /\ \A n, m \in 0..Len(s) : n <= m => T[n] <= T[m]
  BY BeforeIs
<1> HIDE DEF T
<1>3. j \in DOMAIN s /\ On(j)
  OBVIOUS
<1>4. T[i - 1] <= x /\ x < T[i] /\ i - 1 \in 0..Len(s) /\ i \in 0..Len(s)
  BY <1>1, <1>2
<1>5. T[j - 1] <= x /\ x < T[j] /\ j - 1 \in 0..Len(s) /\ j \in 0..Len(s)
  <2> HIDE DEF j
  <2> QED   BY <1>1, <1>2, <1>3
<1>6. PlaysAt(s, x) = IF s[j].kind = "pad" THEN Black
                      ELSE <<s[j].asset, s[j].off + x - Before(s, j)>>
  BY DEF PlaysAt
<1> HIDE DEF j
<1>7. ~(i < j)
  <2> SUFFICES ASSUME i < j PROVE FALSE
    OBVIOUS
  <2>1. i <= j - 1
    BY <1>1, <1>3
  <2>2. T[i] <= T[j - 1] /\ T[i] \in Nat /\ T[j - 1] \in Nat
    BY <1>2, <1>4, <1>5, <2>1
  <2> QED   BY <1>4, <1>5, <2>2
<1>8. ~(j < i)
  <2> SUFFICES ASSUME j < i PROVE FALSE
    OBVIOUS
  <2>1. j <= i - 1
    BY <1>1, <1>3
  <2>2. T[j] <= T[i - 1] /\ T[j] \in Nat /\ T[i - 1] \in Nat
    BY <1>2, <1>4, <1>5, <2>1
  <2> QED   BY <1>4, <1>5, <2>2
<1>9. i = j
  BY <1>1, <1>3, <1>7, <1>8
<1> QED   BY <1>6, <1>9

\* At every time of a block one of its segments airs.
LEMMA SomethingAirs ==
  ASSUME NEW s, s \in Seq(Segment), NEW x \in Nat, x < Total(s)
  PROVE  \E i \in DOMAIN s : Before(s, i) <= x /\ x < Before(s, i) + s[i].dur
<1> DEFINE n == Len(s)
           T == Totals(DursOf(s))
           P == {i \in 0..n : T[i] <= x}
<1>1. n \in Nat /\ DOMAIN s = 1..n
  OBVIOUS
<1>2. /\ T[0] = 0 /\ x < T[n]
      /\ \A i \in 0..n : T[i] \in Nat
      /\ \A i \in 1..n : Before(s, i) = T[i - 1] /\ T[i] = T[i - 1] + s[i].dur
  BY BeforeIs
<1> HIDE DEF T
<1>3. P \subseteq 0..n /\ P # {}
  BY <1>1, <1>2
<1>4. PICK j \in P : \A i \in P : i <= j
  <2> HIDE DEF P, n
  <2> QED   BY <1>1, <1>3, Greatest
<1>10. j \in 0..n /\ T[j] <= x /\ \A i \in 0..n : T[i] <= x => i <= j
  BY <1>4
<1> HIDE DEF P, n
<1>5. j # n
  <2>1. T[n] \in Nat /\ n \in 0..n
    BY <1>1, <1>2
  <2> QED   BY <1>2, <1>10, <2>1
<1>6. j + 1 \in 1..n /\ (j + 1) - 1 = j /\ j + 1 \in 0..n
  BY <1>1, <1>5, <1>10
<1>7. ~(T[j + 1] <= x)
  BY <1>6, <1>10
<1>8. Before(s, j + 1) = T[j] /\ T[j] + s[j + 1].dur = T[j + 1] /\ T[j] <= x
  BY <1>2, <1>6, <1>10
<1>9. T[j + 1] > x
  BY <1>2, <1>6, <1>7
<1> QED   BY <1>1, <1>6, <1>8, <1>9

\* Consecutive numbers in ascending order.
LEMMA AscendingRun ==
  ASSUME NEW k \in Nat, NEW n \in Nat, k <= n
  PROVE  Ascending(k..n) = [j \in 1..(n - k + 1) |-> k - 1 + j]
<1> DEFINE S == k..n
<1>1. Cardinality(S) = n - k + 1
  BY FS_Interval
<1>2. \A x \in S : Cardinality({y \in S : y < x}) = x - k
  <2> SUFFICES ASSUME NEW x \in S
               PROVE  Cardinality({y \in S : y < x}) = x - k
    OBVIOUS
  <2>1. {y \in S : y < x} = k..(x - 1)
    OBVIOUS
  <2>2. Cardinality(k..(x - 1)) = IF k > x - 1 THEN 0 ELSE (x - 1) - k + 1
    BY FS_Interval
  <2>3. Cardinality({y \in S : y < x}) = Cardinality(k..(x - 1))
    BY <2>1
  <2> QED   BY <2>2, <2>3
<1>3. ASSUME NEW j \in 1..(n - k + 1)
      PROVE  (CHOOSE x \in S : Cardinality({y \in S : y < x}) = j - 1) = k - 1 + j
  <2>1. k - 1 + j \in S
    OBVIOUS
  <2>2. \A x \in S : Cardinality({y \in S : y < x}) = j - 1 <=> x = k - 1 + j
    BY <1>2
  <2> QED   BY <2>1, <2>2
<1> QED   BY <1>1, <1>3 DEF Ascending

\* Joining a block in progress changes nothing of what is left of it.
LEMMA JoinAgrees ==
  ASSUME NEW whole, whole \in Seq(Aired), NEW dur \in Nat, NEW skip \in Nat, skip < dur,
         Accepted(whole, dur)
  PROVE  LET cut == Joined(whole, skip, dur - skip) IN
         /\ Accepted(cut, dur - skip)
         /\ \A x \in skip..(dur - 1) : PlaysAt(cut, x - skip) = PlaysAt(whole, x)
<1> DEFINE n == Len(whole)
           T == Totals(DursOf(whole))
<1>1. n \in Nat /\ DOMAIN whole = 1..n /\ whole \in Seq(Segment)
  BY DEF Aired
<1>2. \A i \in 1..n : whole[i] \in Segment /\ ~IsBreak(whole[i])
  BY <1>1 DEF Aired
<1>3. /\ n > 0 /\ Total(whole) = dur
      /\ \A i \in 1..n : whole[i].dur > 0
      /\ \A i \in 1..n : whole[i].kind # "pad" => whole[i].off < Duration[whole[i].asset]
  BY <1>1 DEF Accepted
<1>4. /\ T[0] = 0 /\ T[n] = dur
      /\ \A i \in 0..n : T[i] \in Nat
      /\ \A i \in 1..n : Before(whole, i) = T[i - 1] /\ T[i] = T[i - 1] + whole[i].dur
      /\ \A i, j \in 0..n : i <= j => T[i] <= T[j]
  BY <1>1, <1>3, BeforeIs
<1>5. PICK k \in 1..n : T[k - 1] <= skip /\ skip < T[k]
  <2>1. PICK k \in DOMAIN whole : Before(whole, k) <= skip
               /\ skip < Before(whole, k) + whole[k].dur
    BY <1>1, <1>3, SomethingAirs
  <2> QED   BY <1>1, <1>4, <2>1
<1>6. \A i \in 1..n : whole[i].dur \in Nat
  BY <1>2 DEF Segment
<1> HIDE DEF T, n
<1>7. {i \in 1..n : whole[i].dur > 0 /\ Before(whole, i) + whole[i].dur > skip} = k..n
  <2>1. ASSUME NEW i \in k..n
        PROVE  i \in 1..n /\ whole[i].dur > 0 /\ Before(whole, i) + whole[i].dur > skip
    <3>1. i \in 1..n /\ k \in 0..n /\ i \in 0..n /\ k <= i
      BY <1>1, <1>5
    <3>2. T[k] <= T[i] /\ T[i] \in Nat /\ T[k] \in Nat
      BY <1>4, <3>1
    <3>3. T[i] > skip
      BY <1>5, <3>2
    <3> QED   BY <1>3, <1>4, <3>1, <3>3
  <2>2. ASSUME NEW i \in 1..n, Before(whole, i) + whole[i].dur > skip
        PROVE  i \in k..n
    <3>0. k - 1 \in 0..n /\ i \in 0..n
      BY <1>1, <1>5
    <3>1. T[i] > skip /\ T[i] \in Nat /\ T[k - 1] \in Nat /\ k - 1 \in 0..n /\ i \in 0..n
      <4>1. T[i] = Before(whole, i) + whole[i].dur
        BY <1>4
      <4> QED   BY <1>4, <2>2, <3>0, <4>1
    <3>2. ~(i <= k - 1)
      <4> SUFFICES ASSUME i <= k - 1 PROVE FALSE
        OBVIOUS
      <4>1. T[i] <= T[k - 1]
        BY <1>4, <3>1
      <4> QED   BY <1>5, <3>1, <4>1
    <3> QED   BY <1>1, <3>2
  <2> QED   BY <2>1, <2>2
<1> DEFINE m == n - k + 1
           kept == Ascending(k..n)
           left == [j \in DOMAIN kept |-> Trimmed(whole, kept[j], skip)]
<1>8. m \in Nat /\ m >= 1 /\ kept = [j \in 1..m |-> k - 1 + j]
      /\ \A j \in 1..m : k - 1 + j \in 1..n
  BY <1>1, <1>5, AscendingRun
<1>9. left = [j \in 1..m |-> Trimmed(whole, k - 1 + j, skip)]
  BY <1>8
<1>10. Joined(whole, skip, dur - skip)
        = LET gap == (dur - skip) - Total(left)
          IN IF gap <= 0 THEN left
             ELSE IF left # <<>> /\ Last(left).kind = "pad"
             THEN [left EXCEPT ![Len(left)].dur = @ + gap]
             ELSE Append(left, Pad(gap))
  BY <1>1, <1>7 DEF Joined, n
<1> HIDE DEF m, kept, left
<1> DEFINE cut(j) == IF j = 1 THEN skip - T[k - 1] ELSE 0
<1>11. \A j \in 1..m : (IF skip > Before(whole, k - 1 + j) THEN skip - Before(whole, k - 1 + j)
                                                           ELSE 0) = cut(j)
  <2> SUFFICES ASSUME NEW j \in 1..m
               PROVE  (IF skip > Before(whole, k - 1 + j) THEN skip - Before(whole, k - 1 + j)
                                                          ELSE 0) = cut(j)
    OBVIOUS
  <2>1. k - 1 + j \in 1..n
    BY <1>8
  <2>2. Before(whole, k - 1 + j) = T[(k - 1 + j) - 1]
    BY <1>4, <2>1
  <2>3. CASE j = 1
    <3>1. (k - 1 + j) - 1 = k - 1 /\ T[k - 1] \in Nat
      BY <1>1, <1>4, <1>5, <2>3
    <3> QED   BY <1>5, <2>2, <2>3, <3>1
  <2>4. CASE j # 1
    <3>1. (k - 1 + j) - 1 \in 0..n /\ k \in 0..n /\ k <= (k - 1 + j) - 1
      BY <1>1, <1>8, <2>1, <2>4
    <3>2. T[k] <= T[(k - 1 + j) - 1] /\ T[k] \in Nat /\ T[(k - 1 + j) - 1] \in Nat
      BY <1>4, <3>1
    <3> QED   BY <1>5, <2>2, <2>4, <3>2
  <2> QED   BY <2>3, <2>4
<1>12. \A j \in 1..m : cut(j) \in Nat /\ cut(j) < whole[k - 1 + j].dur
  <2> SUFFICES ASSUME NEW j \in 1..m
               PROVE  cut(j) \in Nat /\ cut(j) < whole[k - 1 + j].dur
    OBVIOUS
  <2>1. k - 1 + j \in 1..n
    BY <1>8
  <2>2. CASE j = 1
    <3>1. k - 1 + j = k /\ T[k] = T[k - 1] + whole[k].dur /\ T[k - 1] \in Nat
            /\ T[k] \in Nat
          /\ whole[k].dur \in Nat
      BY <1>1, <1>4, <1>5, <1>6, <2>2
    <3> QED   BY <1>5, <2>2, <3>1
  <2>3. CASE j # 1
    BY <1>3, <1>6, <2>1, <2>3
  <2> QED   BY <2>2, <2>3
<1>13. ASSUME NEW j \in 1..m
       PROVE  /\ left[j] \in Segment /\ ~IsBreak(left[j])
              /\ left[j].dur = whole[k - 1 + j].dur - cut(j) /\ left[j].dur > 0
              /\ left[j].kind = whole[k - 1 + j].kind
                   /\ left[j].asset = whole[k - 1 + j].asset
              /\ left[j].kind # "pad" => /\ left[j].off = whole[k - 1 + j].off + cut(j)
                                         /\ left[j].off < Duration[left[j].asset]
  <2> DEFINE w == whole[k - 1 + j]
             c == cut(j)
  <2>1. k - 1 + j \in 1..n
    BY <1>8
  <2>2. w \in Segment /\ ~IsBreak(w) /\ c \in Nat /\ c < w.dur
    BY <1>2, <1>12, <2>1
  <2>3. left[j] = [w EXCEPT !.dur = @ - c, !.off = IF w.asset = NoAsset THEN @ ELSE @ + c]
    BY <1>9, <1>11 DEF Trimmed
  <2> HIDE DEF w, c, cut
  <2>4. /\ w = [kind |-> w.kind, asset |-> w.asset, off |-> w.off, dur |-> w.dur,
                fadeIn |-> w.fadeIn, fadeOut |-> w.fadeOut]
        /\ w.kind \in {"content", "filler", "pad"} /\ w.asset \in Assets \union {NoAsset}
        /\ w.off \in Nat /\ w.dur \in Nat /\ w.fadeIn \in BOOLEAN /\ w.fadeOut \in BOOLEAN
        /\ w.kind = "pad" \/ (w.asset \in Assets /\ w.off + w.dur <= Duration[w.asset])
    BY <2>2 DEF Segment
  <2> DEFINE o == IF w.asset = NoAsset THEN w.off ELSE w.off + c
  <2>5. left[j] = [kind |-> w.kind, asset |-> w.asset, off |-> o, dur |-> w.dur - c,
                   fadeIn |-> w.fadeIn, fadeOut |-> w.fadeOut]
    BY <2>3, <2>4
  <2>6. o \in Nat /\ w.dur - c \in Nat /\ w.dur - c > 0
    BY <2>2, <2>4
  <2>7. w.kind # "pad" => /\ w.asset \in Assets /\ o = w.off + c
                          /\ o + (w.dur - c) <= Duration[w.asset]
                          /\ Duration[w.asset] \in Nat
    <3>1. NoAsset \notin Assets
      BY SegmentAssumption DEF Assets
    <3>2. ASSUME w.kind # "pad"
          PROVE  w.asset \in Assets /\ o = w.off + c /\ w.off + w.dur <= Duration[w.asset]
                 /\ Duration[w.asset] \in Nat
      <4>1. w.asset \in Assets /\ w.off + w.dur <= Duration[w.asset]
        BY <2>4, <3>2
      <4>2. Duration[w.asset] \in Nat
        BY <4>1, Durations
      <4> QED   BY <3>1, <4>1, <4>2
    <3> HIDE DEF o
    <3>3. ASSUME w.kind # "pad"
          PROVE  o + (w.dur - c) <= Duration[w.asset]
      BY <2>2, <2>4, <3>2, <3>3
    <3> QED   BY <3>2, <3>3
  <2> HIDE DEF o
  <2>8. /\ left[j].kind = w.kind /\ left[j].asset = w.asset /\ left[j].off = o
        /\ left[j].dur = w.dur - c
    BY <2>5
  <2>9. left[j] \in Segment
    BY <2>4, <2>5, <2>6, <2>7 DEF Segment
  <2>10. ~IsBreak(left[j])
    BY <2>2, <2>8 DEF IsBreak
  <2>11. w.kind # "pad" => o < Duration[w.asset]
    BY <2>2, <2>4, <2>6, <2>7, SMTT(30)
  <2> QED   BY <2>6, <2>7, <2>8, <2>9, <2>10, <2>11 DEF w, c
<1>14. /\ left \in Seq(Segment) /\ Len(left) = m /\ DOMAIN left = 1..m /\ left # <<>>
  <2>1. left \in [1..m -> Segment]
    BY <1>9, <1>13
  <2>2. left \in Seq(Segment) /\ Len(left) = m /\ DOMAIN left = 1..m
    BY <1>8, <2>1
  <2> QED   BY <1>8, <2>2
<1> DEFINE L == Totals(DursOf(left))
<1>15. /\ L[0] = 0 /\ Total(left) = L[m]
       /\ \A j \in 0..m : L[j] \in Nat
       /\ \A j \in 1..m : Before(left, j) = L[j - 1] /\ L[j] = L[j - 1] + left[j].dur
  BY <1>14, BeforeIs
<1> HIDE DEF L
<1>16. \A j \in 1..m : L[j] = T[k - 1 + j] - skip
  <2> DEFINE I == {j \in Nat : j + 1 <= m => L[j + 1] = T[k - 1 + (j + 1)] - skip}
  <2>1. 0 \in I
    <3>1. 1 \in 1..m /\ k - 1 + 1 = k /\ k \in 1..n
      BY <1>1, <1>5, <1>8
    <3>2. L[1] = L[0] + left[1].dur /\ left[1].dur = whole[k].dur - cut(1)
      BY <1>13, <1>15, <3>1
    <3>3. T[k] = T[k - 1] + whole[k].dur /\ T[k - 1] \in Nat /\ whole[k].dur \in Nat
      BY <1>1, <1>4, <1>5, <1>6, <3>1
    <3> QED   BY <1>15, <3>1, <3>2, <3>3
  <2>2. ASSUME NEW j \in Nat, j \in I
        PROVE  j + 1 \in I
    <3> SUFFICES ASSUME (j + 1) + 1 <= m
                 PROVE  L[(j + 1) + 1] = T[k - 1 + ((j + 1) + 1)] - skip
      OBVIOUS
    <3>1. (j + 1) + 1 \in 1..m /\ ((j + 1) + 1) - 1 = j + 1 /\ (j + 1) + 1 # 1
          /\ (k - 1 + ((j + 1) + 1)) - 1 = k - 1 + (j + 1)
      BY <1>8
    <3>2. k - 1 + ((j + 1) + 1) \in 1..n /\ k - 1 + (j + 1) \in 0..n
      <4>1. k - 1 + ((j + 1) + 1) \in 1..n
        BY <1>8, <3>1
      <4>2. k - 1 + (j + 1) \in Nat /\ k - 1 + (j + 1) <= k - 1 + ((j + 1) + 1)
        BY <1>5
      <4> QED   BY <1>1, <4>1, <4>2
    <3>3. L[(j + 1) + 1] = L[j + 1] + left[(j + 1) + 1].dur
      BY <1>15, <3>1
    <3>4. left[(j + 1) + 1].dur = whole[k - 1 + ((j + 1) + 1)].dur
      <4>1. left[(j + 1) + 1].dur
              = whole[k - 1 + ((j + 1) + 1)].dur - cut((j + 1) + 1)
        BY <1>13, <3>1
      <4>2. cut((j + 1) + 1) = 0 /\ whole[k - 1 + ((j + 1) + 1)].dur \in Nat
        BY <1>6, <3>1, <3>2
      <4> QED   BY <4>1, <4>2
    <3>5. T[k - 1 + ((j + 1) + 1)] = T[k - 1 + (j + 1)] + whole[k - 1 + ((j + 1) + 1)].dur
      BY <1>4, <3>1, <3>2
    <3>6. L[j + 1] = T[k - 1 + (j + 1)] - skip
      BY <1>8, <2>2
    <3>7. T[k - 1 + (j + 1)] \in Nat /\ whole[k - 1 + ((j + 1) + 1)].dur \in Nat
      BY <1>4, <1>6, <3>2
    <3> QED   BY <3>3, <3>4, <3>5, <3>6, <3>7
  <2> HIDE DEF I
  <2>3. \A j \in Nat : j \in I
    BY <2>1, <2>2, NatInduct
  <2> SUFFICES ASSUME NEW j \in 1..m PROVE L[j] = T[k - 1 + j] - skip
    OBVIOUS
  <2>4. j - 1 \in Nat /\ (j - 1) + 1 = j /\ (j - 1) + 1 <= m
    BY <1>8
  <2>5. j - 1 \in I
    BY <2>3, <2>4
  <2> QED   BY <2>4, <2>5 DEF I
<1>17. Total(left) = dur - skip
  <2>1. m \in 1..m /\ k - 1 + m = n
    BY <1>1, <1>5, <1>8 DEF m
  <2> QED   BY <1>4, <1>15, <1>16, <2>1
<1>18. Joined(whole, skip, dur - skip) = left
  <2>1. (dur - skip) - Total(left) = 0
    BY <1>17
  <2> QED   BY <1>10, <2>1
<1>19. Accepted(left, dur - skip)
  <2>1. dur - skip > 0
    OBVIOUS
  <2> QED   BY <1>13, <1>14, <1>17, <2>1 DEF Accepted
<1>20. ASSUME NEW x \in skip..(dur - 1)
       PROVE  PlaysAt(left, x - skip) = PlaysAt(whole, x)
  <2>1. x \in Nat /\ x < dur /\ x >= skip /\ x - skip \in Nat
    OBVIOUS
  <2>2. PICK i \in DOMAIN whole : Before(whole, i) <= x
               /\ x < Before(whole, i) + whole[i].dur
    BY <1>1, <1>3, <2>1, SomethingAirs
  <2>3. PlaysAt(whole, x) = IF whole[i].kind = "pad" THEN Black
                            ELSE <<whole[i].asset, whole[i].off + x - Before(whole, i)>>
    BY <1>1, <2>1, <2>2, Airs
  <2>4. i \in 1..n /\ T[i - 1] <= x /\ x < T[i] /\ i - 1 \in 0..n /\ i \in 0..n
        /\ Before(whole, i) = T[i - 1]
    BY <1>1, <1>4, <2>2
  <2>5. i >= k
    <3> SUFFICES ASSUME ~(i >= k) PROVE FALSE
      OBVIOUS
    <3>1. i <= k - 1 /\ k - 1 \in 0..n
      BY <1>1, <1>5, <2>4
    <3>2. T[i] <= T[k - 1] /\ T[i] \in Nat /\ T[k - 1] \in Nat
      BY <1>4, <2>4, <3>1
    <3> QED   BY <1>5, <2>1, <2>4, <3>2
  <2> DEFINE j == i - k + 1
  <2>6. j \in 1..m /\ k - 1 + j = i /\ (j # 1 => j - 1 \in 1..m /\ k - 1 + (j - 1) = i - 1)
        /\ (j = 1 => i = k)
    <3>1. i \in Nat /\ k \in Nat /\ n \in Nat /\ 1 <= k /\ k <= i /\ i <= n
      BY <1>1, <1>5, <2>4, <2>5
    <3>2. j \in 1..m /\ k - 1 + j = i
      BY <3>1 DEF m
    <3>3. j # 1 => j - 1 \in 1..m /\ k - 1 + (j - 1) = i - 1
      BY <3>1 DEF m
    <3>4. j = 1 => i = k
      BY <3>1
    <3> QED   BY <3>2, <3>3, <3>4
  <2> HIDE DEF j
  <2>7. Before(left, j) = L[j - 1] /\ L[j] = L[j - 1] + left[j].dur /\ L[j] = T[i] - skip
    BY <1>15, <1>16, <2>6
  <2>8. L[j - 1] = T[i - 1] - skip + cut(j)
    <3>1. T[i - 1] \in Nat
      BY <1>4, <2>4
    <3>2. CASE j = 1
      BY <1>15, <2>6, <3>1, <3>2
    <3>3. CASE j # 1
      <4>1. L[j - 1] = T[k - 1 + (j - 1)] - skip
        BY <1>16, <2>6, <3>3
      <4> QED   BY <2>6, <3>1, <3>3, <4>1
    <3> QED   BY <3>2, <3>3
  <2>9. T[i - 1] \in Nat /\ T[i] \in Nat /\ cut(j) \in Nat
    BY <1>4, <1>12, <2>4, <2>6
  <2>10. L[j - 1] <= x - skip
    <3>1. CASE j = 1
      BY <1>15, <2>1, <3>1
    <3>2. CASE j # 1
      <4>1. L[j - 1] = T[i - 1] - skip
        BY <2>8, <2>9, <3>2
      <4> QED   BY <2>1, <2>4, <2>9, <4>1
    <3> QED   BY <3>1, <3>2
  <2>11. x - skip < L[j - 1] + left[j].dur
    BY <2>1, <2>4, <2>7, <2>9
  <2>12. PlaysAt(left, x - skip) = IF left[j].kind = "pad" THEN Black
                  ELSE <<left[j].asset, left[j].off + (x - skip) - Before(left, j)>>
    BY <1>14, <2>1, <2>6, <2>7, <2>10, <2>11, Airs
  <2>13. /\ left[j].kind = whole[i].kind /\ left[j].asset = whole[i].asset
         /\ left[j].kind # "pad" => left[j].off = whole[i].off + cut(j)
    BY <1>13, <2>6
  <2>14. whole[i].off \in Nat
    BY <1>2, <2>4 DEF Segment
  <2>15. left[j].kind # "pad" =>
           left[j].off + (x - skip) - Before(left, j) = whole[i].off + x - Before(whole, i)
    <3> SUFFICES ASSUME left[j].kind # "pad"
                 PROVE  left[j].off + (x - skip) - Before(left, j)
                          = whole[i].off + x - Before(whole, i)
      OBVIOUS
    <3> DEFINE c == cut(j)
    <3>1. /\ left[j].off = whole[i].off + c /\ Before(left, j) = T[i - 1] - skip + c
          /\ Before(whole, i) = T[i - 1] /\ c \in Nat
      BY <2>4, <2>7, <2>8, <2>9, <2>13
    <3> DEFINE in == T[i - 1]
               off == whole[i].off
    <3>2. c \in Int /\ in \in Int /\ off \in Int /\ x \in Int /\ skip \in Int
      BY <2>1, <2>9, <2>14, <3>1
    <3> HIDE DEF c, in, off
    <3>3. (off + c) + (x - skip) - (in - skip + c) = off + x - in
      BY <3>2
    <3> QED   BY <3>1, <3>3 DEF in, off
  <2> QED   BY <2>3, <2>12, <2>13, <2>15
<1> QED   BY <1>18, <1>19, <1>20

-----------------------------------------------------------------------------
(* Acts, fades and lists of segments one after the other.                  *)

\* What the acts of s last, and how they fade.
ActDurs(s) == [i \in DOMAIN s |-> IF s[i].kind = "content" THEN s[i].dur ELSE 0]
Acts(s) == Totals(ActDurs(s))
Fades(s, n) ==
  \E j \in 1..n : /\ s[j].kind = "content" /\ s[j].fadeOut
                  /\ \A k \in (j + 1)..n : s[k].kind # "content"
CutFrom(s, asset) ==
  \A i \in DOMAIN s : s[i].kind = "content" =>
    /\ s[i].asset = asset /\ s[i].off = Acts(s)[i - 1]
    /\ s[i].fadeIn => Fades(s, i - 1)

\* The lengths of the acts of a list.
LEMMA ActDursAre ==
  ASSUME NEW s, s \in Seq(Segment)
  PROVE  /\ ActDurs(s) \in Seq(Nat) /\ ActDurs(s) \in Seq(Int)
         /\ Len(ActDurs(s)) = Len(s) /\ Len(s) \in Nat
<1> DEFINE n == Len(s)
<1>1. n \in Nat /\ DOMAIN s = 1..n
  OBVIOUS
<1>2. \A i \in 1..n : s[i] \in Segment
  OBVIOUS
<1>3. \A i \in 1..n : (IF s[i].kind = "content" THEN s[i].dur ELSE 0) \in Nat
  BY <1>2 DEF Segment
<1>4. ActDurs(s) = [i \in 1..n |-> IF s[i].kind = "content" THEN s[i].dur ELSE 0]
  BY <1>1 DEF ActDurs
<1> HIDE DEF n
<1>5. ActDurs(s) \in [1..n -> Nat]
  BY <1>3, <1>4
<1>6. ActDurs(s) \in Seq(Nat) /\ Len(ActDurs(s)) = n
  BY <1>1, <1>5
<1> HIDE DEF ActDurs
<1>7. ActDurs(s) \in Seq(Int)
  BY <1>6
<1> QED   BY <1>1, <1>6, <1>7 DEF n

\* The lengths, the acts and the fades of two lists one after the other.
LEMMA Joining ==
  ASSUME NEW s, s \in Seq(Segment), NEW t, t \in Seq(Segment)
  PROVE  LET u == s \o t IN
         /\ u \in Seq(Segment) /\ Len(u) = Len(s) + Len(t) /\ Len(s) \in Nat
              /\ Len(t) \in Nat
         /\ Total(u) = Total(s) + Total(t) /\ Total(s) \in Nat /\ Total(t) \in Nat
         /\ \A i \in 0..Len(s) : Acts(u)[i] = Acts(s)[i]
         /\ \A i \in 0..Len(t) : Acts(u)[Len(s) + i] = Acts(s)[Len(s)] + Acts(t)[i]
         /\ \A i \in 0..Len(s) : Acts(s)[i] \in Nat
         /\ \A i \in 0..Len(s) : Fades(u, i) <=> Fades(s, i)
<1> DEFINE m == Len(s)
           n == Len(t)
           u == s \o t
<1>1. /\ m \in Nat /\ n \in Nat /\ u \in Seq(Segment) /\ Len(u) = m + n
      /\ \A i \in 1..m : u[i] = s[i]
      /\ \A i \in 1..n : u[m + i] = t[i]
      /\ DOMAIN s = 1..m /\ DOMAIN t = 1..n /\ DOMAIN u = 1..(m + n)
  OBVIOUS
<1> HIDE DEF u
<1> DEFINE A == DursOf(s)
           B == DursOf(t)
           C == DursOf(u)
<1>2. /\ A \in Seq(Int) /\ Len(A) = m /\ B \in Seq(Int) /\ Len(B) = n
      /\ C \in Seq(Int) /\ Len(C) = m + n
      /\ \A i \in 1..m : A[i] = s[i].dur
      /\ \A i \in 1..n : B[i] = t[i].dur
      /\ \A i \in 1..(m + n) : C[i] = u[i].dur
  BY <1>1, DursAre
<1> HIDE DEF m, n
<1>3. (\A i \in 1..m : i \in 1..(m + n)) /\ (\A i \in 1..n : m + i \in 1..(m + n))
  BY <1>1
<1>4. Total(u) = Total(s) + Total(t)
  <2> HIDE DEF A, B, C
  <2>1. \A i \in 1..Len(A) : C[i] = A[i]
    <3>1. ASSUME NEW i \in 1..m PROVE C[i] = A[i]
      <4>1. u[i] = s[i] /\ i \in 1..(m + n)
        BY <1>1, <1>3
      <4>2. C[i] = u[i].dur /\ A[i] = s[i].dur
        BY <1>2, <4>1
      <4> QED   BY <4>1, <4>2
    <3> QED   BY <1>2, <3>1
  <2>5. \A i \in 1..Len(B) : C[Len(A) + i] = B[i]
    <3>1. ASSUME NEW i \in 1..n PROVE C[m + i] = B[i]
      <4>1. u[m + i] = t[i] /\ m + i \in 1..(m + n)
        BY <1>1, <1>3
      <4>2. C[m + i] = u[m + i].dur /\ B[i] = t[i].dur
        BY <1>2, <4>1
      <4> QED   BY <4>1, <4>2
    <3> QED   BY <1>2, <3>1
  <2>6. m \in Nat /\ n \in Nat
    BY <1>1
  <2>7. A \in Seq(Int) /\ B \in Seq(Int) /\ C \in Seq(Int) /\ Len(C) = Len(A) + Len(B)
    BY <1>2
  <2>8. \A i \in 0..Len(B) : Totals(C)[Len(A) + i] = Totals(A)[Len(A)] + Totals(B)[i]
    <3>1. (/\ Len(C) = Len(A) + Len(B) /\ \A i \in 1..Len(A) : C[i] = A[i]
           /\ \A i \in 1..Len(B) : C[Len(A) + i] = B[i])
          => (/\ \A i \in 0..Len(A) : Totals(C)[i] = Totals(A)[i]
              /\ \A i \in 0..Len(B) :
                   Totals(C)[Len(A) + i] = Totals(A)[Len(A)] + Totals(B)[i])
      BY <2>7, TotalsSplit
    <3> QED   BY <2>1, <2>5, <2>7, <3>1
  <2>2. \A i \in 0..n : Totals(C)[m + i] = Totals(A)[m] + Totals(B)[i]
    BY <1>2, <2>8
  <2>3. Totals(C)[m + n] = Totals(A)[m] + Totals(B)[n]
    BY <2>2, <2>6
  <2>4. Total(u) = Totals(C)[m + n] /\ Total(s) = Totals(A)[m] /\ Total(t) = Totals(B)[n]
    BY <1>1 DEF Total, A, B, C, m, n
  <2> QED   BY <2>3, <2>4
<1>5. Total(s) \in Nat /\ Total(t) \in Nat
  BY <1>1, BeforeIs
<1> DEFINE X == ActDurs(s)
           Y == ActDurs(t)
           Z == ActDurs(u)
<1>6. /\ X \in Seq(Int) /\ Len(X) = m /\ Y \in Seq(Int) /\ Len(Y) = n /\ X \in Seq(Nat)
      /\ Z \in Seq(Int) /\ Len(Z) = m + n
  BY <1>1, ActDursAre DEF m, n
<1>7. /\ \A i \in 1..m : X[i] = IF s[i].kind = "content" THEN s[i].dur ELSE 0
      /\ \A i \in 1..n : Y[i] = IF t[i].kind = "content" THEN t[i].dur ELSE 0
      /\ \A i \in 1..(m + n) : Z[i] = IF u[i].kind = "content" THEN u[i].dur ELSE 0
  BY <1>1 DEF ActDurs
<1>8. /\ \A i \in 0..m : Acts(u)[i] = Acts(s)[i]
      /\ \A i \in 0..n : Acts(u)[m + i] = Acts(s)[m] + Acts(t)[i]
  <2> HIDE DEF X, Y, Z
  <2>1. \A i \in 1..Len(X) : Z[i] = X[i]
    <3>1. ASSUME NEW i \in 1..m PROVE Z[i] = X[i]
      <4>1. u[i] = s[i] /\ i \in 1..(m + n)
        BY <1>1, <1>3
      <4>2. /\ Z[i] = IF u[i].kind = "content" THEN u[i].dur ELSE 0
            /\ X[i] = IF s[i].kind = "content" THEN s[i].dur ELSE 0
        BY <1>7, <4>1
      <4> QED   BY <4>1, <4>2
    <3> QED   BY <1>6, <3>1
  <2>5. \A i \in 1..Len(Y) : Z[Len(X) + i] = Y[i]
    <3>1. ASSUME NEW i \in 1..n PROVE Z[m + i] = Y[i]
      <4>1. u[m + i] = t[i] /\ m + i \in 1..(m + n)
        BY <1>1, <1>3
      <4>2. /\ Z[m + i] = IF u[m + i].kind = "content" THEN u[m + i].dur ELSE 0
            /\ Y[i] = IF t[i].kind = "content" THEN t[i].dur ELSE 0
        BY <1>7, <4>1
      <4> QED   BY <4>1, <4>2
    <3> QED   BY <1>6, <3>1
  <2>7. X \in Seq(Int) /\ Y \in Seq(Int) /\ Z \in Seq(Int) /\ Len(Z) = Len(X) + Len(Y)
    BY <1>6
  <2>8. /\ \A i \in 0..Len(X) : Totals(Z)[i] = Totals(X)[i]
        /\ \A i \in 0..Len(Y) : Totals(Z)[Len(X) + i] = Totals(X)[Len(X)] + Totals(Y)[i]
    <3>1. (/\ Len(Z) = Len(X) + Len(Y) /\ \A i \in 1..Len(X) : Z[i] = X[i]
           /\ \A i \in 1..Len(Y) : Z[Len(X) + i] = Y[i])
          => (/\ \A i \in 0..Len(X) : Totals(Z)[i] = Totals(X)[i]
              /\ \A i \in 0..Len(Y) :
                   Totals(Z)[Len(X) + i] = Totals(X)[Len(X)] + Totals(Y)[i])
      BY <2>7, TotalsSplit
    <3> QED   BY <2>1, <2>5, <2>7, <3>1
  <2>2. /\ \A i \in 0..m : Totals(Z)[i] = Totals(X)[i]
        /\ \A i \in 0..n : Totals(Z)[m + i] = Totals(X)[m] + Totals(Y)[i]
    BY <1>6, <2>8
  <2>3. Acts(u) = Totals(Z) /\ Acts(s) = Totals(X) /\ Acts(t) = Totals(Y)
    BY DEF Acts, X, Y, Z
  <2> QED   BY <1>6, <2>2, <2>3
<1>9. \A i \in 0..m : Acts(s)[i] \in Nat
  BY <1>6, TotalsGrow DEF Acts
<1>10. ASSUME NEW i \in 0..m
       PROVE  Fades(u, i) <=> Fades(s, i)
  <2>1. \A j \in 1..i : j \in 1..m /\ \A k \in (j + 1)..i : k \in 1..m
    BY <1>1
  <2> QED   BY <1>1, <2>1, SMTT(30) DEF Fades
<1> QED   BY <1>1, <1>4, <1>5, <1>8, <1>9, <1>10 DEF u, m, n

\* Breaks, spots and pads leave the acts as they are.
LEMMA AddPlain ==
  ASSUME NEW s, s \in Seq(Segment), NEW t, t \in Seq(Segment), NEW asset, CutFrom(s, asset),
         \A i \in DOMAIN t : t[i].kind # "content"
  PROVE  LET u == s \o t IN
         /\ CutFrom(u, asset) /\ Acts(u)[Len(u)] = Acts(s)[Len(s)]
         /\ Fades(s, Len(s)) => Fades(u, Len(u))
<1> DEFINE m == Len(s)
           n == Len(t)
           u == s \o t
<1>1. /\ m \in Nat /\ n \in Nat /\ u \in Seq(Segment) /\ Len(u) = m + n
      /\ \A i \in 1..m : u[i] = s[i]
      /\ \A i \in 1..n : u[m + i] = t[i]
      /\ DOMAIN s = 1..m /\ DOMAIN t = 1..n /\ DOMAIN u = 1..(m + n)
  OBVIOUS
<1> HIDE DEF u
<1>2. /\ \A i \in 0..m : Acts(u)[i] = Acts(s)[i]
      /\ \A i \in 0..n : Acts(u)[m + i] = Acts(s)[m] + Acts(t)[i]
      /\ \A i \in 0..m : Acts(s)[i] \in Nat
      /\ \A i \in 0..m : Fades(u, i) <=> Fades(s, i)
  BY Joining DEF u
<1>3. ActDurs(t) = [i \in 1..n |-> 0]
  BY <1>1 DEF ActDurs
<1>4. \A i \in 0..n : Acts(t)[i] = 0
  <2> DEFINE I == {i \in Nat : i <= n => Acts(t)[i] = 0}
  <2>0. ActDurs(t) \in Seq(Int) /\ Len(ActDurs(t)) = n
    BY ActDursAre
  <2>1. /\ Acts(t)[0] = 0
        /\ \A i \in 1..n : Acts(t)[i] = Acts(t)[i - 1] + ActDurs(t)[i]
    BY <2>0, TotalsAre DEF Acts
  <2>2. \A i \in 1..n : ActDurs(t)[i] = 0
    BY <1>3
  <2> HIDE DEF n
  <2>3. 0 \in I
    BY <2>1
  <2>4. ASSUME NEW i \in Nat, i \in I
        PROVE  i + 1 \in I
    <3> SUFFICES ASSUME i + 1 <= n PROVE Acts(t)[i + 1] = 0
      OBVIOUS
    <3>1. i + 1 \in 1..n /\ (i + 1) - 1 = i
      BY <1>1
    <3>2. Acts(t)[i] = 0
      BY <1>1, <2>4
    <3>3. Acts(t)[i + 1] = Acts(t)[i] + ActDurs(t)[i + 1] /\ ActDurs(t)[i + 1] = 0
      BY <2>1, <2>2, <3>1
    <3> QED   BY <3>2, <3>3
  <2> HIDE DEF I
  <2>5. \A i \in Nat : i \in I
    BY <2>3, <2>4, NatInduct
  <2> QED   BY <1>1, <2>5 DEF I
<1> HIDE DEF n, m
<1>5. Acts(u)[m + n] = Acts(s)[m]
  BY <1>1, <1>2, <1>4
<1>6. ASSUME NEW i \in 1..(m + n), u[i].kind = "content"
      PROVE  /\ u[i].asset = asset /\ u[i].off = Acts(u)[i - 1]
             /\ u[i].fadeIn => Fades(u, i - 1)
  <2>1. i \in 1..m
    <3> SUFFICES ASSUME i \notin 1..m PROVE FALSE
      OBVIOUS
    <3>1. i - m \in 1..n /\ m + (i - m) = i
      BY <1>1
    <3> QED   BY <1>1, <1>6, <3>1
  <2>2. u[i] = s[i] /\ i \in DOMAIN s /\ i - 1 \in 0..m
    BY <1>1, <2>1
  <2>3. /\ s[i].asset = asset /\ s[i].off = Acts(s)[i - 1]
        /\ s[i].fadeIn => Fades(s, i - 1)
    BY <1>6, <2>2 DEF CutFrom
  <2> QED   BY <1>2, <2>2, <2>3
<1>7. CutFrom(u, asset)
  BY <1>1, <1>6 DEF CutFrom
<1>8. ASSUME Fades(s, m)
      PROVE  Fades(u, m + n)
  <2>1. PICK j \in 1..m : /\ s[j].kind = "content" /\ s[j].fadeOut
                          /\ \A k \in (j + 1)..m : s[k].kind # "content"
    BY <1>8 DEF Fades
  <2>2. j \in 1..(m + n) /\ u[j] = s[j]
    BY <1>1
  <2>3. ASSUME NEW k \in (j + 1)..(m + n)
        PROVE  u[k].kind # "content"
    <3>1. CASE k <= m
      <4>1. k \in 1..m /\ k \in (j + 1)..m
        BY <1>1, <3>1
      <4> QED   BY <1>1, <2>1, <4>1
    <3>2. CASE ~(k <= m)
      <4>1. k - m \in 1..n /\ m + (k - m) = k
        BY <1>1, <3>2
      <4> QED   BY <1>1, <4>1
    <3> QED   BY <3>1, <3>2
  <2> QED   BY <2>1, <2>2, <2>3 DEF Fades
<1> QED   BY <1>1, <1>5, <1>7, <1>8 DEF u, m

\* The next act.
LEMMA AddAct ==
  ASSUME NEW s, s \in Seq(Segment), NEW a \in Segment, NEW asset, CutFrom(s, asset),
         a.kind = "content", a.asset = asset, a.off = Acts(s)[Len(s)],
         a.fadeIn => Fades(s, Len(s))
  PROVE  LET u == s \o <<a>> IN
         /\ u \in Seq(Segment) /\ Len(u) = Len(s) + 1
         /\ CutFrom(u, asset) /\ Acts(u)[Len(u)] = Acts(s)[Len(s)] + a.dur
         /\ Total(u) = Total(s) + a.dur
         /\ a.fadeOut => Fades(u, Len(u))
<1> DEFINE m == Len(s)
           t == <<a>>
           u == s \o t
<1>1. /\ m \in Nat /\ u \in Seq(Segment) /\ Len(u) = m + 1
      /\ \A i \in 1..m : u[i] = s[i]
      /\ u[m + 1] = a /\ t \in Seq(Segment) /\ Len(t) = 1 /\ t[1] = a
      /\ DOMAIN s = 1..m /\ DOMAIN u = 1..(m + 1)
  OBVIOUS
<1> HIDE DEF u, t
<1>2. /\ \A i \in 0..m : Acts(u)[i] = Acts(s)[i]
      /\ \A i \in 0..Len(t) : Acts(u)[m + i] = Acts(s)[m] + Acts(t)[i]
      /\ \A i \in 0..m : Acts(s)[i] \in Nat
      /\ \A i \in 0..m : Fades(u, i) <=> Fades(s, i)
      /\ Total(u) = Total(s) + Total(t)
  BY <1>1, Joining DEF u
<1>3. Acts(t)[1] = a.dur /\ Total(t) = a.dur
  <2> DEFINE X == ActDurs(t)
  <2>1. X \in Seq(Int) /\ Len(X) = 1
    BY <1>1, ActDursAre
  <2>5. X[1] = a.dur
    <3>1. X = [i \in 1..1 |-> IF t[i].kind = "content" THEN t[i].dur ELSE 0]
      BY <1>1 DEF ActDurs
    <3> QED   BY <1>1, <3>1
  <2>2. Acts(t)[0] = 0 /\ Acts(t)[1] = Acts(t)[1 - 1] + X[1]
    <3>1. Acts(t) = Totals(X)
      BY DEF Acts
    <3> HIDE DEF X
    <3> QED   BY <2>1, <3>1, TotalsAre
  <2>3. /\ Totals(DursOf(t))[0] = 0 /\ Total(t) = Totals(DursOf(t))[1]
        /\ Totals(DursOf(t))[1] = Totals(DursOf(t))[1 - 1] + t[1].dur
    BY <1>1, BeforeIs
  <2>4. a.dur \in Nat
    BY DEF Segment
  <2> QED   BY <1>1, <2>2, <2>3, <2>4, <2>5
<1> HIDE DEF m
<1>4. Acts(u)[m + 1] = Acts(s)[m] + a.dur /\ Total(u) = Total(s) + a.dur
  BY <1>1, <1>2, <1>3
<1>5. ASSUME NEW i \in 1..(m + 1), u[i].kind = "content"
      PROVE  /\ u[i].asset = asset /\ u[i].off = Acts(u)[i - 1]
             /\ u[i].fadeIn => Fades(u, i - 1)
  <2>1. CASE i \in 1..m
    <3>1. u[i] = s[i] /\ i \in DOMAIN s /\ i - 1 \in 0..m
      BY <1>1, <2>1
    <3>2. /\ s[i].asset = asset /\ s[i].off = Acts(s)[i - 1]
          /\ s[i].fadeIn => Fades(s, i - 1)
      BY <1>5, <3>1 DEF CutFrom
    <3> QED   BY <1>2, <3>1, <3>2
  <2>2. CASE i = m + 1
    <3>1. i - 1 = m /\ m \in 0..m /\ u[i] = a
      BY <1>1, <2>2
    <3>2. a.off = Acts(s)[m] /\ (a.fadeIn => Fades(s, m))
      BY DEF m
    <3> QED   BY <1>2, <3>1, <3>2
  <2> QED   BY <1>1, <2>1, <2>2
<1>6. CutFrom(u, asset)
  BY <1>1, <1>5 DEF CutFrom
<1>7. a.fadeOut => Fades(u, m + 1)
  <2>1. m + 1 \in 1..(m + 1) /\ ((m + 1) + 1)..(m + 1) = {}
    BY <1>1
  <2> QED   BY <1>1, <2>1 DEF Fades
<1> QED   BY <1>1, <1>4, <1>6, <1>7 DEF u, t, m

-----------------------------------------------------------------------------
(* Lists of lists, and divisions.                                          *)

\* F[n] is the first n members of g one after the other.
Strings(F, g, n) == F[0] = <<>> /\ \A i \in 1..n : F[i] = F[i - 1] \o g[i]

\* FlattenSeq joins the members of a list one after the other.
LEMMA Flattens ==
  \A S : \A n \in Nat : \A g \in [1..n -> Seq(S)] :
    \E F \in [0..n -> Seq(S)] : Strings(F, g, n) /\ F[n] = FlattenSeq(g)
<1> SUFFICES ASSUME NEW S, NEW n \in Nat, NEW g \in [1..n -> Seq(S)]
             PROVE  \E F \in [0..n -> Seq(S)] : Strings(F, g, n) /\ F[n] = FlattenSeq(g)
  OBVIOUS
<1> DEFINE Q == Seq(S)
           Joins(F, m) == F[0] = <<>> /\ \A i \in 1..m : F[i] = F[i - 1] \o g[i]
           Has(m) == \E F \in [0..m -> Q] : Joins(F, m)
           I == {m \in Nat : m <= n => Has(m)}
<1>1. <<>> \in Q /\ \A s, t \in Q : s \o t \in Q
  OBVIOUS
<1>2. \A i \in 1..n : g[i] \in Q
  OBVIOUS
<1>3. 0 \in I
  <2> DEFINE F == [i \in 0..0 |-> <<>>]
  <2>1. F \in [0..0 -> Q] /\ Joins(F, 0)
    BY <1>1
  <2>2. Has(0)
    <3> HIDE DEF F, Q, Joins
    <3> QED   BY <2>1
  <2> HIDE DEF Has
  <2> QED   BY <2>2
<1> HIDE DEF Q
<1>4. ASSUME NEW m \in Nat, m \in I
      PROVE  m + 1 \in I
  <2> SUFFICES ASSUME m + 1 <= n
               PROVE  Has(m + 1)
    <3> HIDE DEF Has
    <3> QED   OBVIOUS
  <2>0. Has(m)
    <3> HIDE DEF Has
    <3> QED   BY <1>4
  <2>1. PICK F \in [0..m -> Q] : Joins(F, m)
    BY <2>0
  <2> DEFINE G == [i \in 0..(m + 1) |-> IF i = m + 1 THEN F[m] \o g[m + 1] ELSE F[i]]
  <2>2. F[m] \o g[m + 1] \in Q
    BY <1>1, <1>2, <2>1
  <2>3. G \in [0..(m + 1) -> Q]
    BY <2>1, <2>2
  <2>4. ASSUME NEW i \in 1..(m + 1)
        PROVE  G[i] = G[i - 1] \o g[i]
    <3>1. CASE i = m + 1
      <4>1. i \in 0..(m + 1) /\ i - 1 \in 0..(m + 1) /\ i - 1 # m + 1 /\ i - 1 = m
        BY <3>1
      <4>2. G[i] = F[m] \o g[m + 1] /\ G[i - 1] = F[i - 1]
        BY <3>1, <4>1
      <4> QED   BY <3>1, <4>1, <4>2
    <3>2. CASE i # m + 1
      <4>1. i \in 1..m /\ i \in 0..(m + 1) /\ i - 1 \in 0..(m + 1) /\ i - 1 # m + 1
        BY <3>2
      <4>2. G[i] = F[i] /\ G[i - 1] = F[i - 1]
        BY <3>2, <4>1
      <4> QED   BY <2>1, <4>1, <4>2
    <3> QED   BY <3>1, <3>2
  <2>5. G[0] = <<>>
    BY <2>1
  <2> HIDE DEF G
  <2> QED   BY <2>3, <2>4, <2>5
<1>5. n \in I
  <2> HIDE DEF I
  <2>1. \A m \in Nat : m \in I
    BY <1>3, <1>4, NatInduct
  <2> QED   BY <2>1
<1>8. Has(n)
  <2> HIDE DEF Has
  <2> QED   BY <1>5
<1>6. PICK F \in [0..n -> Q] : Joins(F, n)
  BY <1>8
<1>7. F[n] = FlattenSeq(g)
  <2>1. CASE n = 0
    <3>1. g = <<>>
      BY <2>1
    <3>2. FlattenSeq(g) = g
      BY <3>1 DEF FlattenSeq
    <3> QED   BY <1>6, <2>1, <3>1, <3>2
  <2>2. CASE n # 0
    <3>1. Len(g) = n /\ n \in 1..n
      BY <2>2
    <3> DEFINE Body(f) == [i \in 1..n |-> IF i = 1 THEN g[i] ELSE f[i - 1] \o g[i]]
               f == CHOOSE f : f = Body(f)
               H == [i \in 1..n |-> F[i]]
    <3>2. FlattenSeq(g) = f[n]
      BY <2>2, <3>1 DEF FlattenSeq
    <3>3. ASSUME NEW i \in 1..n
          PROVE  F[i] = IF i = 1 THEN g[i] ELSE H[i - 1] \o g[i]
      <4>1. F[i] = F[i - 1] \o g[i]
        BY <1>6
      <4>2. CASE i = 1
        <5>1. F[i - 1] = <<>> /\ g[i] \in Q
          BY <1>2, <1>6, <4>2
        <5> QED   BY <4>1, <4>2, <5>1 DEF Q
      <4>3. CASE i # 1
        <5>1. i - 1 \in 1..n
          BY <4>3
        <5> QED   BY <4>1, <4>3, <5>1
      <4> QED   BY <4>2, <4>3
    <3>4. H = Body(H)
      BY <3>3
    <3>5. f = Body(f)
      <4> HIDE DEF H, Body
      <4> QED   BY <3>4
    <3> HIDE DEF f, H
    <3> DEFINE J == {m \in Nat : m + 1 <= n => f[m + 1] = F[m + 1]}
    <3>6. \A i \in 1..n : f[i] = IF i = 1 THEN g[i] ELSE f[i - 1] \o g[i]
      BY <3>5
    <3>7. \A i \in 1..n : F[i] = IF i = 1 THEN g[i] ELSE F[i - 1] \o g[i]
      <4>1. \A i \in 1..n : i # 1 => i - 1 \in 1..n
        OBVIOUS
      <4> QED   BY <3>3, <4>1 DEF H
    <3>8. 0 \in J
      BY <2>2, <3>6, <3>7
    <3>9. ASSUME NEW m \in Nat, m \in J
          PROVE  m + 1 \in J
      <4> SUFFICES ASSUME (m + 1) + 1 <= n
                   PROVE  f[(m + 1) + 1] = F[(m + 1) + 1]
        OBVIOUS
      <4>1. (m + 1) + 1 \in 1..n /\ (m + 1) + 1 # 1 /\ ((m + 1) + 1) - 1 = m + 1
        OBVIOUS
      <4>2. f[m + 1] = F[m + 1]
        BY <3>9
      <4>3. f[(m + 1) + 1] = f[m + 1] \o g[(m + 1) + 1]
        BY <3>6, <4>1
      <4>4. F[(m + 1) + 1] = F[m + 1] \o g[(m + 1) + 1]
        BY <3>7, <4>1
      <4> QED   BY <4>2, <4>3, <4>4
    <3>10. n - 1 \in J
      <4> HIDE DEF J
      <4>1. \A m \in Nat : m \in J
        BY <3>8, <3>9, NatInduct
      <4> QED   BY <2>2, <4>1
    <3>11. f[n] = F[n]
      BY <2>2, <3>10
    <3> QED   BY <3>2, <3>11
  <2> QED   BY <2>1, <2>2
<1> QED   BY <1>6, <1>7 DEF Q, Strings

\* Division rounds down, and a larger number does not give less.
LEMMA DivGrows ==
  ASSUME NEW x \in Nat, NEW d \in Nat, NEW m \in Nat \ {0}
  PROVE  /\ x \div m <= (x + d) \div m
         /\ d >= m => x \div m < (x + d) \div m
<1> DEFINE p == x \div m
           q == (x + d) \div m
<1>1. p \in Nat /\ m * p <= x /\ x < m * p + m
  OBVIOUS
<1>2. q \in Nat /\ m * q <= x + d /\ x + d < m * q + m
  OBVIOUS
<1> HIDE DEF p, q
<1>3. p <= q
  <2> SUFFICES ASSUME q + 1 <= p PROVE FALSE
    BY <1>1, <1>2
  <2>1. m * (q + 1) <= m * p
    BY <1>1, <1>2
  <2>2. m * (q + 1) = m * q + m
    BY <1>2
  <2> QED   BY <1>1, <1>2, <2>1, <2>2
<1>4. ASSUME d >= m
      PROVE  p < q
  <2> SUFFICES ASSUME q <= p PROVE FALSE
    BY <1>1, <1>2
  <2>1. m * q <= m * p
    BY <1>1, <1>2
  <2> QED   BY <1>1, <1>2, <1>4, <2>1
<1> QED   BY <1>3, <1>4 DEF p, q

\* The n-th of n + 1 equal parts of an episode begins before the episode ends.
LEMMA DivBelow ==
  ASSUME NEW d \in Nat, NEW n \in Nat
  PROVE  /\ (d * n) \div (n + 1) \in Nat /\ (d * n) \div (n + 1) <= d
         /\ d > 0 => (d * n) \div (n + 1) < d
<1> DEFINE q == (d * n) \div (n + 1)
           x == d * n
<1>0. x \in Nat /\ (n + 1) * d = x + d
  OBVIOUS
<1> HIDE DEF x
<1>1. q \in Nat /\ (n + 1) * q <= x
  BY <1>0 DEF x
<1> HIDE DEF q
<1>2. q <= d
  <2> SUFFICES ASSUME d + 1 <= q PROVE FALSE
    BY <1>1
  <2>1. (n + 1) * (d + 1) <= (n + 1) * q
    BY <1>1
  <2>2. (n + 1) * (d + 1) = (n + 1) * d + (n + 1)
    OBVIOUS
  <2> QED   BY <1>0, <1>1, <2>1, <2>2
<1>3. ASSUME d > 0
      PROVE  q < d
  <2> SUFFICES ASSUME q = d PROVE FALSE
    BY <1>1, <1>2
  <2> QED   BY <1>0, <1>1, <1>3
<1> QED   BY <1>1, <1>2, <1>3 DEF q, x

-----------------------------------------------------------------------------
(* Break points.                                                           *)

\* An episode that cannot be cut into acts that all last.
Short(asset) == Duration[asset] = 0 \/ (Computed(asset) /\ Duration[asset] <= NumBreaks)
\* Where the act before the i-th break point begins.
From(points, i) == IF i = 1 THEN 0 ELSE points[i - 1]

\* The break points of an episode follow each other, and end before it does.
LEMMA PointsAre ==
  ASSUME NEW asset \in Assets
  PROVE  LET P == BreakPoints(asset) IN
         /\ P \in Seq(Nat) /\ Len(P) \in Nat /\ DOMAIN P = 1..Len(P)
         /\ \A i \in 1..Len(P) : P[i] <= Duration[asset] /\ From(P, i) <= P[i]
         /\ ~Short(asset) => /\ \A i \in 1..Len(P) : From(P, i) < P[i]
                             /\ From(P, Len(P) + 1) < Duration[asset]
<1> DEFINE P == BreakPoints(asset)
           d == Duration[asset]
           n == Len(P)
<1>1. d \in Nat /\ NumBreaks \in Nat \ {0}
  BY Durations, SegmentAssumption
<1>2. CASE Computed(asset)
  <2> DEFINE m == NumBreaks + 1
  <2>1. P = [i \in 1..NumBreaks |-> (d * i) \div m]
    BY <1>2 DEF BreakPoints
  <2> HIDE DEF P, d
  <2>2. ASSUME NEW i \in 1..NumBreaks
        PROVE  /\ (d * i) \div m \in Nat /\ (d * i) \div m <= d
               /\ d > 0 => (d * i) \div m < d
    <3> DEFINE x == d * i
    <3>1. x \in Nat /\ (x \div m) \in Nat
      BY <1>1
    <3>2. d * NumBreaks = x + d * (NumBreaks - i) /\ d * (NumBreaks - i) \in Nat
      BY <1>1
    <3>3. /\ (d * NumBreaks) \div m \in Nat /\ (d * NumBreaks) \div m <= d
          /\ d > 0 => (d * NumBreaks) \div m < d
      BY <1>1, DivBelow
    <3>4. x \div m <= (x + d * (NumBreaks - i)) \div m
      <4> DEFINE e == d * (NumBreaks - i)
      <4>1. e \in Nat /\ m \in Nat \ {0}
        BY <1>1, <3>2
      <4> HIDE DEF e, x, m
      <4>2. x \div m <= (x + e) \div m
        BY <3>1, <4>1, DivGrows
      <4> QED   BY <4>2 DEF e
    <3>5. x \div m <= (d * NumBreaks) \div m
      BY <3>2, <3>4
    <3> QED   BY <1>1, <3>1, <3>3, <3>5
  <2>3. ASSUME NEW i \in 1..NumBreaks, i # 1
        PROVE  /\ (d * (i - 1)) \div m <= (d * i) \div m
               /\ d > NumBreaks => (d * (i - 1)) \div m < (d * i) \div m
    <3> DEFINE x == d * (i - 1)
    <3>1. x \in Nat /\ d * i = x + d /\ m \in Nat \ {0}
      BY <1>1, <2>3
    <3>2. d > NumBreaks => d >= m
      BY <1>1
    <3> HIDE DEF x, m
    <3>3. x \div m <= (x + d) \div m /\ (d >= m => x \div m < (x + d) \div m)
      BY <1>1, <3>1, DivGrows
    <3>4. /\ x \div m <= (d * i) \div m
          /\ d > NumBreaks => x \div m < (d * i) \div m
      BY <3>1, <3>2, <3>3
    <3> QED   BY <3>4 DEF x
  <2>4. d > NumBreaks => 0 < (d * 1) \div m
    <3>1. 0 \in Nat /\ m \in Nat \ {0} /\ (d > NumBreaks => d >= m)
      BY <1>1
    <3> HIDE DEF m
    <3>2. d >= m => 0 \div m < (0 + d) \div m
      BY <1>1, <3>1, DivGrows
    <3>3. 0 \div m = 0 /\ 0 + d = d * 1
      BY <1>1, <3>1
    <3> QED   BY <3>1, <3>2, <3>3
  <2> HIDE DEF m
  <2>5. P \in [1..NumBreaks -> Nat]
    BY <2>1, <2>2
  <2>6. P \in Seq(Nat) /\ n = NumBreaks /\ DOMAIN P = 1..n /\ n \in Nat
    BY <1>1, <2>5
  <2> HIDE DEF n
  <2>7. ASSUME NEW i \in 1..n
        PROVE  /\ P[i] <= d /\ From(P, i) <= P[i]
               /\ ~Short(asset) => From(P, i) < P[i]
    <3>1. P[i] = (d * i) \div m /\ P[i] <= d /\ P[i] \in Nat
      BY <2>1, <2>2, <2>6
    <3>2. ~Short(asset) => d > NumBreaks
      BY <1>1, <1>2 DEF Short, d
    <3>3. CASE i = 1
      BY <2>4, <3>1, <3>2, <3>3 DEF From
    <3>4. CASE i # 1
      <4>1. P[i - 1] = (d * (i - 1)) \div m
        BY <2>1, <2>6, <3>4
      <4>2. From(P, i) = P[i - 1]
        BY <3>4 DEF From
      <4>3. i \in 1..NumBreaks
        BY <2>6
      <4>4. /\ (d * (i - 1)) \div m <= (d * i) \div m
            /\ d > NumBreaks => (d * (i - 1)) \div m < (d * i) \div m
        BY <2>3, <3>4, <4>3
      <4> QED   BY <3>1, <3>2, <4>1, <4>2, <4>4
    <3> QED   BY <3>3, <3>4
  <2>8. ~Short(asset) => From(P, n + 1) < d
    <3>1. n + 1 # 1 /\ (n + 1) - 1 = n /\ n \in 1..NumBreaks
      BY <1>1, <2>6
    <3>2. From(P, n + 1) = P[n]
      BY <3>1 DEF From
    <3>3. P[n] = (d * n) \div m
      BY <2>1, <3>1
    <3>4. ~Short(asset) => d > 0
      BY <1>1 DEF Short, d
    <3> QED   BY <2>2, <3>1, <3>2, <3>3, <3>4
  <2> QED   BY <2>6, <2>7, <2>8 DEF P, d, n
<1>3. CASE ~Computed(asset)
  <2> DEFINE S == {c \in ChaptersOf[asset] : 0 < c /\ c < d}
  <2>1. IsFiniteSet(ChaptersOf[asset]) /\ ChaptersOf[asset] \subseteq Nat
    BY SegmentAssumption DEF Assets
  <2>2. IsFiniteSet(S) /\ S \subseteq Int
    <3>1. S \subseteq ChaptersOf[asset]
      OBVIOUS
    <3> HIDE DEF S
    <3> QED   BY <2>1, <3>1, FS_Subset
  <2>3. P = Ascending(S)
    BY <1>3 DEF BreakPoints
  <2>4. \A c \in S : c \in Nat /\ 0 < c /\ c < d
    BY <2>1
  <2> HIDE DEF S, P
  <2>5. /\ P \in Seq(S) /\ \A i, j \in 1..Len(P) : i < j => P[i] < P[j]
    BY <2>2, <2>3, AscendingIs
  <2>6. n \in Nat /\ DOMAIN P = 1..n /\ \A i \in 1..n : P[i] \in S
    BY <2>5
  <2>7. P \in Seq(Nat)
    BY <2>4, <2>5, <2>6
  <2> HIDE DEF d, n
  <2>8. ASSUME NEW i \in 1..n
        PROVE  P[i] <= d /\ From(P, i) < P[i] /\ P[i] \in Nat
    <3>1. P[i] \in Nat /\ 0 < P[i] /\ P[i] < d
      BY <2>4, <2>6
    <3>2. CASE i = 1
      BY <1>1, <3>1, <3>2 DEF From
    <3>3. CASE i # 1
      <4>1. i - 1 \in 1..n /\ i - 1 < i
        BY <2>6, <3>3
      <4>2. P[i - 1] < P[i]
        BY <2>5, <4>1 DEF n
      <4> QED   BY <1>1, <3>1, <3>3, <4>2 DEF From
    <3> QED   BY <3>2, <3>3
  <2>9. ~Short(asset) => From(P, n + 1) < d
    <3>1. CASE n = 0
      BY <1>1, <3>1 DEF From, Short, d
    <3>2. CASE n # 0
      <4>1. n \in 1..n /\ n + 1 # 1 /\ (n + 1) - 1 = n
        BY <2>6, <3>2
      <4>2. P[n] < d
        BY <2>4, <2>6, <4>1
      <4> QED   BY <4>1, <4>2 DEF From
    <3> QED   BY <3>1, <3>2
  <2>10. \A i \in 1..n : From(P, i) <= P[i]
    <3> SUFFICES ASSUME NEW i \in 1..n PROVE From(P, i) <= P[i]
      OBVIOUS
    <3>1. From(P, i) \in Nat
      BY <2>6, <2>7, <2>8 DEF From
    <3> QED   BY <2>8, <3>1
  <2> QED   BY <2>6, <2>7, <2>8, <2>9, <2>10 DEF P, d, n
<1> QED   BY <1>2, <1>3

-----------------------------------------------------------------------------
(* Breaks, and what fills them.                                            *)

\* What does not divide evenly is spread over the last shares, or the first.
LEMMA Spreads ==
  ASSUME NEW gap \in Nat, NEW n \in Nat \ {0}
  PROVE  /\ \E V \in [0..n -> Nat] :
              /\ V[0] = 0 /\ V[n] = gap
              /\ \A i \in 1..n : /\ PadSize(gap, n, i) \in Nat
                                 /\ V[i] = V[i - 1] + PadSize(gap, n, i)
         /\ \E V \in [0..n -> Nat] :
              /\ V[0] = 0 /\ V[n] = gap
              /\ \A i \in 1..n : V[i] = V[i - 1] + gap \div n
                                          + (IF i <= gap % n THEN 1 ELSE 0)
<1> DEFINE q == gap \div n
           r == gap % n
<1>1. q \in Nat /\ r \in 0..(n - 1) /\ gap = n * q + r
  OBVIOUS
<1>2. \A i \in 1..n : PadSize(gap, n, i) = q + (IF i > n - r THEN 1 ELSE 0)
  BY DEF PadSize
<1> HIDE DEF q, r
<1>3. ASSUME NEW i \in 1..n
      PROVE  i * q = (i - 1) * q + q /\ i * q \in Nat /\ (i - 1) * q \in Nat
  BY <1>1
<1>4. 0 * q = 0 /\ \A i \in 0..n : i * q \in Nat
  BY <1>1
<1>5. \E V \in [0..n -> Nat] :
        /\ V[0] = 0 /\ V[n] = gap
        /\ \A i \in 1..n : /\ PadSize(gap, n, i) \in Nat
                           /\ V[i] = V[i - 1] + PadSize(gap, n, i)
  <2> DEFINE V == [i \in 0..n |-> i * q + (IF i > n - r THEN i - (n - r) ELSE 0)]
  <2>1. V \in [0..n -> Nat]
    <3>1. \A i \in 0..n : (IF i > n - r THEN i - (n - r) ELSE 0) \in Nat
      BY <1>1
    <3> QED   BY <1>4, <3>1
  <2>2. V[0] = 0 /\ V[n] = gap
    <3>1. 0 \in 0..n /\ n \in 0..n /\ ~(0 > n - r)
          /\ (IF n > n - r THEN n - (n - r) ELSE 0) = r
      BY <1>1
    <3> QED   BY <1>1, <1>4, <3>1
  <2>3. ASSUME NEW i \in 1..n
        PROVE  /\ PadSize(gap, n, i) \in Nat
               /\ V[i] = V[i - 1] + PadSize(gap, n, i)
    <3> DEFINE a == IF i > n - r THEN i - (n - r) ELSE 0
               b == IF i - 1 > n - r THEN (i - 1) - (n - r) ELSE 0
               c == IF i > n - r THEN 1 ELSE 0
               x == (i - 1) * q
    <3>1. a = b + c /\ a \in Nat /\ b \in Nat /\ c \in Nat
      BY <1>1
    <3>2. V[i] = i * q + a /\ V[i - 1] = x + b
      OBVIOUS
    <3>3. i * q = x + q /\ x \in Nat
      BY <1>3
    <3>4. PadSize(gap, n, i) = q + c
      BY <1>2
    <3> HIDE DEF a, b, c, x, V
    <3>5. V[i] = (x + q) + a
      BY <3>2, <3>3
    <3> QED   BY <1>1, <3>1, <3>2, <3>3, <3>4, <3>5
  <2> HIDE DEF V
  <2> QED   BY <2>1, <2>2, <2>3
<1>6. \E V \in [0..n -> Nat] :
        /\ V[0] = 0 /\ V[n] = gap
        /\ \A i \in 1..n : V[i] = V[i - 1] + q + (IF i <= r THEN 1 ELSE 0)
  <2> DEFINE V == [i \in 0..n |-> i * q + (IF i <= r THEN i ELSE r)]
  <2>1. V \in [0..n -> Nat]
    <3>1. \A i \in 0..n : (IF i <= r THEN i ELSE r) \in Nat
      BY <1>1
    <3> QED   BY <1>4, <3>1
  <2>2. V[0] = 0 /\ V[n] = gap
    <3>1. 0 \in 0..n /\ n \in 0..n /\ 0 <= r /\ ~(n <= r)
      BY <1>1
    <3> QED   BY <1>1, <1>4, <3>1
  <2>3. ASSUME NEW i \in 1..n
        PROVE  V[i] = V[i - 1] + q + (IF i <= r THEN 1 ELSE 0)
    <3> DEFINE a == IF i <= r THEN i ELSE r
               b == IF i - 1 <= r THEN i - 1 ELSE r
               c == IF i <= r THEN 1 ELSE 0
               x == (i - 1) * q
    <3>1. a = b + c /\ a \in Nat /\ b \in Nat /\ c \in Nat
      BY <1>1
    <3>2. V[i] = i * q + a /\ V[i - 1] = x + b
      OBVIOUS
    <3>3. i * q = x + q /\ x \in Nat
      BY <1>3
    <3> HIDE DEF a, b, x, V
    <3>5. V[i] = (x + q) + a
      BY <3>2, <3>3
    <3>6. V[i] = V[i - 1] + q + c
      <4> HIDE DEF c
      <4> QED   BY <1>1, <3>1, <3>2, <3>3, <3>5
    <3> QED   BY <3>6
  <2> HIDE DEF V
  <2> QED   BY <2>1, <2>2, <2>3
<1> QED   BY <1>5, <1>6 DEF q, r

\* What no segment, and what one segment lasts.
LEMMA TotalFew ==
  /\ Total(<<>>) = 0
  /\ \A a \in Segment : Total(<<a>>) = a.dur /\ a.dur \in Nat
<1>1. Total(<<>>) = 0
  <2>1. <<>> \in Seq(Segment) /\ Len(<<>>) = 0
    OBVIOUS
  <2> QED   BY <2>1, BeforeIs
<1>2. ASSUME NEW a \in Segment
      PROVE  Total(<<a>>) = a.dur /\ a.dur \in Nat
  <2> DEFINE t == <<a>>
  <2>1. t \in Seq(Segment) /\ Len(t) = 1 /\ t[1] = a /\ a.dur \in Nat
    BY DEF Segment
  <2> HIDE DEF t
  <2>2. /\ Totals(DursOf(t))[0] = 0 /\ Total(t) = Totals(DursOf(t))[1]
        /\ Totals(DursOf(t))[1] = Totals(DursOf(t))[1 - 1] + t[1].dur
    BY <2>1, BeforeIs
  <2> QED   BY <2>1, <2>2 DEF t
<1> QED   BY <1>1, <1>2

\* What a break is filled with.
Fills == {s \in Aired : s.kind # "content" /\ s.dur > 0}

\* Spots and pads fill a break, and a break that is not filled is not an act.
LEMMA FillIs ==
  /\ \A asset \in Assets, dur \in Nat \ {0} :
       dur <= Duration[asset] => Spot(asset, dur) \in Fills /\ Spot(asset, dur).dur = dur
  /\ \A dur \in Nat \ {0} : Pad(dur) \in Fills /\ Pad(dur).dur = dur
  /\ \A dur \in Nat \ {0} : Break(dur) \in Segment /\ IsBreak(Break(dur))
                            /\ Break(dur).dur = dur /\ Break(dur).kind # "content"
  /\ \A s \in Fills : s \in Segment /\ ~IsBreak(s) /\ s.kind # "content" /\ s.dur > 0
<1>0. NoAsset \notin Assets
  BY SegmentAssumption DEF Assets
<1>1. ASSUME NEW asset \in Assets, NEW dur \in Nat \ {0}, dur <= Duration[asset]
      PROVE  Spot(asset, dur) \in Fills /\ Spot(asset, dur).dur = dur
  <2> DEFINE s == Spot(asset, dur)
  <2>1. /\ s \in [kind : {"content", "filler", "pad"}, asset : Assets \union {NoAsset},
                  off : Nat, dur : Nat, fadeIn : BOOLEAN, fadeOut : BOOLEAN]
        /\ s.kind = "filler" /\ s.asset = asset /\ s.off = 0 /\ s.dur = dur
    BY DEF Spot, Plain
  <2> HIDE DEF s
  <2>2. s.off + s.dur <= Duration[s.asset]
    BY <1>1, <2>1
  <2>3. ~IsBreak(s)
    BY <1>0, <2>1 DEF IsBreak
  <2>4. s \in Segment
    BY <2>1, <2>2 DEF Segment
  <2> QED   BY <2>1, <2>3, <2>4 DEF Fills, Aired, s
<1>2. ASSUME NEW dur \in Nat \ {0}
      PROVE  Pad(dur) \in Fills /\ Pad(dur).dur = dur
  <2> DEFINE s == Pad(dur)
  <2>1. /\ s \in [kind : {"content", "filler", "pad"}, asset : Assets \union {NoAsset},
                  off : Nat, dur : Nat, fadeIn : BOOLEAN, fadeOut : BOOLEAN]
        /\ s.kind = "pad" /\ s.dur = dur
    BY DEF Pad, Plain
  <2> HIDE DEF s
  <2>3. ~IsBreak(s)
    BY <2>1 DEF IsBreak
  <2>4. s \in Segment
    BY <2>1 DEF Segment
  <2> QED   BY <2>1, <2>3, <2>4 DEF Fills, Aired, s
<1>3. ASSUME NEW dur \in Nat \ {0}
      PROVE  /\ Break(dur) \in Segment /\ IsBreak(Break(dur))
             /\ Break(dur).dur = dur /\ Break(dur).kind # "content"
  <2> DEFINE s == Break(dur)
  <2>1. /\ s \in [kind : {"content", "filler", "pad"}, asset : Assets \union {NoAsset},
                  off : Nat, dur : Nat, fadeIn : BOOLEAN, fadeOut : BOOLEAN]
        /\ s.kind = "filler" /\ s.dur = dur /\ s.asset = NoAsset
    BY DEF Break, Plain
  <2> HIDE DEF s
  <2>3. IsBreak(s)
    BY <2>1 DEF IsBreak
  <2>4. s \in Segment
    BY <2>1, <2>3 DEF Segment
  <2> QED   BY <2>1, <2>3, <2>4 DEF s
<1>4. \A s \in Fills : s \in Segment /\ ~IsBreak(s) /\ s.kind # "content" /\ s.dur > 0
  BY DEF Fills, Aired
<1> QED   BY <1>1, <1>2, <1>3, <1>4

\* A break filled with spots and pads lasts as long as it should.
LEMMA FilledBreakIs ==
  ASSUME NEW spots, spots \in Seq(Spots), spots # <<>>, NEW dur \in Nat,
         Totals(LengthsOf(spots))[Len(spots)] <= dur
  PROVE  FilledBreak(spots, dur) \in Seq(Fills) /\ Total(FilledBreak(spots, dur)) = dur
<1> DEFINE n == Len(spots)
           D == LengthsOf(spots)
           gap == dur - Totals(D)[n]
           pad(i) == PadSize(gap, n, i)
           padding(i) == IF pad(i) > 0 THEN <<Pad(pad(i))>> ELSE <<>>
           spot(i) == Spot(spots[i], Duration[spots[i]])
           g == [i \in 1..n |-> <<spot(i)>> \o padding(i)]
<1>1. n \in Nat \ {0} /\ \A i \in 1..n : spots[i] \in Spots
  OBVIOUS
<1>2. \A i \in 1..n : spots[i] \in Assets /\ Duration[spots[i]] \in Nat \ {0}
  BY <1>1, FeedAssumption, Durations DEF Assets
<1>3. /\ D \in Seq(Nat) /\ D \in Seq(Int) /\ Len(D) = n
      /\ \A i \in 1..n : D[i] = Duration[spots[i]]
  <2>1. D = [i \in 1..n |-> Duration[spots[i]]]
    BY DEF LengthsOf
  <2> HIDE DEF D, n
  <2>2. D \in [1..n -> Nat]
    BY <1>2, <2>1
  <2>3. D \in Seq(Nat) /\ Len(D) = n
    BY <1>1, <2>2
  <2>4. D \in Seq(Int)
    BY <2>3
  <2> QED   BY <2>1, <2>3, <2>4
<1>4. FilledBreak(spots, dur) = FlattenSeq(g)
  BY DEF FilledBreak
<1> HIDE DEF D, n
<1>5. /\ Totals(D)[0] = 0 /\ \A i \in 0..n : Totals(D)[i] \in Nat
      /\ \A i \in 1..n : Totals(D)[i] = Totals(D)[i - 1] + D[i]
  BY <1>3, TotalsAre, TotalsGrow
<1>6. gap \in Nat /\ Totals(D)[n] \in Nat /\ dur = Totals(D)[n] + gap
  <2>1. Totals(D)[n] \in Nat /\ Totals(D)[n] <= dur
    BY <1>1, <1>5 DEF D, n
  <2> QED   BY <2>1
<1> HIDE DEF gap
<1>7. PICK V \in [0..n -> Nat] :
        /\ V[0] = 0 /\ V[n] = gap
        /\ \A i \in 1..n : pad(i) \in Nat /\ V[i] = V[i - 1] + pad(i)
  BY <1>1, <1>6, Spreads
<1> HIDE DEF pad
<1>8. ASSUME NEW i \in 1..n
      PROVE  /\ <<spot(i)>> \in Seq(Fills) /\ padding(i) \in Seq(Fills)
             /\ Total(<<spot(i)>>) = D[i] /\ Total(padding(i)) = pad(i)
  <2>1. Duration[spots[i]] <= Duration[spots[i]]
    BY <1>2
  <2>2. spot(i) \in Fills /\ spot(i).dur = D[i]
    BY <1>2, <1>3, <2>1, FillIs
  <2>3. Total(<<spot(i)>>) = D[i]
    <3> HIDE DEF spot
    <3> QED   BY <2>2, FillIs, TotalFew
  <2>4. CASE pad(i) > 0
    <3>1. Pad(pad(i)) \in Fills /\ Pad(pad(i)).dur = pad(i)
      BY <1>7, <2>4, FillIs
    <3>2. Total(<<Pad(pad(i))>>) = pad(i)
      BY <3>1, FillIs, TotalFew
    <3> QED   BY <2>2, <2>3, <2>4, <3>1, <3>2
  <2>5. CASE ~(pad(i) > 0)
    <3>1. pad(i) = 0
      BY <1>7, <2>5
    <3> QED   BY <2>2, <2>3, <2>5, <3>1, TotalFew
  <2> QED   BY <2>4, <2>5
<1>9. \A s : s \in Seq(Fills) => s \in Seq(Segment)
  BY FillIs
<1> HIDE DEF spot, padding
<1>10. /\ g \in [1..n -> Seq(Fills)]
       /\ \A i \in 1..n : Total(g[i]) = D[i] + pad(i)
  <2>1. ASSUME NEW i \in 1..n
        PROVE  g[i] \in Seq(Fills) /\ Total(g[i]) = D[i] + pad(i)
    <3>1. <<spot(i)>> \in Seq(Segment) /\ padding(i) \in Seq(Segment)
      BY <1>8, <1>9
    <3>2. Total(<<spot(i)>> \o padding(i)) = Total(<<spot(i)>>) + Total(padding(i))
      BY <3>1, Joining
    <3>3. <<spot(i)>> \o padding(i) \in Seq(Fills)
      <4>1. \A s, t \in Seq(Fills) : s \o t \in Seq(Fills)
        OBVIOUS
      <4> QED   BY <1>8, <4>1
    <3> QED   BY <1>8, <3>2, <3>3
  <2> HIDE DEF g
  <2>2. g = [i \in 1..n |-> g[i]]
    BY DEF g
  <2> QED   BY <2>1, <2>2
<1> HIDE DEF g
<1>11. PICK F \in [0..n -> Seq(Fills)] : Strings(F, g, n) /\ F[n] = FlattenSeq(g)
  <2>1. n \in Nat /\ g \in [1..n -> Seq(Fills)]
    BY <1>1, <1>10
  <2> QED   BY <2>1, Flattens
<1> DEFINE I == {i \in Nat : i <= n => Total(F[i]) = Totals(D)[i] + V[i]}
<1>12. 0 \in I
  BY <1>5, <1>7, <1>11, TotalFew DEF Strings
<1>13. ASSUME NEW i \in Nat, i \in I
       PROVE  i + 1 \in I
  <2> SUFFICES ASSUME i + 1 <= n
               PROVE  Total(F[i + 1]) = Totals(D)[i + 1] + V[i + 1]
    OBVIOUS
  <2>1. i + 1 \in 1..n /\ (i + 1) - 1 = i /\ i \in 0..n
    BY <1>1
  <2>2. F[i + 1] = F[i] \o g[i + 1]
    BY <1>11, <2>1 DEF Strings
  <2>3. F[i] \in Seq(Segment) /\ g[i + 1] \in Seq(Segment)
    BY <1>9, <1>10, <1>11, <2>1
  <2>4. Total(F[i + 1]) = Total(F[i]) + Total(g[i + 1])
    BY <2>2, <2>3, Joining
  <2>5. Total(F[i]) = Totals(D)[i] + V[i]
    BY <1>1, <1>13, <2>1
  <2>6. Total(g[i + 1]) = D[i + 1] + pad(i + 1)
    BY <1>10, <2>1
  <2>7. V[i + 1] = V[i] + pad(i + 1) /\ V[i] \in Nat /\ pad(i + 1) \in Nat
    BY <1>7, <2>1
  <2>8. Totals(D)[i + 1] = Totals(D)[i] + D[i + 1] /\ Totals(D)[i] \in Nat
    BY <1>5, <2>1
  <2>9. D[i + 1] \in Nat
    BY <1>2, <1>3, <2>1
  <2> QED   BY <2>4, <2>5, <2>6, <2>7, <2>8, <2>9
<1> HIDE DEF I
<1>14. \A i \in Nat : i \in I
  BY <1>12, <1>13, NatInduct
<1>15. Total(F[n]) = dur
  <2>1. n \in I
    BY <1>1, <1>14
  <2>2. Total(F[n]) = Totals(D)[n] + V[n]
    BY <1>1, <2>1 DEF I
  <2> QED   BY <1>6, <1>7, <2>2
<1>16. F[n] \in Seq(Fills)
  BY <1>1, <1>11
<1> QED   BY <1>4, <1>11, <1>15, <1>16

-----------------------------------------------------------------------------
(* Acts and breaks, one after the other.                                   *)

\* What a block is cut into: acts, which last if the episode is long enough,
\* and breaks, which always do.
Parts(solid) == {s \in Segment : /\ s.kind = "content" \/ IsBreak(s)
                                 /\ IsBreak(s) \/ solid => s.dur > 0}

\* A break lasts as long as its share, and there is none where the share is 0.
LEMMA BreakAfterIs ==
  ASSUME NEW time \in Nat, NEW solid
  PROVE  LET t == BreakAfter(time) IN
         /\ t \in Seq(Segment) /\ t \in Seq(Parts(solid)) /\ Total(t) = time
         /\ \A i \in DOMAIN t : t[i].kind # "content"
<1>1. CASE time > 0
  <2>1. /\ Break(time) \in Segment /\ IsBreak(Break(time))
        /\ Break(time).dur = time /\ Break(time).kind # "content"
    BY <1>1, FillIs
  <2>2. BreakAfter(time) = <<Break(time)>>
    BY <1>1 DEF BreakAfter
  <2> DEFINE a == Break(time)
  <2> HIDE DEF a
  <2>3. a \in Segment /\ IsBreak(a) /\ a.dur = time /\ a.kind # "content"
    BY <2>1 DEF a
  <2>4. a \in Parts(solid)
    BY <1>1, <2>3 DEF Parts
  <2>5. Total(<<a>>) = time
    BY <2>3, TotalFew
  <2> QED   BY <2>2, <2>3, <2>4, <2>5 DEF a
<1>2. CASE ~(time > 0)
  <2>1. BreakAfter(time) = <<>> /\ time = 0
    BY <1>2 DEF BreakAfter
  <2> QED   BY <2>1, TotalFew
<1> QED   BY <1>1, <1>2

\* An act plays its part of the episode.
LEMMA ActIs ==
  ASSUME NEW asset \in Assets, NEW from \in Nat, NEW dur \in Nat,
         from + dur <= Duration[asset], NEW fadeIn \in BOOLEAN, NEW fadeOut \in BOOLEAN
  PROVE  LET a == Content(asset, from, dur, fadeIn, fadeOut) IN
         /\ a \in Segment
         /\ \A solid : (solid => dur > 0) => a \in Parts(solid)
         /\ a.kind = "content" /\ a.asset = asset /\ a.off = from /\ a.dur = dur
         /\ a.fadeIn = fadeIn /\ a.fadeOut = fadeOut
<1> DEFINE a == Content(asset, from, dur, fadeIn, fadeOut)
<1>1. /\ a \in [kind : {"content", "filler", "pad"}, asset : Assets \union {NoAsset},
                off : Nat, dur : Nat, fadeIn : BOOLEAN, fadeOut : BOOLEAN]
      /\ a.kind = "content" /\ a.asset = asset /\ a.off = from /\ a.dur = dur
      /\ a.fadeIn = fadeIn /\ a.fadeOut = fadeOut
  BY DEF Content
<1> HIDE DEF a
<1>2. a.off + a.dur <= Duration[a.asset] /\ ~IsBreak(a) /\ (dur > 0 => a.dur > 0)
  BY <1>1 DEF IsBreak
<1>3. a \in Segment
  BY <1>1, <1>2 DEF Segment
<1>4. \A solid : (solid => dur > 0) => a \in Parts(solid)
  BY <1>1, <1>2, <1>3 DEF Parts
<1> QED   BY <1>1, <1>3, <1>4 DEF a

\* The episode is cut up to some point of it, which took some time.
CutUpTo(s, asset, upTo, time) ==
  s \in Seq(Segment) /\ CutFrom(s, asset) /\ Acts(s)[Len(s)] = upTo /\ Total(s) = time
\* The last act fades out.
Fading(s) == Fades(s, Len(s))
ActAndBreak(asset, from, dur, fadeIn, fadeOut, time) ==
  <<Content(asset, from, dur, fadeIn, fadeOut)>> \o BreakAfter(time)

\* One more act and the break after it.
LEMMA ActStep ==
  ASSUME NEW s, NEW asset \in Assets, NEW from \in Nat, NEW sum, CutUpTo(s, asset, from, sum),
         NEW dur \in Nat, from + dur <= Duration[asset],
         NEW fadeIn \in BOOLEAN, NEW fadeOut \in BOOLEAN,
         fadeIn = TRUE => Fading(s), NEW time \in Nat
  PROVE  LET u == s \o ActAndBreak(asset, from, dur, fadeIn, fadeOut, time) IN
         /\ CutUpTo(u, asset, from + dur, sum + dur + time)
         /\ fadeOut = TRUE => Fading(u)
<1>0. /\ s \in Seq(Segment) /\ CutFrom(s, asset) /\ Acts(s)[Len(s)] = from
      /\ Total(s) = sum
      /\ fadeIn = TRUE => Fades(s, Len(s))
  BY DEF CutUpTo, Fading
<1> DEFINE a == Content(asset, from, dur, fadeIn, fadeOut)
           t == BreakAfter(time)
           v == s \o <<a>>
           u == v \o t
<1>1. /\ a \in Segment /\ a.kind = "content" /\ a.asset = asset /\ a.off = from
      /\ a.dur = dur /\ a.fadeIn = fadeIn /\ a.fadeOut = fadeOut
  BY ActIs
<1>2. /\ t \in Seq(Segment) /\ Total(t) = time
      /\ \A i \in DOMAIN t : t[i].kind # "content"
  BY BreakAfterIs
<1>3. s \o (<<a>> \o t) = u
  <2> HIDE DEF a, t
  <2>1. <<a>> \in Seq(Segment)
    BY <1>1
  <2>2. \A x, y, z \in Seq(Segment) : x \o (y \o z) = (x \o y) \o z
    OBVIOUS
  <2> QED   BY <1>0, <1>2, <2>1, <2>2
<1> HIDE DEF a, t
<1>4. /\ v \in Seq(Segment) /\ CutFrom(v, asset)
      /\ Acts(v)[Len(v)] = from + a.dur /\ Total(v) = Total(s) + a.dur
      /\ fadeOut => Fades(v, Len(v))
  BY <1>0, <1>1, AddAct
<1> HIDE DEF v
<1>5. u \in Seq(Segment) /\ Total(u) = Total(v) + Total(t)
  BY <1>2, <1>4, Joining
<1>6. /\ CutFrom(u, asset) /\ Acts(u)[Len(u)] = Acts(v)[Len(v)]
      /\ Fades(v, Len(v)) => Fades(u, Len(u))
  BY <1>2, <1>4, AddPlain
<1>7. Total(s) \in Nat
  <2>1. <<>> \in Seq(Segment)
    OBVIOUS
  <2> QED   BY <1>0, <2>1, Joining
<1> HIDE DEF u
<1>8. Acts(u)[Len(u)] = from + dur /\ Total(u) = Total(s) + dur + time
  BY <1>1, <1>2, <1>4, <1>5, <1>6, <1>7
<1>9. fadeOut => Fades(u, Len(u))
  BY <1>4, <1>6
<1>10. s \o ActAndBreak(asset, from, dur, fadeIn, fadeOut, time) = u
  BY <1>3 DEF ActAndBreak, a, t
<1>11. CutUpTo(u, asset, from + dur, sum + dur + time)
  BY <1>0, <1>5, <1>6, <1>8 DEF CutUpTo
<1> QED   BY <1>9, <1>10, <1>11 DEF Fading

\* Nothing is cut at the start.
LEMMA NothingCut ==
  ASSUME NEW asset
  PROVE  CutUpTo(<<>>, asset, 0, 0)
<1>1. <<>> \in Seq(Segment) /\ Len(<<>>) = 0 /\ DOMAIN <<>> = {}
  OBVIOUS
<1>2. ActDurs(<<>>) \in Seq(Int)
  BY <1>1, ActDursAre
<1>3. Acts(<<>>)[0] = 0
  BY <1>2, TotalsAre DEF Acts
<1> QED   BY <1>1, <1>3, TotalFew DEF CutFrom, CutUpTo

\* What is known of a whole block that is cut.
Whole(E, asset, slot, solid, lost) ==
  /\ E \in Seq(Parts(solid)) /\ E \in Seq(Segment) /\ CutFrom(E, asset)
  /\ Acts(E)[Len(E)] = Duration[asset]
  /\ ~lost => Total(E) = slot

\* _expand_movie: the whole movie, then one break for the rest of the slot.
LEMMA MovieIs ==
  ASSUME NEW asset \in Assets, NEW slot \in Nat, slot >= Duration[asset]
  PROVE  Whole(ExpandMovie(asset, slot), asset, slot, Duration[asset] # 0, FALSE)
<1> DEFINE d == Duration[asset]
           E == ExpandMovie(asset, slot)
           a == Content(asset, 0, d, FALSE, FALSE)
           t == BreakAfter(Spare(asset, slot))
           solid == d # 0
<1>1. d \in Nat /\ Spare(asset, slot) \in Nat /\ d + Spare(asset, slot) = slot
  BY Durations DEF Spare
<1>4. a \in Parts(solid)
  <2>1. 0 + d <= Duration[asset] /\ (solid => d > 0)
    BY <1>1
  <2> HIDE DEF d, solid
  <2> QED   BY <1>1, <2>1, ActIs
<1>5. t \in Seq(Parts(solid))
  BY <1>1, BreakAfterIs
<1>6. E = <<a>> \o t
  BY DEF ExpandMovie
<1>7. E \in Seq(Parts(solid))
  <2> HIDE DEF E, t, a, solid
  <2>1. <<a>> \in Seq(Parts(solid))
    BY <1>4
  <2>2. \A x, y \in Seq(Parts(solid)) : x \o y \in Seq(Parts(solid))
    OBVIOUS
  <2> QED   BY <1>5, <1>6, <2>1, <2>2
<1> DEFINE u == <<>> \o ActAndBreak(asset, 0, d, FALSE, FALSE, Spare(asset, slot))
<1>8. CutUpTo(u, asset, 0 + d, 0 + d + Spare(asset, slot))
  <2>1. CutUpTo(<<>>, asset, 0, 0)
    BY NothingCut
  <2>2. 0 + d <= Duration[asset] /\ 0 \in Nat /\ FALSE \in BOOLEAN
        /\ (FALSE = TRUE => Fading(<<>>))
    BY <1>1
  <2> HIDE DEF d
  <2> QED   BY <1>1, <2>1, <2>2, ActStep
<1>9. u = E
  <2>1. E = ActAndBreak(asset, 0, d, FALSE, FALSE, Spare(asset, slot))
    BY <1>6 DEF ActAndBreak
  <2> HIDE DEF E
  <2>2. \A x \in Seq(Parts(solid)) : <<>> \o x = x
    OBVIOUS
  <2> QED   BY <1>7, <2>1, <2>2
<1>10. /\ u \in Seq(Segment) /\ CutFrom(u, asset) /\ Acts(u)[Len(u)] = d /\ Total(u) = slot
  <2>1. 0 + d = d /\ 0 + d + Spare(asset, slot) = slot
    BY <1>1
  <2>2. CutUpTo(u, asset, d, slot)
    BY <1>8, <2>1
  <2> QED   BY <2>2 DEF CutUpTo
<1> HIDE DEF u, E
<1> QED   BY <1>7, <1>9, <1>10 DEF Whole, E, d, solid

-----------------------------------------------------------------------------
(* Network episodes.                                                       *)

\* _expand_network: the acts of the episode with a break after each act but the last
\* that share what is left of the slot.
LEMMA NetworkIs ==
  ASSUME NEW asset \in Assets, NEW slot \in Nat, slot >= Duration[asset]
  PROVE  Whole(ExpandNetwork(asset, slot), asset, slot, ~Short(asset),
               /\ Spare(asset, slot) > 0 /\ ~Computed(asset)
               /\ BreakPoints(asset) = <<>>)
<1> DEFINE d == Duration[asset]
           P == BreakPoints(asset)
           n == Len(P)
           spare == Spare(asset, slot)
           solid == ~Short(asset)
           computed == Computed(asset)
           E == ExpandNetwork(asset, slot)
           time(i) == BreakTime(asset, slot, n, i)
           in(i) == i > 1 /\ computed /\ time(i - 1) > 0
           g == [i \in 1..n |-> ActAndBreak(asset, From(P, i), P[i] - From(P, i), in(i),
                                            computed, time(i))]
           left == d - From(P, n + 1)
           tail == IF left > 0
                   THEN <<Content(asset, From(P, n + 1), left, in(n + 1), FALSE)>>
                   ELSE <<>>
<1>1. d \in Nat /\ spare \in Nat /\ d + spare = slot
  BY Durations DEF Spare
<1>2. /\ P \in Seq(Nat) /\ n \in Nat /\ DOMAIN P = 1..n
      /\ \A i \in 1..n : P[i] <= d /\ From(P, i) <= P[i]
      /\ solid => (\A i \in 1..n : From(P, i) < P[i]) /\ From(P, n + 1) < d
  BY PointsAre
<1>3. computed => P # <<>>
  <2>1. 1 \in 1..NumBreaks
    BY SegmentAssumption
  <2>2. computed => 1 \in DOMAIN P
    BY <2>1 DEF BreakPoints
  <2> QED   BY <2>2
<1>4. computed \in BOOLEAN /\ \A i : in(i) \in BOOLEAN
  <2>1. computed \in BOOLEAN
    BY DEF Computed
  <2> QED   BY <2>1
<1>5. E = FlattenSeq(g) \o tail
  BY DEF ExpandNetwork, ActAndBreak, From
<1>6. \E W \in [0..n -> Nat] :
        /\ W[0] = 0 /\ (n # 0 => W[n] = spare)
        /\ \A i \in 1..n : time(i) \in Nat /\ W[i] = W[i - 1] + time(i)
  <2> HIDE DEF n, spare, P
  <2>1. CASE n = 0
    <3> DEFINE W == [i \in 0..n |-> 0]
    <3>1. W \in [0..n -> Nat] /\ W[0] = 0 /\ 1..n = {}
      BY <2>1
    <3> HIDE DEF W
    <3> QED   BY <2>1, <3>1
  <2>2. CASE n # 0
    <3>1. n \in Nat \ {0}
      BY <1>2, <2>2
    <3>2. \A i \in 1..n : time(i) = spare \div n + (IF i <= spare % n THEN 1 ELSE 0)
      BY DEF BreakTime, spare
    <3>3. PICK V \in [0..n -> Nat] :
            /\ V[0] = 0 /\ V[n] = spare
            /\ \A i \in 1..n : V[i] = V[i - 1] + spare \div n
                                        + (IF i <= spare % n THEN 1 ELSE 0)
      BY <1>1, <3>1, Spreads
    <3> HIDE DEF time
    <3>4. spare \div n \in Nat /\ \A i \in 1..n : time(i) \in Nat
      <4>1. spare \div n \in Nat
        BY <1>1, <3>1, SMTT(30)
      <4> DEFINE q == spare \div n
      <4> HIDE DEF q
      <4>2. \A i \in 1..n : time(i) = q + (IF i <= spare % n THEN 1 ELSE 0)
        BY <3>2 DEF q
      <4>3. q \in Nat
        BY <4>1 DEF q
      <4> QED   BY <4>1, <4>2, <4>3
    <3>5. ASSUME NEW i \in 1..n
          PROVE  V[i] = V[i - 1] + time(i)
      <4>1. i - 1 \in 0..n
        BY <1>2
      <4>2. V[i - 1] \in Nat
        BY <3>3, <4>1
      <4> DEFINE one == IF i <= spare % n THEN 1 ELSE 0
      <4>3. V[i] = V[i - 1] + spare \div n + one /\ time(i) = spare \div n + one
            /\ one \in Nat
        BY <3>2, <3>3
      <4> HIDE DEF one
      <4> QED   BY <3>4, <4>2, <4>3
    <3> QED   BY <3>3, <3>4, <3>5
  <2> QED   BY <2>1, <2>2
<1>7. PICK W \in [0..n -> Nat] :
        /\ W[0] = 0 /\ (n # 0 => W[n] = spare)
        /\ \A i \in 1..n : time(i) \in Nat /\ W[i] = W[i - 1] + time(i)
  BY <1>6
<1> HIDE DEF time, computed, in, solid, n, P, spare
<1>8. \A i \in 1..(n + 1) : From(P, i) \in Nat /\ From(P, i) <= d
  <2> SUFFICES ASSUME NEW i \in 1..(n + 1)
               PROVE  From(P, i) \in Nat /\ From(P, i) <= d
    OBVIOUS
  <2>1. CASE i = 1
    BY <1>1, <2>1 DEF From
  <2>2. CASE i # 1
    <3>1. i - 1 \in 1..n
      BY <1>2, <2>2
    <3>2. P[i - 1] \in Nat /\ P[i - 1] <= d
      BY <1>2, <3>1
    <3> QED   BY <2>2, <3>2 DEF From
  <2> QED   BY <2>1, <2>2
<1>9. \A i \in 1..n : /\ P[i] - From(P, i) \in Nat /\ From(P, i) \in Nat
                      /\ From(P, i) + (P[i] - From(P, i)) = P[i] /\ P[i] <= d
                      /\ solid => P[i] - From(P, i) > 0
  <2> SUFFICES ASSUME NEW i \in 1..n
               PROVE  /\ P[i] - From(P, i) \in Nat /\ From(P, i) \in Nat
                      /\ From(P, i) + (P[i] - From(P, i)) = P[i] /\ P[i] <= d
                      /\ solid => P[i] - From(P, i) > 0
    OBVIOUS
  <2>1. P[i] \in Nat /\ From(P, i) \in Nat /\ From(P, i) <= P[i] /\ P[i] <= d
    BY <1>2, <1>8
  <2>2. solid => From(P, i) < P[i]
    BY <1>2
  <2> QED   BY <2>1, <2>2
<1>10. /\ left \in Nat /\ From(P, n + 1) \in Nat /\ From(P, n + 1) + left = d
       /\ solid => left > 0
  <2>1. From(P, n + 1) \in Nat /\ From(P, n + 1) <= d
    BY <1>2, <1>8
  <2> QED   BY <1>1, <1>2, <2>1
<1> HIDE DEF d
<1>11. ASSUME NEW i \in 1..n
       PROVE  g[i] \in Seq(Parts(solid))
  <2>1. P[i] - From(P, i) \in Nat /\ From(P, i) \in Nat
    BY <1>9
  <2> DEFINE dur == P[i] - From(P, i)
             a == Content(asset, From(P, i), dur, in(i), computed)
             t == BreakAfter(time(i))
  <2>2. dur \in Nat /\ From(P, i) + dur <= Duration[asset] /\ (solid => dur > 0)
    BY <1>9 DEF d
  <2> HIDE DEF dur
  <2>3. a \in Parts(solid)
    BY <1>4, <2>1, <2>2, ActIs
  <2>4. t \in Seq(Parts(solid))
    BY <1>7, BreakAfterIs
  <2>5. g[i] = <<a>> \o t
    BY DEF ActAndBreak, dur
  <2> HIDE DEF a, t, g
  <2>6. <<a>> \in Seq(Parts(solid))
    BY <2>3
  <2>7. \A x, y \in Seq(Parts(solid)) : x \o y \in Seq(Parts(solid))
    OBVIOUS
  <2> QED   BY <2>4, <2>5, <2>6, <2>7
<1>12. \A i \in 1..n :
         g[i] = ActAndBreak(asset, From(P, i), P[i] - From(P, i), in(i), computed, time(i))
  OBVIOUS
<1>13. g \in [1..n -> Seq(Parts(solid))]
  <2>1. g = [i \in 1..n |-> g[i]]
    OBVIOUS
  <2> HIDE DEF g
  <2> QED   BY <1>11, <2>1
<1> HIDE DEF g
<1>14. PICK F \in [0..n -> Seq(Parts(solid))] : Strings(F, g, n) /\ F[n] = FlattenSeq(g)
  BY <1>2, <1>13, Flattens
<1> DEFINE CutAt(i) == /\ CutUpTo(F[i], asset, From(P, i + 1), From(P, i + 1) + W[i])
                       /\ computed = TRUE /\ i > 0 => Fading(F[i])
           I == {i \in Nat : i <= n => CutAt(i)}
<1>15. 0 \in I
  <2>1. From(P, 0 + 1) = 0 /\ W[0] = 0 /\ F[0] = <<>>
    BY <1>7, <1>14 DEF From, Strings
  <2>2. From(P, 0 + 1) + W[0] = 0
    BY <2>1
  <2>3. CutUpTo(F[0], asset, From(P, 0 + 1), From(P, 0 + 1) + W[0])
    BY <2>1, <2>2, NothingCut
  <2> QED   BY <2>3
<1>16. ASSUME NEW i \in Nat, i \in I
       PROVE  i + 1 \in I
  <2> SUFFICES ASSUME i + 1 <= n
               PROVE  CutAt(i + 1)
    <3> HIDE DEF CutAt
    <3> QED   OBVIOUS
  <2> DEFINE k == i + 1
             from == From(P, k)
             dur == P[k] - from
             sum == from + W[i]
  <2>1. k \in 1..n /\ k - 1 = i /\ i \in 0..n /\ i <= n /\ k > 0
    BY <1>2
  <2>2. CutAt(i)
    BY <1>16, <2>1
  <2>3. F[k] = F[i] \o g[k]
    BY <1>14, <2>1 DEF Strings
  <2>4. g[k] = ActAndBreak(asset, from, dur, in(k), computed, time(k))
    BY <1>12, <2>1
  <2>5. /\ dur \in Nat /\ from \in Nat /\ from + dur = P[k] /\ P[k] <= d
        /\ from + dur <= Duration[asset]
    BY <1>9, <2>1 DEF d
  <2>6. time(k) \in Nat /\ W[k] = W[i] + time(k) /\ W[i] \in Nat
    BY <1>7, <2>1
  <2>7. in(k) = TRUE => Fading(F[i])
    <3> SUFFICES ASSUME in(k) PROVE Fading(F[i])
      OBVIOUS
    <3>1. k > 1 /\ computed
      BY DEF in
    <3>2. computed = TRUE /\ i > 0
      BY <1>4, <2>1, <3>1
    <3> QED   BY <2>2, <3>2
  <2>8. CutUpTo(F[i], asset, from, sum)
    BY <2>2
  <2>9. From(P, k + 1) = P[k]
    <3>1. k + 1 # 1 /\ (k + 1) - 1 = k
      BY <2>1
    <3> QED   BY <3>1 DEF From
  <2> HIDE DEF k, from, dur, sum
  <2>10. /\ CutUpTo(F[i] \o g[k], asset, from + dur, sum + dur + time(k))
         /\ computed = TRUE => Fading(F[i] \o g[k])
    <3>1. in(k) \in BOOLEAN /\ computed \in BOOLEAN
      BY <1>4
    <3> QED   BY <2>4, <2>5, <2>6, <2>7, <2>8, <3>1, ActStep
  <2>11. from + dur = From(P, k + 1) /\ sum + dur + time(k) = From(P, k + 1) + W[k]
    <3>1. sum = from + W[i]
      BY DEF sum, from, k
    <3> QED   BY <2>5, <2>6, <2>9, <3>1
  <2>12. /\ CutUpTo(F[k], asset, From(P, k + 1), From(P, k + 1) + W[k])
         /\ computed = TRUE => Fading(F[k])
    BY <2>3, <2>10, <2>11
  <2> QED   BY <2>12 DEF k
<1> HIDE DEF I
<1>17. \A i \in Nat : i \in I
  BY <1>15, <1>16, NatInduct
<1>18. CutAt(n)
  <2>1. n \in I
    BY <1>2, <1>17
  <2> QED   BY <1>2, <2>1 DEF I
<1> DEFINE from == From(P, n + 1)
           sum == from + W[n]
<1>19. CutUpTo(F[n], asset, from, sum) /\ (computed = TRUE /\ n > 0 => Fading(F[n]))
  BY <1>18
<1>20. F[n] \in Seq(Parts(solid)) /\ W[n] \in Nat
  BY <1>2, <1>7, <1>14
<1>21. from \in Nat /\ from + left = d /\ sum + left = d + W[n]
  BY <1>1, <1>10, <1>20
<1>22. tail \in Seq(Parts(solid)) /\ CutUpTo(F[n] \o tail, asset, d, d + W[n])
  <2>1. CASE left > 0
    <3> DEFINE a == Content(asset, from, left, in(n + 1), FALSE)
               no == FALSE
               t == ActAndBreak(asset, from, left, in(n + 1), no, 0)
    <3>1. tail = <<a>>
      BY <2>1
    <3>2. from + left <= Duration[asset] /\ left \in Nat /\ in(n + 1) \in BOOLEAN
          /\ (solid => left > 0)
      BY <1>1, <1>4, <1>10, <1>21, <2>1 DEF d
    <3>3. a \in Parts(solid)
      <4> HIDE DEF from, left, in
      <4> QED   BY <1>21, <3>2, ActIs
    <3>4. in(n + 1) = TRUE => Fading(F[n])
      <4> SUFFICES ASSUME in(n + 1) PROVE Fading(F[n])
        OBVIOUS
      <4>1. n + 1 > 1 /\ computed
        BY DEF in
      <4>2. computed = TRUE /\ n > 0
        BY <1>2, <1>4, <4>1
      <4> QED   BY <1>19, <4>2
    <3>5. no \in BOOLEAN /\ 0 \in Nat
      OBVIOUS
    <3>6. CutUpTo(F[n] \o t, asset, from + left, sum + left + 0)
      <4> HIDE DEF from, left, sum, no
      <4> QED   BY <1>19, <1>21, <3>2, <3>4, <3>5, ActStep
    <3>7. t = <<a>>
      <4>1. BreakAfter(0) = <<>>
        BY DEF BreakAfter
      <4> DEFINE b == a
      <4>2. t = <<a>> \o <<>>
        BY <4>1 DEF ActAndBreak
      <4> HIDE DEF a
      <4>3. <<a>> \o <<>> = <<a>>
        OBVIOUS
      <4> QED   BY <4>2, <4>3
    <3>8. from + left = d /\ sum + left + 0 = d + W[n]
      BY <1>1, <1>20, <1>21
    <3>9. <<a>> \in Seq(Parts(solid))
      <4> HIDE DEF a
      <4> QED   BY <3>3
    <3> HIDE DEF a, t, tail, from, left, sum
    <3> QED   BY <3>1, <3>6, <3>7, <3>8, <3>9
  <2>2. CASE ~(left > 0)
    <3>1. left = 0
      BY <1>10, <2>2
    <3>2. tail = <<>> /\ from = d /\ sum = d + W[n]
      BY <1>1, <1>20, <1>21, <2>2, <3>1
    <3>3. F[n] \o tail = F[n]
      <4>1. \A x \in Seq(Parts(solid)) : x \o <<>> = x
        OBVIOUS
      <4> HIDE DEF tail
      <4> QED   BY <1>20, <3>2, <4>1
    <3> HIDE DEF tail, from, sum
    <3> QED   BY <1>19, <3>2, <3>3
  <2> QED   BY <2>1, <2>2
<1> HIDE DEF tail, left, from, sum
<1>23. E = F[n] \o tail
  BY <1>5, <1>14
<1>24. E \in Seq(Parts(solid))
  <2>1. \A x, y \in Seq(Parts(solid)) : x \o y \in Seq(Parts(solid))
    OBVIOUS
  <2> QED   BY <1>20, <1>22, <1>23, <2>1
<1> HIDE DEF E
<1>25. CutUpTo(E, asset, d, d + W[n])
  BY <1>22, <1>23
<1>26. ASSUME ~(spare > 0 /\ ~computed /\ P = <<>>)
       PROVE  d + W[n] = slot
  <2>1. n = 0 <=> P = <<>>
    BY <1>2 DEF n
  <2>2. CASE n = 0
    <3>1. spare = 0 /\ W[n] = 0
      BY <1>1, <1>3, <1>7, <1>26, <2>1, <2>2
    <3> QED   BY <1>1, <3>1
  <2>3. CASE n # 0
    BY <1>1, <1>7, <2>3
  <2> QED   BY <2>2, <2>3
<1>27. /\ E \in Seq(Segment) /\ CutFrom(E, asset) /\ Acts(E)[Len(E)] = d
       /\ Total(E) = d + W[n]
  BY <1>25 DEF CutUpTo
<1> QED   BY <1>24, <1>26, <1>27 DEF Whole, E, d, solid, spare, computed, P

-----------------------------------------------------------------------------
(* A block that is partly filled.                                          *)

\* The slot of an asset holds it.
LEMMA SlotHolds ==
  ASSUME NEW asset \in Assets
  PROVE  Duration[asset] <= SlotDuration(asset)
<1> DEFINE d == Duration[asset]
           g == Grid
<1>1. d \in Nat /\ g \in Nat \ {0}
  BY Durations, TimeAssumption
<1>2. CASE d <= g
  BY <1>1, <1>2 DEF SlotDuration, SlotsOf
<1>3. CASE ~(d <= g)
  <2> DEFINE n == (d + g - 1) \div g
             x == d + g - 1
  <2>1. SlotDuration(asset) = n * g
    BY <1>3 DEF SlotDuration, SlotsOf
  <2>2. x \in Nat
    BY <1>1
  <2> HIDE DEF d, g, x
  <2>3. x \div g \in Nat /\ x < g * (x \div g) + g
    BY <1>1, <2>2
  <2> DEFINE q == x \div g
  <2>4. n = q
    BY DEF x
  <2> HIDE DEF q, n
  <2>5. q \in Nat /\ x < g * q + g
    BY <2>3 DEF q
  <2>6. n * g = g * q
    BY <1>1, <2>4, <2>5
  <2>7. g * q \in Nat
    BY <1>1, <2>5
  <2>8. d <= g * q
    BY <1>1, <2>5, <2>7 DEF x
  <2> QED   BY <2>1, <2>6, <2>8 DEF d
<1> QED   BY <1>2, <1>3

\* What expand_program_block makes of a block.
LEMMA ExpandIs ==
  ASSUME NEW b, b.asset \in Assets, b.dur = SlotDuration(b.asset)
  PROVE  Whole(Expand(channelType, b.asset, b.dur), b.asset, b.dur,
               ~TooShort(b), BreaksLost(b))
<1> DEFINE asset == b.asset
           slot == b.dur
<1>1. asset \in Assets /\ slot \in Nat /\ slot >= Duration[asset] /\ Duration[asset] \in Nat
  BY Durations, SlotHolds
<1>2. CASE channelType = "movie"
  <2>1. (Duration[asset] # 0) = ~TooShort(b) /\ BreaksLost(b) = FALSE
    BY <1>2 DEF TooShort, BreaksLost
  <2>2. Expand(channelType, asset, slot) = ExpandMovie(asset, slot)
    BY <1>2 DEF Expand
  <2>3. Whole(ExpandMovie(asset, slot), asset, slot, Duration[asset] # 0, FALSE)
    <3> HIDE DEF asset, slot
    <3> QED   BY <1>1, MovieIs
  <2> QED   BY <2>1, <2>2, <2>3
<1>3. CASE channelType # "movie"
  <2> DEFINE lost == /\ Spare(asset, slot) > 0 /\ ~Computed(asset)
                     /\ BreakPoints(asset) = <<>>
  <2>1. (Short(asset) <=> TooShort(b)) /\ (lost <=> BreaksLost(b))
    BY <1>3 DEF TooShort, BreaksLost, Short
  <2>2. Expand(channelType, asset, slot) = ExpandNetwork(asset, slot)
    BY <1>3 DEF Expand
  <2>3. Whole(ExpandNetwork(asset, slot), asset, slot, ~Short(asset), lost)
    <3> HIDE DEF asset, slot
    <3> QED   BY <1>1, NetworkIs
  <2>4. Parts(~Short(asset)) = Parts(~TooShort(b))
    <3> HIDE DEF lost
    <3> QED   BY <2>1 DEF Parts
  <2>5. Whole(ExpandNetwork(asset, slot), asset, slot, ~TooShort(b), BreaksLost(b))
    <3> HIDE DEF lost
    <3> QED   BY <2>1, <2>3, <2>4 DEF Whole
  <2> QED   BY <2>2, <2>5
<1> QED   BY <1>2, <1>3

\* The first k parts of E are in s, with the breaks filled; the others are in r.
FilledTo(s, r, E, k, asset, solid) ==
  /\ s \in Seq(Aired) /\ r \in Seq(Segment) /\ k \in 0..Len(E)
  /\ Len(r) = Len(E) - k /\ \A j \in 1..Len(r) : r[j] = E[k + j]
  /\ CutFrom(s, asset) /\ Acts(s)[Len(s)] = Acts(E)[k]
  /\ Total(s) = Totals(DursOf(E))[k]
  /\ Fades(E, k) => Fading(s)
  /\ solid => \A i \in DOMAIN s : s[i].dur > 0

\* What airs is a list of segments.
LEMMA AiredAre ==
  ASSUME NEW s, s \in Seq(Aired)
  PROVE  s \in Seq(Segment)
BY DEF Aired

\* At the start of the filling nothing is filled, and everything is left to do.
LEMMA NothingFilled ==
  ASSUME NEW E, E \in Seq(Segment), NEW asset, NEW solid
  PROVE  FilledTo(<<>>, E, E, 0, asset, solid)
<1>1. CutUpTo(<<>>, asset, 0, 0)
  BY NothingCut
<1>2. Totals(DursOf(E))[0] = 0
  BY BeforeIs
<1>3. Acts(E)[0] = 0
  <2>1. ActDurs(E) \in Seq(Int)
    BY ActDursAre
  <2> QED   BY <2>1, TotalsAre DEF Acts
<1>4. ~Fades(E, 0)
  BY DEF Fades
<1>5. /\ <<>> \in Seq(Aired) /\ DOMAIN <<>> = {} /\ Len(E) \in Nat
      /\ \A j \in 1..Len(E) : E[j] = E[0 + j]
  OBVIOUS
<1> QED   BY <1>1, <1>2, <1>3, <1>4, <1>5 DEF FilledTo, CutUpTo

\* The next part of E.
LEMMA NextPart ==
  ASSUME NEW s, NEW r, NEW E, NEW k, NEW asset, NEW solid, E \in Seq(Segment),
         FilledTo(s, r, E, k, asset, solid), r # <<>>
  PROVE  /\ k \in Nat /\ k + 1 \in 0..Len(E) /\ k + 1 \in DOMAIN E
         /\ Head(r) = E[k + 1] /\ Tail(r) \in Seq(Segment)
         /\ Len(Tail(r)) = Len(E) - (k + 1)
         /\ \A j \in 1..Len(Tail(r)) : Tail(r)[j] = E[(k + 1) + j]
         /\ Acts(E)[k + 1] = Acts(E)[k] + (IF E[k + 1].kind = "content"
                                           THEN E[k + 1].dur ELSE 0)
         /\ Totals(DursOf(E))[k + 1] = Totals(DursOf(E))[k] + E[k + 1].dur
         /\ Acts(E)[k] \in Nat
         /\ Fades(E, k + 1) => IF E[k + 1].kind = "content" THEN E[k + 1].fadeOut
                               ELSE Fades(E, k)
<1>1. /\ s \in Seq(Aired) /\ r \in Seq(Segment) /\ k \in 0..Len(E)
      /\ Len(r) = Len(E) - k /\ \A j \in 1..Len(r) : r[j] = E[k + j]
      /\ Len(E) \in Nat
  BY DEF FilledTo
<1>2. Len(r) \in Nat /\ Len(r) # 0 /\ k \in Nat
  BY <1>1
<1>3. k + 1 \in 1..Len(E) /\ k + 1 \in 0..Len(E) /\ 1 \in 1..Len(r) /\ (k + 1) - 1 = k
  BY <1>1, <1>2
<1>4. Head(r) = E[k + 1]
  <2>1. Head(r) = r[1]
    BY <1>1
  <2> QED   BY <1>1, <1>3, <2>1
<1>5. /\ Tail(r) \in Seq(Segment) /\ Len(Tail(r)) = Len(r) - 1
      /\ \A j \in 1..(Len(r) - 1) : Tail(r)[j] = r[j + 1]
  BY <1>1, <1>2
<1>6. Len(Tail(r)) = Len(E) - (k + 1)
  BY <1>1, <1>2, <1>5
<1>7. ASSUME NEW j \in 1..Len(Tail(r))
      PROVE  Tail(r)[j] = E[(k + 1) + j]
  <2>1. j \in 1..(Len(r) - 1) /\ j + 1 \in 1..Len(r) /\ k + (j + 1) = (k + 1) + j
    BY <1>2, <1>5
  <2>2. Tail(r)[j] = r[j + 1] /\ r[j + 1] = E[k + (j + 1)]
    BY <1>1, <1>5, <2>1
  <2> QED   BY <2>1, <2>2
<1>8. ActDurs(E) \in Seq(Int) /\ Len(ActDurs(E)) = Len(E) /\ ActDurs(E) \in Seq(Nat)
  BY ActDursAre
<1>9. /\ Acts(E)[k + 1] = Acts(E)[(k + 1) - 1] + ActDurs(E)[k + 1]
      /\ Acts(E)[k] \in Nat
  BY <1>1, <1>3, <1>8, TotalsAre, TotalsGrow DEF Acts
<1>10. ActDurs(E)[k + 1] = IF E[k + 1].kind = "content" THEN E[k + 1].dur ELSE 0
  BY <1>3 DEF ActDurs
<1>11. Totals(DursOf(E))[k + 1] = Totals(DursOf(E))[(k + 1) - 1] + E[k + 1].dur
  BY <1>3, BeforeIs
<1>12. ASSUME Fades(E, k + 1)
       PROVE  IF E[k + 1].kind = "content" THEN E[k + 1].fadeOut ELSE Fades(E, k)
  <2>1. PICK j \in 1..(k + 1) : /\ E[j].kind = "content" /\ E[j].fadeOut
                                /\ \A i \in (j + 1)..(k + 1) : E[i].kind # "content"
    BY <1>12 DEF Fades
  <2>2. CASE E[k + 1].kind = "content"
    <3>1. ~(k + 1 \in (j + 1)..(k + 1))
      BY <2>1, <2>2
    <3>2. j = k + 1
      BY <1>2, <3>1
    <3> QED   BY <2>1, <2>2, <3>2
  <2>3. CASE E[k + 1].kind # "content"
    <3>1. j # k + 1
      BY <2>1, <2>3
    <3>2. j \in 1..k /\ \A i \in (j + 1)..k : i \in (j + 1)..(k + 1)
      BY <1>2, <3>1
    <3>3. Fades(E, k)
      BY <2>1, <3>2 DEF Fades
    <3> QED   BY <2>3, <3>3
  <2> QED   BY <2>2, <2>3
<1> QED   BY <1>2, <1>3, <1>4, <1>5, <1>6, <1>7, <1>9, <1>10, <1>11, <1>12

-----------------------------------------------------------------------------
(* Filling a break keeps to what the block is cut into.                    *)

\* An act is kept as it is.
LEMMA KeepsAct ==
  ASSUME NEW s, NEW r, NEW E, NEW k, NEW asset \in Assets, NEW slot, NEW solid, NEW lost,
         Whole(E, asset, slot, solid, lost), FilledTo(s, r, E, k, asset, solid),
         r # <<>>, ~IsBreak(Head(r))
  PROVE  FilledTo(Append(s, Head(r)), Tail(r), E, k + 1, asset, solid)
<1> DEFINE a == E[k + 1]
           u == s \o <<a>>
<1>1. E \in Seq(Segment) /\ E \in Seq(Parts(solid)) /\ CutFrom(E, asset)
  BY DEF Whole
<1>2. /\ k \in Nat /\ k + 1 \in 0..Len(E) /\ k + 1 \in DOMAIN E
      /\ Head(r) = E[k + 1] /\ Tail(r) \in Seq(Segment)
      /\ Len(Tail(r)) = Len(E) - (k + 1)
      /\ \A j \in 1..Len(Tail(r)) : Tail(r)[j] = E[(k + 1) + j]
      /\ Acts(E)[k + 1] = Acts(E)[k] + (IF E[k + 1].kind = "content"
                                        THEN E[k + 1].dur ELSE 0)
      /\ Totals(DursOf(E))[k + 1] = Totals(DursOf(E))[k] + E[k + 1].dur
      /\ Fades(E, k + 1) => IF E[k + 1].kind = "content" THEN E[k + 1].fadeOut
                            ELSE Fades(E, k)
  BY <1>1, NextPart
<1>3. /\ s \in Seq(Aired) /\ s \in Seq(Segment)
      /\ CutFrom(s, asset) /\ Acts(s)[Len(s)] = Acts(E)[k]
      /\ Total(s) = Totals(DursOf(E))[k]
      /\ Fades(E, k) => Fading(s)
      /\ solid => \A i \in DOMAIN s : s[i].dur > 0
  BY AiredAre DEF FilledTo
<1>4. a \in Parts(solid)
  BY <1>1, <1>2
<1>5. a \in Segment /\ a.kind = "content" /\ (solid => a.dur > 0) /\ ~IsBreak(a)
  BY <1>2, <1>4 DEF Parts
<1>6. a.asset = asset /\ a.off = Acts(E)[k] /\ (a.fadeIn => Fades(E, k))
  <2>1. (k + 1) - 1 = k
    BY <1>2
  <2>2. /\ a.asset = asset /\ a.off = Acts(E)[(k + 1) - 1]
        /\ a.fadeIn => Fades(E, (k + 1) - 1)
    BY <1>1, <1>2, <1>5 DEF CutFrom
  <2> QED   BY <2>1, <2>2
<1>7. a.off = Acts(s)[Len(s)] /\ (a.fadeIn => Fades(s, Len(s)))
  BY <1>3, <1>6 DEF Fading
<1> HIDE DEF a
<1>8. /\ u \in Seq(Segment) /\ CutFrom(u, asset)
      /\ Acts(u)[Len(u)] = Acts(s)[Len(s)] + a.dur /\ Total(u) = Total(s) + a.dur
      /\ a.fadeOut => Fades(u, Len(u))
  BY <1>3, <1>5, <1>6, <1>7, AddAct
<1>9. a \in Aired
  BY <1>5 DEF Aired
<1>10. u \in Seq(Aired) /\ u = Append(s, a)
  BY <1>3, <1>9
<1>11. solid => \A i \in DOMAIN u : u[i].dur > 0
  <2>1. \A i \in DOMAIN u : u[i] = a \/ (i \in DOMAIN s /\ u[i] = s[i])
    BY <1>3
  <2> HIDE DEF u
  <2> QED   BY <1>3, <1>5, <2>1
<1> HIDE DEF u
<1>12. Acts(u)[Len(u)] = Acts(E)[k + 1] /\ Total(u) = Totals(DursOf(E))[k + 1]
  BY <1>2, <1>3, <1>5, <1>8 DEF a
<1>13. Fades(E, k + 1) => Fading(u)
  BY <1>2, <1>5, <1>8 DEF a, Fading
<1>14. FilledTo(u, Tail(r), E, k + 1, asset, solid)
  BY <1>2, <1>8, <1>10, <1>11, <1>12, <1>13 DEF FilledTo
<1> QED   BY <1>2, <1>10, <1>14 DEF a

\* A break is replaced by what fills it.
LEMMA FillsBreak ==
  ASSUME NEW s, NEW r, NEW E, NEW k, NEW asset \in Assets, NEW slot, NEW solid, NEW lost,
         Whole(E, asset, slot, solid, lost), FilledTo(s, r, E, k, asset, solid),
         r # <<>>, IsBreak(Head(r)), NEW t, t \in Seq(Fills), Total(t) = Head(r).dur
  PROVE  FilledTo(s \o t, Tail(r), E, k + 1, asset, solid)
<1> DEFINE a == E[k + 1]
           u == s \o t
<1>1. E \in Seq(Segment) /\ CutFrom(E, asset)
  BY DEF Whole
<1>2. /\ k \in Nat /\ k + 1 \in 0..Len(E) /\ k + 1 \in DOMAIN E
      /\ Head(r) = E[k + 1] /\ Tail(r) \in Seq(Segment)
      /\ Len(Tail(r)) = Len(E) - (k + 1)
      /\ \A j \in 1..Len(Tail(r)) : Tail(r)[j] = E[(k + 1) + j]
      /\ Acts(E)[k + 1] = Acts(E)[k] + (IF E[k + 1].kind = "content"
                                        THEN E[k + 1].dur ELSE 0)
      /\ Totals(DursOf(E))[k + 1] = Totals(DursOf(E))[k] + E[k + 1].dur
      /\ Acts(E)[k] \in Nat
      /\ Fades(E, k + 1) => IF E[k + 1].kind = "content" THEN E[k + 1].fadeOut
                            ELSE Fades(E, k)
  BY <1>1, NextPart
<1>3. /\ s \in Seq(Aired) /\ s \in Seq(Segment)
      /\ CutFrom(s, asset) /\ Acts(s)[Len(s)] = Acts(E)[k]
      /\ Total(s) = Totals(DursOf(E))[k]
      /\ Fades(E, k) => Fading(s)
      /\ solid => \A i \in DOMAIN s : s[i].dur > 0
  BY AiredAre DEF FilledTo
<1>4. a.kind # "content" /\ Total(t) = a.dur
  BY <1>2 DEF IsBreak
<1>5. /\ t \in Seq(Segment) /\ t \in Seq(Aired)
      /\ \A i \in DOMAIN t : t[i].kind # "content" /\ t[i].dur > 0
  <2>1. \A x \in Fills : x \in Segment /\ x \in Aired /\ x.kind # "content" /\ x.dur > 0
    BY DEF Fills, Aired
  <2>2. \A i \in DOMAIN t : t[i] \in Fills
    OBVIOUS
  <2> QED   BY <2>1, <2>2
<1> HIDE DEF a
<1>6. /\ CutFrom(u, asset) /\ Acts(u)[Len(u)] = Acts(s)[Len(s)]
      /\ Fades(s, Len(s)) => Fades(u, Len(u))
  BY <1>3, <1>5, AddPlain
<1>7. Total(u) = Total(s) + Total(t)
  BY <1>3, <1>5, Joining
<1>8. u \in Seq(Aired)
  BY <1>3, <1>5
<1>9. solid => \A i \in DOMAIN u : u[i].dur > 0
  <2>1. \A i \in DOMAIN u : \/ i \in DOMAIN s /\ u[i] = s[i]
                            \/ i - Len(s) \in DOMAIN t /\ u[i] = t[i - Len(s)]
    BY <1>3, <1>5
  <2> HIDE DEF u
  <2> QED   BY <1>3, <1>5, <2>1
<1> HIDE DEF u
<1>10. Acts(u)[Len(u)] = Acts(E)[k + 1] /\ Total(u) = Totals(DursOf(E))[k + 1]
  BY <1>2, <1>3, <1>4, <1>6, <1>7 DEF a
<1>11. Fades(E, k + 1) => Fading(u)
  BY <1>2, <1>3, <1>4, <1>6 DEF a, Fading
<1>12. FilledTo(u, Tail(r), E, k + 1, asset, solid)
  BY <1>2, <1>6, <1>8, <1>9, <1>10, <1>11 DEF FilledTo
<1> QED   BY <1>12 DEF u

\* With nothing left to fill, the block plays its episode and AIR accepts it.
LEMMA AllFilled ==
  ASSUME NEW s, NEW E, NEW k, NEW asset \in Assets, NEW slot \in Nat \ {0},
         NEW solid, NEW lost,
         Whole(E, asset, slot, solid, lost), FilledTo(s, <<>>, E, k, asset, solid)
  PROVE  /\ Acts(s)[Len(s)] = Duration[asset] /\ CutFrom(s, asset)
         /\ solid /\ ~lost => Accepted(s, slot)
<1>1. /\ s \in Seq(Aired) /\ s \in Seq(Segment) /\ k \in 0..Len(E) /\ Len(<<>>) = Len(E) - k
      /\ CutFrom(s, asset) /\ Acts(s)[Len(s)] = Acts(E)[k]
      /\ Total(s) = Totals(DursOf(E))[k]
      /\ solid => \A i \in DOMAIN s : s[i].dur > 0
  BY AiredAre DEF FilledTo
<1>2. /\ E \in Seq(Segment) /\ Acts(E)[Len(E)] = Duration[asset]
      /\ ~lost => Total(E) = slot
  BY DEF Whole
<1>3. k = Len(E)
  BY <1>1, <1>2
<1>4. Acts(s)[Len(s)] = Duration[asset] /\ Total(s) = Total(E)
  BY <1>1, <1>2, <1>3 DEF Total
<1>5. ASSUME solid, ~lost
      PROVE  Accepted(s, slot)
  <2>1. Total(s) = slot /\ slot > 0
    BY <1>2, <1>4, <1>5
  <2>2. s # <<>>
    BY <2>1, TotalFew
  <2>3. ASSUME NEW i \in DOMAIN s, s[i].kind # "pad"
        PROVE  s[i].off < Duration[s[i].asset]
    <3>1. s[i] \in Segment /\ ~IsBreak(s[i])
      BY <1>1 DEF Aired
    <3>2. /\ s[i].asset \in Assets /\ s[i].off + s[i].dur <= Duration[s[i].asset]
          /\ s[i].off \in Nat /\ s[i].dur \in Nat
      BY <2>3, <3>1 DEF Segment
    <3>3. s[i].dur > 0 /\ Duration[s[i].asset] \in Nat
      BY <1>1, <1>5, <3>2, Durations
    <3> QED   BY <3>2, <3>3
  <2> QED   BY <1>1, <1>5, <2>1, <2>2, <2>3 DEF Accepted
<1> QED   BY <1>1, <1>4, <1>5

-----------------------------------------------------------------------------
(* The filling follows what the block is cut into.                         *)

\* The filling of a block follows what the block is cut into.
Follows == \E k : FilledTo(segs, rest, Expand(channelType, block.asset, block.dur), k,
                           block.asset, ~TooShort(block))
\* The spots that are picked for the break at the head of the rest fit in it.
FillInv ==
  /\ segs \in Seq(Aired) /\ rest \in Seq(Segment) /\ picks \in Seq(Spots)
  /\ session = "filling" =>
       /\ Follows
       /\ picks # <<>> => /\ rest # <<>> /\ IsBreak(Head(rest))
                          /\ Totals(LengthsOf(picks))[Len(picks)] <= Head(rest).dur

\* Nothing is being filled at the start.
LEMMA FillStarts ==
  ASSUME FeedInit
  PROVE  FillInv
BY DEF FeedInit, FillInv

\* What is known of the block that is filled.
LEMMA BeingFilled ==
  ASSUME CompilerTyped, FeedInv, session = "filling"
  PROVE  /\ block.asset \in Assets /\ block.dur \in Nat \ {0}
         /\ Whole(Expand(channelType, block.asset, block.dur), block.asset, block.dur,
                  ~TooShort(block), BreaksLost(block))
<1>1. block \in Range(timeline)
  BY DEF FeedInv
<1>2. block.asset \in Assets /\ block.dur \in Nat \ {0}
        /\ block.dur = SlotDuration(block.asset)
  BY <1>1, InMemory
<1> QED   BY <1>2, ExpandIs

\* A break always lasts.
LEMMA BreaksLast ==
  ASSUME NEW s, NEW r, NEW E, NEW k, NEW asset, NEW slot, NEW solid, NEW lost,
         Whole(E, asset, slot, solid, lost), FilledTo(s, r, E, k, asset, solid),
         r # <<>>, IsBreak(Head(r))
  PROVE  Head(r).dur \in Nat \ {0}
<1>1. E \in Seq(Segment) /\ E \in Seq(Parts(solid))
  BY DEF Whole
<1>2. Head(r) = E[k + 1] /\ k + 1 \in DOMAIN E
  BY <1>1, NextPart
<1>3. Head(r) \in Parts(solid)
  BY <1>1, <1>2
<1> QED   BY <1>3 DEF Parts, Segment

\* A block is fetched to be filled.
LEMMA FetchFills ==
  ASSUME CompilerTyped, NEW t, Scheduled(t), Fetch(t), channelType' = channelType
  PROVE  FillInv'
<1> DEFINE b == BlockAt(t)
           E == Expand(channelType, b.asset, b.dur)
<1>1. b.asset \in Assets /\ b.dur = SlotDuration(b.asset)
  BY BlocksAt, InMemory
<1>2. /\ block' = b /\ rest' = E /\ segs' = <<>> /\ picks' = <<>>
      /\ session' = "filling"
  BY DEF Fetch
<1>3. E \in Seq(Segment)
  <2> HIDE DEF b
  <2> QED   BY <1>1, ExpandIs DEF Whole
<1>4. /\ block'.asset = b.asset
      /\ Expand(channelType', block'.asset, block'.dur) = E
  BY <1>2
<1> HIDE DEF b, E
<1>5. FilledTo(<<>>, E, E, 0, b.asset, ~TooShort(block)')
  BY <1>3, NothingFilled
<1>6. FilledTo(segs', rest', Expand(channelType', block'.asset, block'.dur), 0,
               block'.asset, ~TooShort(block)')
  BY <1>2, <1>4, <1>5
<1>7. Follows'
  BY <1>6 DEF Follows
<1>8. segs' \in Seq(Aired) /\ rest' \in Seq(Segment) /\ picks' \in Seq(Spots)
  BY <1>2, <1>3
<1> QED   BY <1>2, <1>7, <1>8 DEF FillInv

\* One more part of it is filled.
LEMMA FillsOn ==
  ASSUME CompilerTyped, FeedInv, FillInv, session = "filling",
         UNCHANGED <<channelType, block>>, NEW k,
         FilledTo(segs', rest', Expand(channelType, block.asset, block.dur), k + 1,
                  block.asset, ~TooShort(block)),
         picks' = <<>>
  PROVE  FillInv'
<1>1. TooShort(block)' = TooShort(block)
  BY DEF TooShort
<1>2. FilledTo(segs', rest', Expand(channelType', block'.asset, block'.dur), k + 1,
               block'.asset, ~TooShort(block)')
  BY <1>1
<1>3. Follows'
  BY <1>2 DEF Follows
<1>4. segs' \in Seq(Aired) /\ rest' \in Seq(Segment)
  BY DEF FilledTo
<1> QED   BY <1>3, <1>4 DEF FillInv

\* One more spot adds its length to what is picked.
LEMMA PicksGrow ==
  ASSUME NEW spots, spots \in Seq(Spots), NEW spot \in Spots
  PROVE  /\ Append(spots, spot) \in Seq(Spots) /\ Append(spots, spot) # <<>>
         /\ Totals(LengthsOf(Append(spots, spot)))[Len(Append(spots, spot))]
              = Totals(LengthsOf(spots))[Len(spots)] + Duration[spot]
         /\ Totals(LengthsOf(spots))[Len(spots)] \in Nat /\ Duration[spot] \in Nat
<1> DEFINE n == Len(spots)
           D == LengthsOf(spots)
           more == Append(spots, spot)
<1>1. \A s \in Spots : Duration[s] \in Nat
  BY FeedAssumption, DurationAssumption
<1>2. /\ n \in Nat /\ DOMAIN spots = 1..n /\ \A i \in 1..n : spots[i] \in Spots
      /\ more \in Seq(Spots) /\ Len(more) = n + 1 /\ DOMAIN more = 1..(n + 1) /\ more # <<>>
      /\ \A i \in 1..n : more[i] = spots[i]
      /\ more[n + 1] = spot
  OBVIOUS
<1>3. D = [i \in 1..n |-> Duration[spots[i]]]
  BY <1>2 DEF LengthsOf
<1>4. LengthsOf(more) = [i \in 1..(n + 1) |-> Duration[more[i]]]
  BY <1>2 DEF LengthsOf
<1> HIDE DEF D, n, more
<1>5. D \in [1..n -> Nat]
  BY <1>1, <1>2, <1>3
<1>6. D \in Seq(Nat) /\ Len(D) = n
  BY <1>2, <1>5
<1>7. D \in Seq(Int)
  BY <1>6
<1>8. LengthsOf(more) = Append(D, Duration[spot])
  <2>1. Append(D, Duration[spot]) = [i \in 1..(n + 1) |-> IF i = n + 1 THEN Duration[spot]
                                                          ELSE D[i]]
    BY <1>6
  <2>2. \A i \in 1..(n + 1) : Duration[more[i]] = IF i = n + 1 THEN Duration[spot] ELSE D[i]
    BY <1>2, <1>3
  <2> QED   BY <1>4, <2>1, <2>2
<1>9. Duration[spot] \in Int /\ Duration[spot] \in Nat
  BY <1>1
<1>10. Totals(Append(D, Duration[spot]))[Len(D) + 1] = Totals(D)[Len(D)] + Duration[spot]
  BY <1>7, <1>9, TotalsAppend
<1>11. Totals(D)[Len(D)] \in Nat
  <2>1. Len(D) \in 0..Len(D)
    BY <1>2, <1>6
  <2> QED   BY <1>6, <2>1, TotalsGrow
<1> QED   BY <1>2, <1>6, <1>8, <1>9, <1>10, <1>11 DEF D, n, more

\* Every step of the filling follows what the block was cut into.
LEMMA FillStep ==
  ASSUME CompilerTyped, FeedInv, FillInv, [ProgramNext]_programVars
  PROVE  FillInv'
<1> DEFINE E == Expand(channelType, block.asset, block.dur)
           solid == ~TooShort(block)
           lost == BreaksLost(block)
           r == Head(rest)
<1>0. segs \in Seq(Aired) /\ rest \in Seq(Segment) /\ picks \in Seq(Spots)
  BY DEF FillInv
<1>1. ASSUME session = "filling", UNCHANGED <<channelType, session, block, segs, rest, picks>>
      PROVE  FillInv'
  <2>1. Follows' = Follows
    BY <1>1 DEF Follows, TooShort
  <2> QED   BY <1>1, <2>1 DEF FillInv
<1>2. ASSUME session' # "filling", UNCHANGED <<segs, rest, picks>>
      PROVE  FillInv'
  BY <1>2 DEF FillInv
<1>3. CASE (Compile /\ UNCHANGED feedVars) \/ UNCHANGED programVars
  <2>1. UNCHANGED <<channelType, session, block, segs, rest, picks>>
    BY <1>3 DEF programVars, feedVars
  <2> QED   BY <1>1, <1>2, <2>1
<1>4. ASSUME session = "filling"
      PROVE  /\ block.asset \in Assets
             /\ Whole(E, block.asset, block.dur, solid, lost)
             /\ \E k : FilledTo(segs, rest, E, k, block.asset, solid)
  BY <1>4, BeingFilled DEF FillInv, Follows
<1> HIDE DEF E, solid, lost
<1>5. CASE Feed
  <2>1. CASE TuneIn
    <3>1. PICK t : Scheduled(t) /\ Fetch(t)
      BY <2>1 DEF TuneIn
    <3>2. channelType' = channelType
      BY <2>1 DEF TuneIn
    <3> QED   BY <3>1, <3>2, FetchFills
  <2>2. CASE KeepSegment
    <3>1. /\ session = "filling" /\ rest # <<>> /\ ~IsBreak(r)
          /\ segs' = Append(segs, r) /\ rest' = Tail(rest)
          /\ UNCHANGED <<channelType, session, block, picks>>
      BY <2>2 DEF KeepSegment
    <3>2. PICK k : FilledTo(segs, rest, E, k, block.asset, solid)
      BY <1>4, <3>1
    <3>3. FilledTo(segs', rest', E, k + 1, block.asset, solid)
      BY <1>4, <3>1, <3>2, KeepsAct
    <3>4. picks' = <<>>
      BY <3>1 DEF FillInv
    <3> QED   BY <3>1, <3>3, <3>4, FillsOn DEF E, solid
  <2>3. CASE PickSpot
    <3>1. /\ session = "filling" /\ rest # <<>> /\ IsBreak(r)
          /\ UNCHANGED <<channelType, session, block, segs, rest>>
      BY <2>3 DEF PickSpot, InBreak
    <3>2. PICK spot \in Spots : Duration[spot] <= Left /\ picks' = Append(picks, spot)
      BY <2>3 DEF PickSpot, Fits
    <3>3. r.dur \in Nat
      <4>1. PICK k : FilledTo(segs, rest, E, k, block.asset, solid)
        BY <1>4, <3>1
      <4> QED   BY <1>4, <3>1, <4>1, BreaksLast
    <3> DEFINE sum == Totals(LengthsOf(picks))[Len(picks)]
    <3>4. /\ picks' \in Seq(Spots) /\ sum \in Nat /\ Duration[spot] \in Nat
          /\ Totals(LengthsOf(picks'))[Len(picks')] = sum + Duration[spot]
      BY <1>0, <3>2, PicksGrow
    <3>5. Duration[spot] <= r.dur - sum
      BY <3>2 DEF Left
    <3> HIDE DEF sum
    <3>6. Totals(LengthsOf(picks'))[Len(picks')] <= r.dur
      BY <3>3, <3>4, <3>5
    <3>7. Totals(LengthsOf(picks))[Len(picks)]' <= Head(rest)'.dur
      BY <3>1, <3>6
    <3>8. Follows' = Follows
      BY <3>1 DEF Follows, TooShort
    <3> QED   BY <3>1, <3>4, <3>7, <3>8 DEF FillInv
  <2>4. CASE FillBreak
    <3> DEFINE t == FilledBreak(picks, r.dur)
    <3>1. /\ session = "filling" /\ rest # <<>> /\ IsBreak(r) /\ picks # <<>>
          /\ segs' = segs \o t /\ rest' = Tail(rest) /\ picks' = <<>>
          /\ UNCHANGED <<channelType, session, block>>
      BY <2>4 DEF FillBreak, InBreak
    <3>2. PICK k : FilledTo(segs, rest, E, k, block.asset, solid)
      BY <1>4, <3>1
    <3>3. r.dur \in Nat
      BY <1>4, <3>1, <3>2, BreaksLast
    <3>4. Totals(LengthsOf(picks))[Len(picks)] <= r.dur
      BY <3>1 DEF FillInv
    <3>5. t \in Seq(Fills) /\ Total(t) = r.dur
      <4> DEFINE dur == r.dur
      <4> HIDE DEF dur
      <4>1. dur \in Nat /\ Totals(LengthsOf(picks))[Len(picks)] <= dur
        BY <3>3, <3>4 DEF dur
      <4>2. FilledBreak(picks, dur) \in Seq(Fills) /\ Total(FilledBreak(picks, dur)) = dur
        BY <1>0, <3>1, <4>1, FilledBreakIs
      <4> QED   BY <4>2 DEF dur
    <3> HIDE DEF t
    <3>6. FilledTo(segs', rest', E, k + 1, block.asset, solid)
      BY <1>4, <3>1, <3>2, <3>5, FillsBreak
    <3> QED   BY <3>1, <3>6, FillsOn DEF E, solid
  <2>5. CASE Fallback
    <3> DEFINE x == Spot(Filler, r.dur)
               t == <<x>>
    <3>1. /\ session = "filling" /\ rest # <<>> /\ IsBreak(r) /\ picks = <<>>
          /\ r.dur <= Duration[Filler]
          /\ segs' = Append(segs, x) /\ rest' = Tail(rest)
          /\ UNCHANGED <<channelType, session, block, picks>>
      BY <2>5 DEF Fallback, InBreak
    <3>2. PICK k : FilledTo(segs, rest, E, k, block.asset, solid)
      BY <1>4, <3>1
    <3>3. r.dur \in Nat \ {0}
      BY <1>4, <3>1, <3>2, BreaksLast
    <3>4. x \in Fills /\ x.dur = r.dur
      BY <3>1, <3>3, FillIs, FeedAssumption DEF Assets
    <3> HIDE DEF x
    <3>5. t \in Seq(Fills) /\ Total(t) = r.dur
      BY <3>4, FillIs, TotalFew
    <3>6. segs' = segs \o t
      BY <1>0, <3>1
    <3> HIDE DEF t
    <3>7. FilledTo(segs', rest', E, k + 1, block.asset, solid)
      BY <1>4, <3>1, <3>2, <3>5, <3>6, FillsBreak
    <3> QED   BY <3>1, <3>7, FillsOn DEF E, solid
  <2>6. CASE TooLong
    BY <1>2, <2>6 DEF TooLong, Stopped
  <2>7. CASE SeedFirst \/ SeedSecond \/ FeedNext
    BY <1>2, <2>7 DEF SeedFirst, SeedSecond, FeedNext
  <2>8. CASE LookUp
    <3>1. channelType' = channelType
      BY <2>8 DEF LookUp
    <3>2. CASE Scheduled(cursor)
      BY <2>8, <3>1, <3>2, FetchFills DEF LookUp
    <3>3. CASE ~Scheduled(cursor)
      BY <1>2, <2>8, <3>3 DEF LookUp, Stopped
    <3> QED   BY <3>2, <3>3
  <2>9. CASE TuneOut
    BY <2>9 DEF TuneOut, FillInv
  <2> QED   BY <1>5, <2>1, <2>2, <2>3, <2>4, <2>5, <2>6, <2>7, <2>8, <2>9 DEF Feed
<1> QED   BY <1>3, <1>5 DEF ProgramNext

\* A filled block is as it should be.
LEMMA FilledWell ==
  ASSUME CompilerTyped, FeedInv, FillInv
  PROVE  SlotFilled
<1> SUFFICES ASSUME Filled
             PROVE  /\ ActTime[Len(segs)] = Duration[block.asset]
                    /\ \A i \in DOMAIN segs : IsAct(i) =>
                         /\ segs[i].asset = block.asset /\ segs[i].off = ActTime[i - 1]
                         /\ segs[i].fadeIn => \E j \in 1..(i - 1) :
                              IsAct(j) /\ segs[j].fadeOut
                                /\ \A k \in (j + 1)..(i - 1) : ~IsAct(k)
                    /\ \/ Accepted(segs, block.dur)
                       \/ TooShort(block)
                       \/ BreaksLost(block)
  BY DEF SlotFilled
<1> DEFINE E == Expand(channelType, block.asset, block.dur)
           solid == ~TooShort(block)
           lost == BreaksLost(block)
<1>1. session = "filling" /\ rest = <<>>
  BY DEF Filled
<1>2. /\ block.asset \in Assets /\ block.dur \in Nat \ {0}
      /\ Whole(E, block.asset, block.dur, solid, lost)
  BY <1>1, BeingFilled
<1>3. PICK k : FilledTo(segs, <<>>, E, k, block.asset, solid)
  BY <1>1 DEF FillInv, Follows
<1> HIDE DEF E, solid, lost
<1>4. /\ Acts(segs)[Len(segs)] = Duration[block.asset] /\ CutFrom(segs, block.asset)
      /\ solid /\ ~lost => Accepted(segs, block.dur)
  BY <1>2, <1>3, AllFilled
<1>5. ActTime = Acts(segs)
  BY DEF ActTime, Acts, ActDurs, IsAct
<1>6. ASSUME NEW i \in DOMAIN segs, IsAct(i)
      PROVE  /\ segs[i].asset = block.asset /\ segs[i].off = ActTime[i - 1]
             /\ segs[i].fadeIn => \E j \in 1..(i - 1) :
                  IsAct(j) /\ segs[j].fadeOut
                    /\ \A m \in (j + 1)..(i - 1) : ~IsAct(m)
  <2>1. /\ segs[i].asset = block.asset /\ segs[i].off = Acts(segs)[i - 1]
        /\ segs[i].fadeIn => Fades(segs, i - 1)
    BY <1>4, <1>6 DEF CutFrom, IsAct
  <2>2. Fades(segs, i - 1) => \E j \in 1..(i - 1) :
                                IsAct(j) /\ segs[j].fadeOut
                                  /\ \A m \in (j + 1)..(i - 1) : ~IsAct(m)
    BY DEF Fades, IsAct
  <2> QED   BY <1>5, <2>1, <2>2
<1> QED   BY <1>4, <1>5, <1>6 DEF solid, lost

-----------------------------------------------------------------------------
(* What AIR is handed agrees with the schedule.                            *)

\* No plan is made at the start.
LEMMA PlansStart ==
  ASSUME FeedInit
  PROVE  PlansAgree /\ TuneInStarts
BY DEF FeedInit, PlansAgree, TuneInStarts, NoPlan

\* The plan of a block agrees with the block.
LEMMA PlanAgrees ==
  ASSUME CompilerTyped, FeedInv, FillInv, session = "filling"
  PROVE  Accepted(segs, block.dur) =>
           /\ Accepted(Cut, End(block) - (block.start + Skip))
           /\ \A t \in (block.start + Skip)..(End(block) - 1) :
                PlaysAt(Cut, t - (block.start + Skip)) = PlaysAt(segs, t - block.start)
<1> SUFFICES ASSUME Accepted(segs, block.dur)
             PROVE  /\ Accepted(Cut, End(block) - (block.start + Skip))
                    /\ \A t \in (block.start + Skip)..(End(block) - 1) :
                         PlaysAt(Cut, t - (block.start + Skip))
                           = PlaysAt(segs, t - block.start)
  OBVIOUS
<1> DEFINE s == block.start
           d == block.dur
           skip == Skip
           cut == Cut
<1>1. /\ s \in Nat /\ d \in Nat /\ d > 0 /\ End(block) = s + d
  <2>1. block \in Range(timeline)
    BY DEF FeedInv
  <2> QED   BY <2>1, InMemory DEF End
<1>2. skip \in Nat /\ skip < d
  <2>1. CASE seeding = "a"
    <3>1. s <= joinedAt /\ joinedAt < s + d /\ joinedAt \in Nat
      BY <1>1, <2>1 DEF FeedInv, Covers
    <3>2. skip = joinedAt - s
      BY <2>1 DEF Skip
    <3> HIDE DEF s, d, skip
    <3> QED   BY <1>1, <3>1, <3>2
  <2>2. CASE seeding # "a"
    <3>1. skip = 0
      BY <2>2 DEF Skip
    <3> QED   BY <1>1, <3>1
  <2> QED   BY <2>1, <2>2
<1>3. segs \in Seq(Aired) /\ Accepted(segs, d)
  BY DEF FillInv
<1>4. cut = IF skip > 0 THEN Joined(segs, skip, d - skip) ELSE segs
  BY DEF Cut
<1> HIDE DEF s, d, skip, cut
<1>5. CASE skip > 0
  <2>1. cut = Joined(segs, skip, d - skip)
    BY <1>4, <1>5
  <2>2. /\ Accepted(Joined(segs, skip, d - skip), d - skip)
        /\ \A x \in skip..(d - 1) :
             PlaysAt(Joined(segs, skip, d - skip), x - skip) = PlaysAt(segs, x)
    BY <1>1, <1>2, <1>3, JoinAgrees
  <2>3. Accepted(cut, d - skip)
          /\ \A x \in skip..(d - 1) : PlaysAt(cut, x - skip) = PlaysAt(segs, x)
    BY <2>1, <2>2
  <2>4. (s + d) - (s + skip) = d - skip
    BY <1>1, <1>2
  <2>5. ASSUME NEW t \in (s + skip)..((s + d) - 1)
        PROVE  PlaysAt(cut, t - (s + skip)) = PlaysAt(segs, t - s)
    <3>1. t - s \in skip..(d - 1) /\ (t - s) - skip = t - (s + skip)
      BY <1>1, <1>2
    <3>2. PlaysAt(cut, (t - s) - skip) = PlaysAt(segs, t - s)
      BY <2>3, <3>1
    <3> QED   BY <3>1, <3>2
  <2>6. /\ Accepted(cut, (s + d) - (s + skip))
        /\ \A t \in (s + skip)..((s + d) - 1) :
             PlaysAt(cut, t - (s + skip)) = PlaysAt(segs, t - s)
    BY <2>3, <2>4, <2>5
  <2> QED   BY <1>1, <2>6 DEF s, skip, cut
<1>6. CASE ~(skip > 0)
  <2>1. skip = 0 /\ cut = segs
    BY <1>2, <1>4, <1>6
  <2>2. s + skip = s /\ (s + d) - (s + skip) = d
    BY <1>1, <2>1
  <2>3. /\ Accepted(cut, (s + d) - (s + skip))
        /\ \A t \in (s + skip)..((s + d) - 1) :
             PlaysAt(cut, t - (s + skip)) = PlaysAt(segs, t - s)
    BY <1>3, <2>1, <2>2
  <2> QED   BY <1>1, <2>3 DEF s, skip, cut
<1> QED   BY <1>5, <1>6

\* A plan follows the one before it.
LEMMA PlanFollows ==
  ASSUME CompilerTyped, FeedInv, session = "filling"
  PROVE  IF seeding = "a" THEN block.start + Skip = joinedAt
         ELSE /\ cursor # -1 /\ Skip = 0
              /\ block.start # cursor => Overlapped(block) /\ block.start < cursor
<1>1. block \in Range(timeline) /\ cursor \in Nat /\ joinedAt \in Nat
  BY DEF FeedInv
<1>2. block.start \in Nat /\ End(block) \in Nat
  BY <1>1, InMemory
<1>3. CASE seeding = "a"
  BY <1>1, <1>2, <1>3 DEF Skip
<1>4. CASE seeding # "a"
  <2>1. Skip = 0 /\ cursor # -1
    BY <1>1, <1>4 DEF Skip
  <2>2. block.start <= cursor /\ cursor < End(block)
    BY <1>4 DEF FeedInv, Covers
  <2>3. PICK c \in Range(timeline) : End(c) = cursor
    BY <1>4 DEF FeedInv
  <2>4. c # block
    BY <1>1, <2>2, <2>3
  <2>5. c.start < cursor
    <3>1. c.start \in Nat /\ c.dur \in Nat /\ c.dur > 0 /\ End(c) = c.start + c.dur
      BY <2>3, InMemory DEF End
    <3> QED   BY <2>3, <3>1
  <2>6. \E d \in DOMAIN rows : c \in Range(rows[d])
    BY <2>3 DEF FeedInv, Gathered
  <2>7. c.start \in Nat
    BY <2>3, InMemory
  <2>8. ASSUME block.start # cursor
        PROVE  Overlapped(block) /\ block.start < cursor
    <3>1. block.start < cursor
      BY <1>1, <1>2, <2>2, <2>8
    <3>2. c.start < End(block) /\ block.start < End(c)
      BY <1>1, <1>2, <2>2, <2>3, <2>5, <2>7, <3>1
    <3> QED   BY <2>4, <2>6, <3>1, <3>2 DEF Overlapped
  <2> QED   BY <1>4, <2>1, <2>8
<1> QED   BY <1>3, <1>4

\* A plan agrees with its block when it is made, and no later step changes it.
LEMMA PlansStep ==
  ASSUME CompilerTyped, FeedInv, FillInv, PlansAgree, [ProgramNext]_programVars
  PROVE  PlansAgree'
<1>1. ASSUME plan' = NoPlan
      PROVE  PlansAgree'
  BY <1>1 DEF PlansAgree, NoPlan, NoBlock
<1>2. ASSUME Generate, session = "filling", joinedAt' = joinedAt, rows' = rows
      PROVE  PlansAgree'
  <2>1. plan' = [block |-> block, whole |-> segs, start |-> block.start + Skip,
                 segs |-> Cut, after |-> IF seeding = "a" THEN -1 ELSE cursor]
    BY <1>2 DEF Generate
  <2> DEFINE b == plan'.block
             start == plan'.start
             after == plan'.after
  <2>2. /\ b = block /\ plan'.whole = segs /\ start = block.start + Skip
        /\ plan'.segs = Cut /\ after = IF seeding = "a" THEN -1 ELSE cursor
    BY <2>1
  <2>3. Accepted(plan'.whole, b.dur) =>
          /\ Accepted(plan'.segs, End(b) - start)
          /\ \A t \in start..(End(b) - 1) :
               PlaysAt(plan'.segs, t - start) = PlaysAt(plan'.whole, t - b.start)
    <3>1. Accepted(segs, block.dur) =>
           /\ Accepted(Cut, End(block) - (block.start + Skip))
           /\ \A t \in (block.start + Skip)..(End(block) - 1) :
                PlaysAt(Cut, t - (block.start + Skip)) = PlaysAt(segs, t - block.start)
      BY <1>2, PlanAgrees
    <3> QED   BY <2>2, <3>1
  <2>4. IF after = -1 THEN start = joinedAt
        ELSE start # after => Overlapped(b) /\ start < after
    <3>1. block.start \in Nat
      BY <1>2, InMemory DEF FeedInv
    <3>2. CASE seeding = "a"
      BY <1>2, <2>2, <3>2, PlanFollows
    <3>3. CASE seeding # "a"
      <4>1. Skip = 0 /\ after = cursor /\ cursor # -1
        BY <1>2, <2>2, <3>3, PlanFollows
      <4>2. start = block.start
        BY <2>2, <3>1, <4>1
      <4>3. block.start # cursor => Overlapped(block) /\ block.start < cursor
        BY <1>2, <3>3, PlanFollows
      <4> QED   BY <2>2, <4>1, <4>2, <4>3
    <3> QED   BY <3>2, <3>3
  <2>5. (IF plan.after = -1 THEN plan.start = joinedAt
         ELSE plan.start # plan.after => Overlapped(plan.block) /\ plan.start < plan.after)'
    <3>1. Overlapped(plan.block)' <=> Overlapped(b)
      BY <1>2 DEF Overlapped, End
    <3> HIDE DEF Overlapped
    <3> QED   BY <1>2, <2>4, <3>1
  <2>6. (Accepted(plan.whole, plan.block.dur) =>
           /\ Accepted(plan.segs, End(plan.block) - plan.start)
           /\ \A t \in plan.start..(End(plan.block) - 1) :
                PlaysAt(plan.segs, t - plan.start)
                  = PlaysAt(plan.whole, t - plan.block.start))'
    BY <2>3
  <2> HIDE DEF b, start, after
  <2> QED   BY <2>5, <2>6 DEF PlansAgree
<1>3. ASSUME UNCHANGED <<plan, joinedAt, rows>>
      PROVE  PlansAgree'
  BY <1>3 DEF PlansAgree, Overlapped, End
<1>4. CASE UNCHANGED programVars
  BY <1>3, <1>4 DEF programVars, compilerVars, feedVars
<1>5. CASE Compile /\ UNCHANGED feedVars
  <2>1. session = "off"
    BY <1>5, CompiledRests DEF FeedInv
  <2>2. plan' = NoPlan
    BY <1>5, <2>1 DEF FeedInv, feedVars
  <2> QED   BY <1>1, <2>2
<1>6. CASE Feed
  <2>1. rows' = rows
    BY <1>6, FeedRests DEF compilerVars
  <2>2. CASE TuneIn \/ KeepSegment \/ PickSpot \/ FillBreak \/ Fallback \/ TooLong
    <3>1. session # "on" /\ plan' = plan
      BY <2>2 DEF TuneIn, KeepSegment, PickSpot, FillBreak, Fallback, TooLong, InBreak
    <3> QED   BY <1>1, <3>1 DEF FeedInv
  <2>3. CASE SeedFirst \/ FeedNext \/ (SeedSecond /\ ~Apart)
    <3>1. Generate /\ session = "filling" /\ joinedAt' = joinedAt
      BY <2>3 DEF SeedFirst, SeedSecond, FeedNext, Filled
    <3> QED   BY <1>2, <2>1, <3>1
  <2>4. CASE SeedSecond /\ Apart
    <3>1. session # "on" /\ plan' = plan
      BY <2>4 DEF SeedSecond, Filled
    <3> QED   BY <1>1, <3>1 DEF FeedInv
  <2>5. CASE LookUp \/ TuneOut
    BY <1>1, <2>5 DEF LookUp, TuneOut
  <2> QED   BY <1>6, <2>2, <2>3, <2>4, <2>5 DEF Feed
<1> QED   BY <1>4, <1>5, <1>6 DEF ProgramNext

\* The inductive invariant of the whole: the compiler's, what the producer has
\* in memory, the filling so far, and the properties themselves.
ProgramInv ==
  CompilerInv /\ FeedInv /\ FillInv /\ PlansAgree /\ TuneInStarts

\* Together: the schedule, the cutting of a block into acts and breaks, the filling of
\* the breaks with spots, and the block that BlockPlanProducer hands to AIR.
THEOREM ProgramInvariant == ProgramSpec => []ProgramInv
<1>1. FeedInit => ProgramInv
  BY CompilerStarts, FeedStarts, FillStarts, PlansStart DEF FeedInit, ProgramInv
<1>2. ProgramInv /\ CompilerInv' /\ [ProgramNext]_programVars => ProgramInv'
  <2> SUFFICES ASSUME ProgramInv, CompilerInv', [ProgramNext]_programVars
               PROVE  ProgramInv'
    OBVIOUS
  <2>1. CompilerTyped /\ JobTyped /\ FeedInv /\ FillInv /\ PlansAgree /\ TuneInStarts
    BY DEF ProgramInv, CompilerInv
  <2>2. FeedInv' /\ FillInv' /\ PlansAgree' /\ TuneInStarts'
    BY <2>1, FeedStep, FillStep, PlansStep, StartsStep
  <2> QED   BY <2>2 DEF ProgramInv
<1> QED   BY <1>1, <1>2, CompilerInvariant, PTL DEF ProgramSpec

\* Whatever the lengths of the assets and whichever spots traffic picks: the segments
\* of a filled block last as long as its slot, play all of the asset in order and
\* once, and pass the checks of AIR, but for the two cases that SlotFilled names.
THEOREM SlotsAreFilled == ProgramSpec => []SlotFilled
<1>1. ProgramInv => SlotFilled
  BY FilledWell DEF ProgramInv, CompilerInv
<1> QED   BY <1>1, ProgramInvariant, PTL

\* Whenever a viewer joins: at every instant of a plan AIR shows what the whole block has
\* at that instant; plans follow each other without a gap, but where blocks of two days
\* overlap; and tuning in works, but at the seams that TuneInStarts names.
THEOREM ScheduleIsAired == ProgramSpec => []OnAirAsScheduled
<1>1. ProgramInv => OnAirAsScheduled
  BY DEF ProgramInv, OnAirAsScheduled
<1> QED   BY <1>1, ProgramInvariant, PTL

=============================================================================
